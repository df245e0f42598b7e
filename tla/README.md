# A verification of Brunch

Brunch runs ChromeOS on machines it was not made for. It keeps a pristine
ChromeOS image on one partition (ROOT-B), and an initramfs, `brunch-init`,
rebuilds the root partition (ROOT-A) from it with another kernel, with drivers
and with patches whenever the image, the framework or the settings have
changed. This directory holds TLA+ models of that machinery, the TLC
configurations that check them, and proofs for TLAPS.

The claim that matters most: **whatever is interrupted, and whoever writes the
disk at the same time, an interrupted rebuild is done again, an update that was
announced is built before it is acknowledged, and what the disk records about
ROOT-A is true.** The models show how far the scripts keep it; four runs show
statements of the scripts' own messages and comments that they do not keep, and
more such statements are listed with the way to see them fail. Around this core
there are models of the tools that hand it its input (discovery of the disk,
settings, PWA, installers and their clones), of the patches that depend on
options, and of the C code that is loaded into ChromeOS.

## The system

| Component | State | Operations | Talks to |
|---|---|---|---|
| `scripts/brunch-init` (initramfs, every boot) | shell variables; ROOT-A, ROOT-C's record (`debug`, `kernel_version`, `options`, `.md5sum`), GPT priorities | find the disk; decide on a rebuild; copy ROOT-B to ROOT-A; patch; acknowledge; record; switch root | `chromeos-update` and update_engine through ROOT-B, ROOT-C and the priorities of KERN-A and KERN-B |
| `chromeos-update` (`brunch-patches/99-updater.sh`) | ROOT-C, EFI, ROOT-B, priorities | `-f` framework, `-e` EFI, `-r` recovery image | `brunch-init` through the disk; update_engine and other copies of itself by overlapping writes |
| update_engine (ChromeOS) | ROOT-B, priorities | download, write, verify, announce | as above |
| Settings: `brunch-setup`, `edit-brunch-config`, GRUB | `settings.cfg` on the EFI partition | edit | the kernel and the command line of the next boot |
| `scripts/chromeos-install.sh`, `chromeos-install` (`brunch-patches/99-installer.sh`) | partition table and contents of a new disk or image | write the table; copy the partitions | its result is the first state `brunch-init` meets |
| Brunch PWA helper (`99-pwa.sh`) | the directory `brunch_pwa` | downloads, unzips, runs `chromeos-update`, offers a reboot | a second caller of `chromeos-update`; one process per open page |
| Option patches (`brunch-patches/*.sh`) | files on ROOT-A | apply one option | run by the rebuild, in the order of their names, and through files they leave for each other; `enable_updates` lets update_engine run |
| `extract-recovery`, `resize-data` | an image file; the entry of STATE | one shot | what the installer left |
| ARCVM seccomp shim | errno | wraps `prctl` and `syscall` | loaded into crosvm, before the C library |
| minigbm compatibility | open nodes, DRM mastery | finds a graphics device | loaded by crosvm and the camera; shares the cards with chrome |
| Kernel patches | the memory of a translated table | translate dm-verity tables | imageloader, upstream's dm-verity |
| Build scripts, external drivers, firmware, pictures | — | — | — |

What is hard about it:

* **Crashes.** Power may be lost anywhere in a rebuild: while ROOT-A is half
  written, between the two `cgpt` calls that acknowledge an update, and while
  the four record files are in the page cache, of which any combination may
  reach the disk.
* **Interleaving.** `chromeos-update` takes no lock. A terminal, the PWA and
  update_engine can write ROOT-B, ROOT-C and the priorities together, and the
  machine may be restarted in the middle.
* **Stale state.** The record of the last build stays on ROOT-C while ROOT-A is
  being overwritten for other parameters. ROOT-B is judged by `ls -lR`, which
  reads metadata only.
* **Ordering.** The digest is taken over the listing of ROOT-C between the
  third and the fourth record file, so that it matches at the next boot.
* **Arithmetic.** The partition table is computed in bytes, aligned and rounded
  for blocks of 512 and of 4096 bytes, and the copies seek in units of their
  own. An exit status has eight bits, an errno is told by an unsigned
  comparison, a table counts in sectors what the kernel counts in blocks.
* **Partial failure.** Most commands are run without a look at their status: a
  failing `sed`, `bsdtar`, `pv` or `cat` is followed by the message of a
  success.

What makes each component correct: `brunch-init` - retry, a true record,
acknowledgement after the build, no rebuild loop, user data survives;
`chromeos-update` - what it announces is eventually built, a failure takes back
nothing another process announced; the installers - a table without overlaps
for every disk, every copy in its place, success reported only if it is one;
the settings - a file GRUB can use at any time; the PWA - it offers a reboot
only after a success; the patches - an option wins over the detection, and what
one patch writes is still there after the last; the shim - nothing but the
filter is dropped, and the rest keeps the contract of the C library; minigbm -
no descriptor and no mastery is left behind; the tables - what was given is
what is verified.

`PROJECT.json` lists the components with their status and all hazards with
their lines.

## Modules

| Module | Models | Extends |
|---|---|---|
| `BrunchDisk` | the persistent state and the decision read off it | |
| `BrunchInit` | `scripts/brunch-init` 104-246, settings edits, power loss and restart | `BrunchDisk` |
| `ChromeosUpdate` | `99-updater.sh` 21-118 for several processes, update_engine (external) | `BrunchDisk` |
| `Brunch` | the composition, its properties and its inductive invariant | `BrunchInit`, `ChromeosUpdate` |
| `RebuildProtocol` | abstract specification: a redo transaction | |
| `MCBrunch` | values of the constants | `Brunch` |
| `BrunchProofs`, `BrunchRefinement` | theorems about `Brunch` | `Brunch`, TLAPS |
| `ChromeosInstall` | the three installers | |
| `BrunchClone` | `99-installer.sh` 231-257 composed with the core: cloning the running disk, and booting the clone | `Brunch` |
| `CloneProofs` | theorems about `BrunchClone` | `BrunchClone`, `BrunchProofs` |
| `SystemTools` | `99-extract_recovery.sh`, `99-resize_data.sh`, in what an installer has made | `ChromeosInstall` |
| `InstallProofs` | theorems about `ChromeosInstall` and `SystemTools` | `SystemTools`, TLAPS |
| `Discovery` | `brunch-init` 22-103 | |
| `BrunchSetup` | `brunch-setup`, `settings.cfg`, the GRUB menu | |
| `BootProofs` | theorems about `Discovery` and `BrunchSetup` | `BrunchSetup`, `Discovery`, TLAPS |
| `PwaHelper` | `99-pwa.sh` 22-106 and the files it shares with `chromeos-update` | |
| `PwaProofs` | theorems about `PwaHelper` | `PwaHelper`, TLAPS |
| `OptionPatches` | `82-features.sh`, `85-mesa_lnl.sh`, `86-intel_sof_fw.sh`, `87-arcvm_seccomp.sh` | |
| `PatchProofs` | theorems about `OptionPatches` | `OptionPatches`, TLAPS |
| `SeccompShim` | `brunch-noseccomp-shim.c` | |
| `Minigbm` | `brunch_minigbm_compat.c` 196-300 | |
| `VerityTable` | `dm_verity_chromeos_table.patch` | |
| `NativeProofs` | theorems about `SeccompShim`, `Minigbm` and `VerityTable` | these, TLAPS |
| `MCInstall`, `MCClone`, `MCPwa` | values of the constants | `SystemTools`, `BrunchClone`, `PwaHelper` |
| `MCBoot` | values of the constants; one of two parts at a time | `BrunchSetup`, `Discovery` |
| `MCFeatures` | values of the constants; one of four parts at a time | `OptionPatches`, `SeccompShim`, `Minigbm`, `VerityTable` |

### The core

Every step of `brunch-init` after which a power loss leaves a different disk is
an action; `pc` names the step. The actions in the order of the script:

| Action | Lines of `brunch-init` |
|---|---|
| `GrubLoads`, `GrubFails` | `grub.cfg`; 104-108 for `brunch_debug=1` |
| `Decide` | 120-154, the decision itself is `NeedsRebuild` |
| `ProbeRootB` | 156-173, `mount` and `ls -lR` of ROOT-B |
| `StartCopy`, `FinishCopy` | 173-182 |
| `ApplyPatches` | 183-195, with the `mkfs.ext4` of a new STATE |
| `UnmountRootA` | 196, ROOT-A is on disk |
| `RaiseKernA`, `LowerKernB` | 197, 198 |
| `WriteRecord`, `WriteMd5sum` | 199-203, into the page cache (`dirty`) |
| `UnmountRootC` | 206, the record is on disk (`Flush`) |
| `SwitchRoot` | 208-246, the remaining breakpoints, a panic, or ChromeOS starts |

`PowerLoss` may follow each of them and writes any subset of `dirty`. `Restart`
ends a session or a dead boot.

The state is abstracted to what can differ between two boots:

* `rootA.phase` is how far the rebuild got: "partial" from the first byte of
  the copy to the `umount` that flushes it, "complete" when the script ran to
  that point, whatever its commands returned. `rootA.state` is what came of it:
  "torn" if ROOT-B was torn when it was copied, "failed" if a command of the
  rebuild failed (`Outcomes`) or the patches came from a ROOT-C that was not
  whole, else "whole". A new installation has a ROOT-A nobody has patched:
  "partial", with no record.
* `rootB` is an image that is "whole", or half written and either "torn" (it
  mounts and can be listed) or "unreadable". Its `img` is the last image that
  was begun: only together with `state` does it say what is there.
* `rootC`, `recorded` and `md5sum`: the framework, the record, and whether the
  digest in `.md5sum` matches the listing. The listing has times to the second.
  A boot that writes the record over another one, of an earlier boot, changes
  the times, so the digest matches only if it and all files it was taken over
  reached the disk together.
* `stateful` is the file system of STATE and whether a session has stored data
  on it. The two are independent: data on a STATE that is still ext2 would be
  lost at the next rebuild, and that it never gets there, unless the
  `mkfs.ext4` of the first rebuild failed ("unformatted"), is a property.
* `boot` are the script's variables; the parameters are those of the record:
  the debug flag, the kernel version and the options.
* `built` and `said` are history: the parameters ROOT-A was completely built
  with under this framework; the image that was announced last, and whether its
  writer had ROOT-B for itself from its first byte to the announcement
  (`alone`). `said` is `None` from the moment another copy to ROOT-B begins.

`Unnoticed` names the commands of a rebuild that may fail without the script's
looking: "rebuild" (`pv`, `resize2fs`, `tar`, the patches) and "mkfs".

In `ChromeosUpdate` every process has a `pc` of its own (`upc`); `Requests` is
what it may be asked for. `clean` says whether another process has written the
same partition since the process began, on ROOT-B up to the announcement
(`Overlap`, `HandingOver`): if it has, what is on the partition afterwards is
nobody's image. `StartFramework` has three outcomes for a ROOT-C that is
overwritten and not finished: the old record is there with its listing, there
with another listing, or gone; only the last byte removes it for certain. All
failures of the script that end it are `Abort` and `RootBFailed`. update_engine
is not in the repository. The model keeps what `brunch-init` relies on: ROOT-B
is written, verified, and then KERN-B gets the higher priority. It runs only
under the options in `UpdateOptions` (`enable_updates`, `80-unibuild.sh`).

Abstractions to know: an edit of `settings.cfg` is one step; a write that a
session finished is taken to be on disk when the session ends; power loss in a
session is `Restart` (it kills all processes, and what they were writing stays
half written). `Init` is what `chromeos-install.sh` leaves.

### The installers

`ChromeosInstall` computes in sectors of 512 bytes. `AddEntry` is one entry of
`write_base_table` (`Layout` lists all thirteen, gaps included), `AddState` the
last one. Then the partitions are copied in order: `CopyWhole`; `ReadBreaks`, a
source that cannot be read to its end; `WriteFails`, a destination that cannot
be written or is full; `Skip` for the partitions an installer leaves alone. The
mode is "disk" (`install_singleboot`), "image" (`install_dualboot`) or "clone"
(`99-installer.sh`). cgpt is taken to count in logical blocks of the device, as
`write_base_table` supposes. Not in the model: failures of cgpt and losetup,
the macOS image file, which grows under the copy, and all dialogues.

### The clone and the tools of the running system

`BrunchClone` adds four variables to `Brunch`: `cpc`, the partition that is
being copied, `copy`, what the clone has so far, `touched`, whether the source
was written under the copy, and `lost`. All steps of the core go on meanwhile
(`MachineStep`). `BootClone` replaces the disk by the copy, with the priorities
15 and 0 of 99-installer.sh 173-174 and a new STATE: from there on the model is
the core again, started from a state its own `Init` does not have. The
installer looks at no status of `pv`, so each copy may fail or stop short, as
it may be torn by an updater that writes its source: ROOT-A then has not
`arrived`, ROOT-B is torn or unreadable, and of ROOT-C there is a `Part`, with
or without its record. The installer says "ChromeOS installed." in any case. A
clone without its ROOT-A that has the record is one whose next boot does not
rebuild anything: `lost` is true of it until the record changes. The
`mkfs.ext4` of the clone is taken to succeed.

`SystemTools` runs in an installation whose partitions all hold their contents.
`AddImageEntry`, `AddImageState` and `CopyToImage` are `extract-recovery`;
`Resize` is `resize-data`, and `CopyToLarger` its reason, a disk image that was
written to a larger disk. That pv stops at the end of a partition and that cgpt
refuses an entry beyond the end of the disk are assumptions.

### Discovery

The disks appear in any order while the script runs (`Appear`). `Retry`,
`GiveUp` and `FindPartition` are the loop at 24-30, with its counter in
`brunch_timeout`; `ListDisks`, `Pass`, `FoundRemovable`, `FoundFixed` and
`EndScan` the scan at 77-101, one name of /sys/block per step; `OpenImage`
40-75. Two disks with the same UUID are in the model: blkid names both, and the
test fails.

### Settings

`settings.cfg` is written by `CopyTemplate` and five times by `Substitute`.
`maybe` is what a power loss may leave of it: FAT has no journal, and until the
unmount it is any version that was written, an empty file or none. `Interrupt`
is Ctrl-C, which also kills the command that is running. `CopyFails` is a `cp`
that did not work: the script goes on with what is there, the file of before or
an empty one (`CutShort`). `copied` remembers that the `cp` of the last edit
worked, `mixed` that one did not and nothing on the disk is free of it yet.
Without a usable file GRUB has no kernel for its first entry (`BootChromeOS`),
but has one for the second (`BootSettings`). One value stands for all that a
user selects; a selection is `unsafe` if it has an `@`, which `sed` takes for
its own syntax (`SedFails`). In the core an edit of the settings is one step.

### The PWA helper

A process is the helper of an open page, or a shell (`Terminal`). The
directories `brunch_pwa` (`there` and `pwa`) and `brunch_updater` are variables
all processes share, each file with the release it is `of` and whether it is
`whole`; `linked` says that the file a process is writing still has its name,
since `rm -r` under a running `curl` or `tar` does not stop it, and that nobody
else writes it. `Ask` makes the directory anew and looks for the address of the
release, `StartDownload` creates the file: another helper may remove the
directory in between. Two `curl` that write one file are taken never to make it
whole. `Refused` is all that `chromeos-update` refuses at 26-29, 35 and 95-103.
`Faults` names the commands that may fail: those whose status is looked at, in
the run that passes. Here ROOT-B and ROOT-C are one `part` each and the record
is left out; what `brunch-init` does with a hand-over is the core's matter.

### Option patches

`RunPatch` runs the next patch of the list on `root`, with any of the
`Failures`. `Wanted` is the loop over the words of the options that three of
them share. The exit status is the sum of the bits of the failed commands
modulo 256. `Rebuild` starts the next rebuild from a fresh ROOT-A, or, when its
`pv` failed, which `brunch-init` does not look at, from one that is patched
already. 86-intel_sof_fw.sh unpacks firmware, of which only its status is in
the model.

### The seccomp shim, minigbm and the verity table

`SeccompShim`: a call is a function (`prctl()` or `syscall()`), a number and
what it asks for; the kernel may return any long. `IsError` is the unsigned
comparison at line 57 in words of any width. What `prctl()` returns is an int,
of `IntHalf` as a long is of `Half`: line 76 cuts off its higher bits.

`Minigbm`: one step per node that is tried: the scan of /dev/dri (`Call`,
`ScanOpen`, `Detect`, `ScanEnd`, `Create`), then `try_drm_devices` for render
and for primary nodes (`TryOpen`, `TryCreate`, `TryEnd`). Chrome takes and
drops the mastery of the cards, and cards come and go, between any two of them.
Whoever opens a primary node that has no master becomes it, as the kernel has
it.

`VerityTable`: `Word` is one turn of the loop of `verity_chromeos_args`, with
all its errors; `heap` and `freed` are the buffers. What upstream's constructor
does with the arguments is not in the repository: it takes or refuses them
(`Ctr`).

## The runs

| Run | Shows |
|---|---|
| `safety` | the promises about retries, updates, boots and acknowledgements under power losses, a `chromeos-update`, update_engine and rebuilds whose commands fail; the inductive invariant; and that the core implements `RebuildProtocol` |
| `parameters` | two kernels, one of which an update takes away, two releases, both values of the debug flag, every breakpoint, and a failing `mkfs.ext4`: records mixed from two builds, or left on half of a ROOT-C, are never believed, and STATE is not formatted twice |
| `liveness` | `PendingIsBuilt` |
| `layout` | the installers, and `extract-recovery` and `resize-data` in what they made: sound tables for every kind of disk, copies in their place, nothing that was installed cut off |
| `clone` | a clone, made while updaters write and by a `pv` that may fail, keeps the invariant of the core: its record is true and its rebuilds are retried, with one exception, a clone without its ROOT-A that has the record |
| `boot` | settings: parts of two selections only after a `cp` that failed, what is reported saved is what `sed` could take, a lost file comes back. Discovery: removable disks first, an end whichever disks appear when |
| `requests` | one request after the other, with failures and a user in a terminal: what is handed over is whole and what was asked for |
| `features` | patches: options decide before the hardware, what a patch writes survives the others, and what a logged success means. The shim: the contract of `prctl()` and `syscall()`, for every value the kernel may return. minigbm: descriptors and mastery are given back, a device is found if there is one. The table: nothing is freed twice on any path, and nothing leaks but a buffer that a second `hashstart` replaced |
| `skip`, `read_error`, `two_pages`, `two_updaters` | statements of `brunch-init`, `chromeos-install.sh` and `99-updater.sh` that do not hold |

The parts of `boot` and of `features` share no state. Each behaviour of these
runs is one of one part, which the variable `part` names in its first state,
while the others rest: what is explored is the sum of the parts and not their
product.

### Properties

* `RetryGuarantee`: a rebuild cut short is decided again at the next boot with
  its parameters.
* `RecordedWasBuilt`: a record that would be believed names parameters ROOT-A
  was completely built with under the current framework.
* `UpdateNeverForgotten`: an update announced by a process that had ROOT-B for
  itself is on ROOT-B, all of it, until another copy to ROOT-B begins; and it
  is pending until ROOT-A was rebuilt from it. A ROOT-A copied from a torn
  ROOT-B does not count. Of a process that shared ROOT-B nothing of the kind is
  true: `two_updaters`.
* `BootExplained`: a boot goes on without its own complete build only if ROOT-B
  cannot be listed, or if an earlier record stood while a rebuild for other
  parameters was given up. The second case is what `skip` shows.
* `NoRebuildLoop`: a rebuild that ran to its end is not owed to the next boot.
* `AckOnlyAfterBuild`: a pending update is acknowledged only when ROOT-A was
  rebuilt to the end from what is on ROOT-B and ROOT-C, and is as whole as they
  are, unless a command of the rebuild failed. That ROOT-B may be torn then is
  not excluded, and not kept by the code: `RebuiltFromWholeRootB` below.
* `UserDataSurvives`: what a session has stored on STATE is not formatted away
  by a later rebuild, whatever file system the installer left. It takes several
  boots to violate: the first rebuild must leave an ext2 STATE behind, a
  session use it, and another rebuild be owed. The property has an exception
  for the one way there is, a `mkfs.ext4` that failed.
* `ImplementsProtocol`: the refinement, with `Vouched` as the mapping: the
  record vouches for the parameters it names if it is complete and the digest
  matches.
* `PendingIsBuilt`: see fairness.
* `TableSound`, `CopiesInPlace`: the table has no overlaps and enough room for
  both block sizes; a partition that was copied completely is in its place at
  the end, not overwritten by a later one. For `install_singleboot` this needs
  blocks of 512 bytes and sources that fit: the other cases are hazards.
* `CloneInv`: the invariant of the core without the promises about the record;
  these, unless the clone is `lost`; and that the copy's record is as good as
  the original's or gone. `RetryGuarantee`, `RecordedWasBuilt` and
  `BootExplained` are proved of clones that are not lost;
  `UpdateNeverForgotten` says nothing of a clone of which no update was
  announced.
* `ImageSound`, `ExtractedIsInstalled`: the image has 32 MiB for the EFI
  partition, the installation 64, and `build-init` writes 32; the three numbers
  are in three scripts.
* `ScanPrefersRemovable`, `DiscoveryEnds`: the second needs that the counter is
  set to 0, since `brunch_timeout=7` would step over the 5 it is compared with.
* `NoMixture`, `SavedAsSelected`, `SettingsComeBack`: the first two except an
  edit whose `cp` failed, the second also the field with an `@`; what the
  script says is `SavedMeansSelected`, below. The last one promises that a
  machine whose `settings.cfg` was lost can be repaired, unless edits are cut
  short, or fail, for ever.
* `HandOverKnownGood`, `HandOverAsked`: when the priorities are written, the
  partition is whole and holds the release that was asked for. `RequestsEnd`:
  the helper takes the next request.
* `OptionsDecide`, `FlagsReachChrome`, `CrosvmIsReached`, `SuccessSays`: the
  first against a definition without a loop; the second and third relate
  patches to each other and to an earlier rebuild. The last says what the
  "success" of the log is worth: it is logged exactly if none of the first
  eight commands failed, and then all flags these write are there. That any
  more succeeded is not true, `SuccessMeansSuccess` below.
* `NeverFiltered`, `GlibcContract`, `ProbesAreExpected`: they are stated with
  the range of errors and not with the comparison that the code uses for it.
* `FdsOwned`, `MasterGivenBack`, `NothingMeansNothing`, `CallEnds`: the third
  is about calls during which nothing changed (`steady`), since a card that
  leaves may be missed.
* `OnlyReplacedLeak`, `AsAsked`: wherever the parser stops, what is left
  allocated is exactly the buffers that a later word `hashstart` took the place
  of (line 109 of the patch does not free the one before), and nothing is freed
  twice. imageloader writes one such word.

Each property has a mutant, a plausible bug of the script, defined next to the
action it changes and marked `Mutant:`; the property fails with it.

### Bounds, and why they are enough

The core has no counters; its state space is finite for finite constants, and
none of its guards is a bound.

* `safety`: two images tell old from new. Two option sets give a change and a
  change back, which the stale record needs. One updater, for `-f` and `-r` in
  any combination, and update_engine overlap on ROOT-B. There is one framework;
  two are in `parameters`, `skip` and `clone`. Images are interchangeable
  (symmetry), options are not, because one of them enables update_engine.
  Commands of the rebuild may fail, `mkfs` does not.
* `skip`: as `safety`, with two frameworks and no failing commands.
* `parameters`: two kernels, frameworks and debug flags, one option set and all
  breakpoints, one image, no update_engine, `-f` with or without `-e`: it is
  about the record. All commands of a rebuild may fail.
* `two_updaters`: two images, two updaters that are asked for `-r`, and no
  update_engine: one framework and one option set are enough for the violation.
* `liveness`: one image and framework, since it is about the priorities and the
  order of boots; no symmetry.
* `layout`: an image of 14 GiB, the smallest that is accepted, with 512 byte
  blocks, and disks of 16, 32 and 64 GB with both kinds of blocks, from the
  start or as the larger disk of a copy; a ROOT-A that just fits and one that
  does not; a KERN-B that fits into the extracted image and one that does not;
  transfers that break off after 4000 sectors. It may stop (`CHECK_DEADLOCK
  FALSE`) since an installer ends. The proofs cover all sizes. `read_error` has
  the 14 GiB only.
* `clone`: one option set, one updater, no failing commands in the rebuild, and
  update_engine switched off: two images and two frameworks are what can be
  torn.
* `boot`: three names, as two installations and one between or after them are
  needed for first and last; a `brunch_timeout` beyond `Patience`, the five
  sleeps of the script; two selections, so that one edit follows another. It
  may stop: the search ends.
* `requests`: one process, which is a helper or a shell as it comes, two
  releases, every failure that the scripts look at, and an error page that is
  saved as if it were the release (`curl` has no `-f`). With two processes or
  with a `bsdtar` that fails halfway the properties do not hold. `two_pages`
  has two helpers and no failures.
* `features`: no iGPU, one of each kind and two of them, up to two words of ten
  or `acpi_power_button` between two that contradict each other, and one
  failing command per patch, any of the bits 0 to 10 that the patch can set.
  Left out are bit 2 of 87-arcvm_seccomp.sh, the `mv` of crosvm, and everything
  without `cros_debug`, where `CrosvmIsReached` and `FlagsReachChrome` do not
  hold; the proof of `SuccessSays` has neither restriction. Longs of five bits
  (`Half` = 16), ints of four and errors up to 7: all 32 values are tried with
  every call, and the proofs have no bound. Two cards of eight kinds: which is
  tried first is arbitrary, so that two are enough for "another one was there".
  imageloader's table, its reverse, each of its words missing or replaced by
  one of eight others, and a second word of every kind; tables of ten words and
  more are upstream's.

### Fairness

`FairSpec` assumes weak fairness of `BootStep` (the script runs on), of
`GrubLoads` (a machine that is off is turned on) and of `Reboot` (a session is
ended some time). Nothing is assumed of updaters, of update_engine or of edits,
which may happen forever. Repeated power loss could interrupt every rebuild, so
`PendingIsBuilt` has the premise `StablePower`: from some time on no boot is
interrupted. It promises that a pending update is built, or that ROOT-B becomes
unreadable or the machine unbootable, in which case the script does not rebuild
either. The breakpoints are left out: they stop a boot on purpose.

In the other modules: `BootSpec` assumes weak fairness of the search, a
sequence of commands that end, and nothing of the disks; that `brunch-setup`
runs on, that a user who cannot boot the first entry takes the second, and goes
through its menus. Power losses and Ctrl-C only have to stop for
`SettingsComeBack`. `requests` assumes that every command ends (curl has no
time limit; the network's is taken to be one), and nothing of the user.
`FeaturesSpec` assumes that a call of the driver that was made runs on, and
nothing of chrome, of the cards or of who calls.

## What does not hold

| Run | The statement | What happens |
|---|---|---|
| `skip` | `brunch-init` 145 "rebuilding ChromeOS rootfs not necessary" | Options are changed, the rebuild is interrupted, the options are changed back: the old record matches, and a half written ROOT-A is booted. |
| `read_error` | `chromeos-install.sh` 293 "successfully installed" | `dd \| pv \| dd \|\| error` has the status of the last command. |
| `two_pages` | `99-updater.sh` 110-113, only hand over what "is known-good" | Two pages have two helpers with one directory: one removes or overwrites what the other is copying. |
| `two_updaters` | `99-updater.sh` 110-117, the same and "ChromeOS updated." | The copy of one is through, it says "updated" while another is writing over the same ROOT-B; the machine restarts, the torn image mounts and lists, is built, and the update is acknowledged. |

The behaviour behind the following statements is in the models, too. They have
no configuration of their own: TLC finds them violated when the property named
is checked in the run and under the constants named, alone, as an INVARIANT
unless it is called a PROPERTY.

| Statement | What happens | To see it |
|---|---|---|
| `99-updater.sh` 105-106 "the next boot is unaffected" | The failed copy has overwritten part of ROOT-B; a rebuild for any other reason copies it. | `UnaffectedByFailedCopy` (a PROPERTY), `safety` |
| `brunch-init` 165 "the framework will not be rebuilt until the update is fully applied" | The check reads metadata only, and a half written ROOT-B passes. | `RebuiltFromWholeRootB`, `safety` |
| `chromeos-install.sh` 293 "successfully installed" | On 4096 byte blocks `dd` seeks in the wrong unit. | `read_error` with `Devices <- Disks4096`, `Cuts = {}` |
| `chromeos-install.sh` 10-12, the source is the recovery image | `image` still is `rootc.img` when partition 8 is copied. | `CopiedFromRecovery`, `read_error` |
| `chromeos-install.sh` 15, `-l` selects the legacy EFI partition | `[ -z legacy_boot ]` tests a word: it is always selected. | `SecureUnlessLegacy`, `read_error` |
| `99-updater.sh` 110-111, brunch-init "rebuilds ROOT-A from ROOT-B on the next boot" | A clone made between the update and the boot gets ROOT-B and the record, but priorities of its own: it boots the old ROOT-A for good. | `PendingIsCloned` (a PROPERTY), `clone` without its symmetry |
| `99-installer.sh` 257 "ChromeOS installed." | The `pv` of partition 3 was cut short and that of partition 7 was not: the record that came with ROOT-C matches, and the clone never rebuilds the half of a ROOT-A that it has. | `ClonesRetry`, `clone` without its symmetry |
| `brunch-setup` 273 "Brunch configuration saved." | An `@` among the typed parameters ends the pattern of `sed`, which fails unnoticed; a `cp` that fails leaves the old selection, which the substitutions do not change. | `SavedMeansSelected`, `boot` |
| `99-pwa.sh` 40 "to reboot your computer and finish the update" | It is offered after every failure of `chromeos-update`, too. | `OfferMeansPending`, `requests` |
| `99-updater.sh` 110-113, only hand over what "is known-good" | The status of `bsdtar` is not looked at, and `dd` of a truncated image succeeds. | `two_pages` with `Pages <- OnePage`, `Faults <- UnzipFails` |
| `99-updater.sh` 37 "is not a valid Brunch release archive" | `[ ! tar -tf ... ]` does not run tar and never refuses; a `rootc.img` of an earlier failure is installed. | `HandOverAsked`, `requests` with `Archives <- MCAnyArchive` |
| `brunch-init` 188 "success" | Bits 8 to 10 of the status of 82-features.sh are lost in `exit`; the `grep` of bit 9 fails whenever the patch is run a second time on the same root. | `SuccessMeansSuccess`, `features` (bit 8 is enough, in developer mode) |
| `85-mesa_lnl.sh` 9 "sets the chrome flags required" | Without `cros_debug` the flags were copied to ui.conf by patch 82, before 85 adds its own. The entries of the shipped `grub.cfg` all pass `cros_debug`; this takes a start from elsewhere or an edited entry. | `FlagsReachChrome`, `features` with `DebugFlags <- NotInDebug` |
| the shim's 20-25, "unexpected failure on those two probes" | Every failing `memfd_create` and `eventfd2` is reported as EPERM, whether it was a probe or not. | `OnlyProbesAreNormalized`, `features` |

## The proofs

The theorems hold for every value of the constants under the named assumptions
of the modules: `DiskAssumption` (a framework ships a version or none for each
kernel file, the template's settings are settings, `None` is nothing else),
`InitAssumption` (the breakpoints are 0 to 4, `Unnoticed` names commands),
`UpdaterAssumption` (update_engine is not one of the updaters, `Requests` are
jobs) and `InstallAssumption` (blocks of 512 or 4096 bytes, at least 14 GiB, as
the scripts check); in the other modules `DiscoveryAssumption`,
`SetupAssumption` (`Default` is not a value), `PwaAssumption`, `ShimAssumption`
(an errno fits an int, an int a long), `GbmAssumption` (finitely many cards),
`TableAssumption` (tables of fewer than ten words), `PatchAssumption` and
`ToolsAssumption`, which give the constants their types. There may be any
number of updaters, images, frameworks and options, disks, releases, cards and
tables, option strings of any length, and any width of a long and of an int.
Every command named in `Unnoticed` may fail in every rebuild, and the theorems
hold whichever these are. A premise that goes beyond that is in the theorem
itself (`ASSUME ... PROVE`), and below. The inductive invariants were checked
by TLC, in place of the properties of the runs, before they were proved.

`BrunchProofs`. The properties are not inductive: `RetryGuarantee`, for
example, needs that no boot starts a copy which it does not owe, which needs
that the decision taken some steps ago is still true. `CoreInv` has what the
script relies on: `CacheInv` (which record files are dirty at which step),
`DecisionInv` (the decision is still true while it is acted on; nobody else
writes the disk during a boot), `RootAInv` (from the start of the copy ROOT-A
belongs to this boot and is as whole as ROOT-B, and a record that would be
believed implies that the framework has not been replaced), `PriorityInv` (the
acknowledgement comes before the record), `SessionInv` (processes live in a
session and have what they were asked for), `HandOverInv` (a process that had
ROOT-B for itself finds its image there, whole, from its last byte to the
announcement), `FreshInv` (while STATE is not formatted there is no record and
no session) and `UpdateNeverForgotten`, which is inductive with them. `IInv`
adds `RetryGuarantee` and `RecordedWasBuilt`. They are apart since a clone
keeps `CoreInv` in any case and these two only if it is not lost. The proof
that a step preserves `CoreInv` has one lemma per kind of step; those of the
two promises go through four lemmas that say which steps change the priorities
(`PrioritySteps`), the record (`RecordSteps`), ROOT-A (`RootASteps`) and the
history (`BuiltSteps`). `BootExplained` and `NoRebuildLoop` follow.

`BrunchRefinement`. `AckOnlyAfterBuild` and `UserDataSurvives`, and `Spec =>
ImplementsProtocol`: each step of `Brunch` is a step of `RebuildProtocol` or
leaves its four variables alone. Lemmas say who may change the priorities, the
record and ROOT-A. The two `cgpt` calls refine one `Acknowledge` (after
update_engine the first already makes the update not pending, after
`chromeos-update` both priorities are 15 then and the second does); the cached
record refines one `Commit`, at the `umount`, or a `Forget` when power is lost
half way.

`InstallProofs`. `EntriesInv` says that the entries so far lie one after the
other below `curr`, and `curr` below a bound per entry (`Reach`) that counts
the lengths and at most one alignment and one rounding each, for every block
size. The last bound is less than the 14 GiB the scripts insist on, which is
why STATE is never empty. `CopiesInv` says where the copies so far went.

The tools need an invariant of their own, `ToolsInv`. An installation that is
copied to another disk no longer satisfies `IInv`, which relates the table to
the disk it was made for; `InstalledInv` is what it still satisfies on whatever
larger disk it is on. `StateInv` keeps STATE last, so that `resize-data` has
only its end to move, and ROOT-B as long as the recovery image needs it. The
table of the image is built like that of an installer, with bounds of its own
(`ImageReach`, `ImageEntriesInv`), and `ExtractInv` compares what the copies
have brought with what there was to bring. `WhatIsExtracted` has the premise
that the image of the EFI partition has at most 32 MiB, as the one of
`build-init` has: a larger one would not fit partition 12 of the recovery
image. `StateOnlyGrows` (`ResizeKeepsState`) is in no run.

`CloneProofs`. Each action of the core keeps `CloneInv` because it keeps
`CoreInv` and, unless the clone is lost, the promises about the record, by the
lemmas of `BrunchProofs`, and does not make the copy's record better than it
was; that a step that changes the record of a lost clone makes it one that
keeps the promises is `NewRecord`. `BootClone` starts the core in a state where
the invariant must hold from scratch: that needs `CopyInv` (a record in the
copy was built under the copied framework, or is gone) and `SessionRecordInv`,
which says that no session runs on a partial ROOT-A that only the priorities,
which a clone does not get, would have rebuilt.

`BootProofs`. `ScanInv`: the disks before `next` are accounted for by
`bootdevice`, and the counter is at most `Patience` when it is compared.
`EditInv`: from a `cp` that worked on, `settings.cfg` has nothing but the
template and the present selection, which is why every version that a power
loss may bring back has one selection only; `ProgressInv`: the first `step`
fields are written, but for one that `sed` did not take. None of the three
theorems has a premise; the failing `cp` and the `@` are in the statements.

`PwaProofs`. `Stages` says at each step of a process which file holds what it
was asked for. It holds with the premise `Alone`, that there is one process and
no archive without an image; `HandsOverWhole` also has that `bsdtar` does not
fail. Without them the statements are false (see above).

`NativeProofs`, the shim: that the unsigned comparison is the range -4095 ..
-1, for every `Half` above `MaxErrno`, that the conversion to an int is an int
and keeps those that are (`Conversion`), and five properties from it; no run
checks `OnlyTheFilterIsDropped` and `ErrnoIsKept`.

`NativeProofs`, the driver: `NodesInv` has the nodes that are open at each
point of a call, one at the most, and `MasterGivenBack` is inductive with it,
since a close gives back the mastery that came with the node.
`NothingMeansNothing` needs `TriedInv`, what a call that nothing disturbed
knows of the cards: those it is through with are useless, but for the one whose
node is open, and when it goes on to the primary nodes no render node is left
that works. Cards may come and go at each step.

`NativeProofs`, the tables: a slot holds a value that a word which was read
gives it, or the default, and nothing else (`SlotsInv`); the buffers that are
held are the array and one for each word `hashstart` that was read
(`BuffersInv`); dm-verity is given the slots after the last word (`GivenInv`).
`AsAsked` follows for tables in any order of their words, with words repeated
or left out.

`PatchProofs`. `WhatSuccessSays` states `SuccessSays` without a premise, for
any options and any set of failing commands, in developer mode and out of it:
the sum modulo 256 is 0 exactly if the first eight bits are (`EightBits`), and
the commands that then worked have written their flags (`PromisesKept`).
`FlagsAreKept`: the flags are in `chrome_dev.conf` in any case, and chrome has
them in developer mode. `CrosvmIsKept` has the premise that the `mv` (bit 2 of
87-arcvm_seccomp.sh) does not fail: otherwise the `cat` that follows overwrites
the original. `OptionsDecide` compares a loop over the words with "the last
word that speaks of it decides". The loop is the recursive function `Verdicts`,
and the proof goes through the library's theorem that strict inclusion is
well-founded (each set of numbers up to a bound has a least element), since the
induction theorems themselves take an operator as a parameter.

The safety half of termination: `DiscoveryAdvances` and `CallsAdvance` prove
that a number of steps left (`ScriptLeft`, `CallLeft`) is smaller after each
step of the script or the call, and the same after any step of the disks, the
cards and the other processes. With the fairness of that one process this is
`DiscoveryEnds` and `CallEnds`; the second theorem also says how many steps a
call takes. No run checks these two action properties.

Only model-checked: the liveness properties `PendingIsBuilt`, `DiscoveryEnds`,
`SettingsComeBack`, `RequestsEnd` and `CallEnds`, since liveness under fairness
is out of the prover's reach. Every other property of the passing runs is
stated by a theorem. The properties of the runs that expect a violation are
false, and so are those of the table above for the constants it names.

## Plan

Done, in this order: the disk and `brunch-init`; `chromeos-update` and the
composition; the abstract protocol and the refinement; the inductive invariant
and its proofs; the installers and their proofs; discovery, settings, the PWA
helper and the clone with their proofs; the patches; the shim with its proofs;
minigbm, the verity table, and the tools of the running system; the proofs of
these four; the safety half of two terminations. Next:

1. **The safety half** of `RequestsEnd` and of `PendingIsBuilt`: that a helper
   which is alone, and a machine that keeps its power, are nearer to the end
   after each step.
2. **The image file** of a dual boot as the disk that `Discovery` opens, and
   the macOS path of `chromeos-install.sh`, where the file grows under the
   copy.
3. **The helper with the core.** `PwaHelper` has partitions without a record;
   with the core's it could say what the boot after `two_pages` builds.

## Not modelled

* The other patches write configuration files that no other patch reads, or
  unpack firmware: only that they run is in the core (`ApplyPatches`).
  20-startup.sh mounts file systems in sequence and stops at the first that
  fails.
* `drm_master_relax` and the other kernel patches are diffs of a few lines
  against a kernel that is not in the repository.
* In `brunch_minigbm_compat.c`: the translation of flags and the one-line
  forwards to libgbm, which have no state.
* The build scripts, which are sequential and stop at the first error.
* The drivers, firmware, audio profiles and pictures, which are third-party.
  Their C files, mostly tables of registers and of firmware, are nearly all of
  the lines of this repository: brunch's own scripts and C code are some
  thousands of lines among millions.
