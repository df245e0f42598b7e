---------------------------- MODULE SeccompShim -----------------------------
(***************************************************************************)
(* brunch-noseccomp-shim.c, preloaded into crosvm: its prctl() and         *)
(* syscall() stand before the C library's.  They drop the installation of  *)
(* a seccomp filter, hand every other call to the kernel and turn what the *)
(* kernel returns into the result and the errno of the C library.          *)
(***************************************************************************)
EXTENDS Integers

CONSTANTS
  Half,      \* a long is in -Half .. Half - 1
  IntHalf,   \* an int is in -IntHalf .. IntHalf - 1
  MaxErrno,  \* the largest errno, 4095
  EPERM, EINVAL, ENOSYS,
  Rets       \* what the kernel may return

Longs == -Half .. Half - 1
Ints == -IntHalf .. IntHalf - 1

ASSUME ShimAssumption ==
  /\ Half \in Nat
  /\ MaxErrno \in Nat
  /\ IntHalf \in Nat
  /\ MaxErrno < IntHalf /\ IntHalf <= Half
  /\ Rets \subseteq Longs
  /\ {EPERM, EINVAL, ENOSYS} \subseteq 1 .. MaxErrno

\* The calls that the sandbox of crosvm and its mojo channels make: the system
\* call, how it is called, and what it asks for.  A "probe" has the flag ~0.
Functions == {"prctl", "syscall"}
Numbers == {"prctl", "seccomp", "memfd_create", "eventfd2", "recvmsg"}
Asked == [prctl |-> {"filter", "strict", "no_new_privs"},
          seccomp |-> {"filter", "strict"},
          memfd_create |-> {"probe", "memory"},
          eventfd2 |-> {"probe", "event"},
          recvmsg |-> {"message"}]

Calls == {c \in [fn : Functions, number : Numbers, what : UNION {Asked[n] : n \in Numbers}] :
            /\ c.what \in Asked[c.number]
            /\ c.fn = "prctl" => c.number = "prctl"}

VARIABLES
  filtered, \* a filter is installed in the process
  errno,
  call,     \* the call that was made last
  ret,      \* what the kernel returned for it
  entered,  \* whether the kernel was entered
  result    \* what the caller got

shimVars == <<filtered, errno, call, ret, entered, result>>

ShimInit ==
  /\ filtered = FALSE
  /\ errno = 0
  /\ call = [fn |-> "syscall", number |-> "recvmsg", what |-> "message"]
  /\ ret = 0
  /\ entered = TRUE
  /\ result = 0

-----------------------------------------------------------------------------

\* (unsigned long) x
Unsigned(x) == IF x < 0 THEN x + 2 * Half ELSE x

\* Mutant: > for >= where the largest errno is meant.
FailedButLast(r) == Unsigned(r) > Unsigned(-MaxErrno)

\* (unsigned long)ret > (unsigned long)-4096
IsError(r) == Unsigned(r) > Unsigned(-(MaxErrno + 1))

\* Mutant: only the C library's own prctl() is looked at.
InstallsByFunction(c) ==
  \/ c.fn = "prctl" /\ c.what = "filter"
  \/ c.number = "seccomp" /\ c.what = "filter"

\* prctl(PR_SET_SECCOMP, SECCOMP_MODE_FILTER), by its own function or by
\* syscall(), and seccomp(SECCOMP_SET_MODE_FILTER).
InstallsFilter(c) ==
  \/ c.number = "prctl" /\ c.what = "filter"
  \/ c.number = "seccomp" /\ c.what = "filter"

\* Mutant: the kernel's error is handed on.
NothingNormalized(c, r) == FALSE

\* memfd_create or eventfd2 failed as the caller does not expect it to.
Normalized(c, r) ==
  /\ c.fn = "syscall"
  /\ c.number \in {"memfd_create", "eventfd2"}
  /\ IsError(r)
  /\ -r \notin {EINVAL, ENOSYS, EPERM}

\* return 0, without a system call.
Drop(c) ==
  /\ InstallsFilter(c)
  /\ call' = c
  /\ entered' = FALSE
  /\ result' = 0
  /\ UNCHANGED <<filtered, errno, ret>>

\* (int) x
AsInt(x) == IF x \in Ints THEN x ELSE ((x + IntHalf) % (2 * IntHalf)) - IntHalf

\* prctl() returns an int, syscall() a long.
Returned(c, x) == IF c.fn = "prctl" THEN AsInt(x) ELSE x

\* raw_syscall, and ret_errno unless the error is replaced.
Forward(c, r) ==
  /\ ~ InstallsFilter(c)
  /\ call' = c
  /\ entered' = TRUE
  /\ ret' = r
  /\ filtered' = (filtered \/ (c.what = "filter" /\ ~ IsError(r)))
  /\ result' = Returned(c, IF IsError(r) THEN -1 ELSE r)
  /\ errno' = IF Normalized(c, r) THEN EPERM ELSE IF IsError(r) THEN -r ELSE errno

ShimNext == \E c \in Calls : Drop(c) \/ \E r \in Rets : Forward(c, r)

ShimSpec == ShimInit /\ [][ShimNext]_shimVars

-----------------------------------------------------------------------------

\* Types: what is stored is an errno, however far below zero the result is.
ShimTypeOK ==
  /\ filtered \in BOOLEAN
  /\ errno \in 0 .. MaxErrno
  /\ call \in Calls
  /\ ret \in Rets \cup {0}
  /\ entered \in BOOLEAN
  /\ result \in Longs

\* The file's title: whichever of the three ways the sandbox takes, crosvm is
\* told that it worked and has no filter, which would kill its device workers.
NeverFiltered == ~ filtered /\ (call.what = "filter" => result = 0)

\* "Turns only the seccomp filter installation into a no-op" (12-14): what else
\* the sandbox asks for, the strict mode too, gets to the kernel.
OnlyTheFilterIsDropped == ~ entered => call.what = "filter"

\* "Faithfully reproduces glibc's syscall() contract" (27-29), up to the ends
\* of the range of errors: a call fails exactly if the kernel returned one of
\* -MaxErrno .. -1, and errno tells which; of a result that is no int the
\* caller of prctl() gets the low bits, as from the C library's.
ErrnoOf(c) ==
  entered => IF ret \in -MaxErrno .. -1
             THEN result = -1 /\ (call \in c => errno = -ret)
             ELSE result = IF call.fn = "prctl" /\ ret \notin Ints THEN AsInt(ret) ELSE ret
GlibcContract == ErrnoOf({c \in Calls : c.number \notin {"memfd_create", "eventfd2"}})

\* "We normalize any unexpected failure on those two probes" (20-25): the error
\* of a call that is no probe is the kernel's.
OnlyProbesAreNormalized == ErrnoOf({c \in Calls : c.what # "probe"})

\* The check of mojo's channel (20-25): a probe that fails has failed with one
\* of three errors.
ProbesAreExpected ==
  call.what = "probe" /\ result = -1 => errno \in {EINVAL, ENOSYS, EPERM}

\* A call that works, or that never got to the kernel, leaves errno alone, as
\* errno(3) promises (55-62, 91-94).
ErrnoIsKept == [][result' # -1 => errno' = errno]_shimVars

=============================================================================
