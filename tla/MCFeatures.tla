----------------------------- MODULE MCFeatures -----------------------------
(***************************************************************************)
(* What Brunch brings into ChromeOS, for TLC: the option patches of the    *)
(* rebuild, the shim and the driver in C that they install, and the parser *)
(* of the kernel that the rebuilt system runs on.  They share no state, so *)
(* that each behaviour is one of one of them: part says of which, and the  *)
(* others stay as they were.                                               *)
(***************************************************************************)
EXTENDS OptionPatches, SeccompShim, Minigbm, VerityTable

-----------------------------------------------------------------------------
(***************************************************************************)
(* Of the patches.                                                         *)
(***************************************************************************)

\* No iGPU that the patches know, one of each of the two kinds they tell apart,
\* and two.
SomeHardware == {{}, {"lnl"}, {"mtl"}, {"lnl", "arl"}}

\* Up to two words, and two that contradict each other with one between them.
SomeStrings ==
  LET mesa == {"lnl_mesa", "no_lnl_mesa"}
  IN {<<>>} \cup {<<v>> : v \in Words} \cup {<<v, w>> : v, w \in Words}
       \cup {<<v, "acpi_power_button", w>> : v, w \in mesa}

InDebug == {TRUE}
NotInDebug == {FALSE}
AnyDebug == BOOLEAN

AllPatches == <<"82", "85", "86", "87">>

\* A command that fails alone, but the one that moves crosvm aside.
OneFails == [p \in ToSet(AllPatches) |->
               {{}} \cup {{b} : b \in IF p = "87" THEN {0, 1, 3, 4} ELSE 0 .. 10}]

-----------------------------------------------------------------------------
(***************************************************************************)
(* Of the shim: longs of five bits, ints of four, errors up to 7.          *)
(***************************************************************************)

EveryLong == Longs

-----------------------------------------------------------------------------
(***************************************************************************)
(* Of the driver: a GPU that works, one that fails on its render node, on  *)
(* both; a display of a virtual machine or of USB; a card for tests with a *)
(* render node.                                                            *)
(***************************************************************************)

CONSTANTS c1, c2

TwoCards == {c1, c2}

SomeKinds ==
  {[driver |-> "xe", render |-> TRUE, gbm |-> g] : g \in SUBSET Types}
    \cup {[driver |-> "virtio_gpu", render |-> FALSE, gbm |-> g] : g \in {{}, {"primary"}}}
    \cup {[driver |-> "udl", render |-> FALSE, gbm |-> {"primary"}]}
    \cup {[driver |-> "vgem", render |-> TRUE, gbm |-> Types]}

-----------------------------------------------------------------------------
(***************************************************************************)
(* Of the parser: the table of imageloader, the same with a word that is   *)
(* another, gone, or there twice, and the words in the reverse order.      *)
(***************************************************************************)

Text(k) == [key |-> k, val |-> k, num |-> NoNumber]
Start(n) == [key |-> "hashstart", val |-> "digits", num |-> n]
OnError(b) == [key |-> "error_behavior", val |-> b, num |-> NoNumber]

Whole == <<Text("payload"), Text("hashtree"), Start(16), Text("alg"),
           Text("root_hexdigest"), Text("salt"), OnError("eio")>>

Others == {Start(8), Start(20), OnError("panic"), OnError("none"), OnError("typo"),
           Text("unknown"), Text("hashstart"),
           [key |-> "alg", val |-> NoValue, num |-> NoNumber]}

ManyTables ==
  {Whole, <<>>} \cup {Reverse(Whole)}
    \cup {RemoveAt(Whole, n) : n \in 1 .. Len(Whole)}
    \cup {ReplaceAt(Whole, n, w) : n \in 1 .. Len(Whole), w \in Others}
    \cup {Append(t, w) : t \in {Whole, Reverse(Whole)}, w \in Others}

-----------------------------------------------------------------------------
(***************************************************************************)
(* One part at a time.                                                     *)
(***************************************************************************)

VARIABLE part

featureVars == <<part, patchVars, shimVars, gbmVars, verityVars>>

\* Where the parts that are not run rest.
NotPatched == hw = {} /\ opts = <<>> /\ debug = (CHOOSE b \in DebugFlags : TRUE) /\ PatchInit
NotCalled ==
  /\ kind = [c \in Cards |-> CHOOSE k \in Kinds : TRUE]
  /\ present = {} /\ master = [c \in Cards |-> Nobody]
  /\ GbmInit
NotMapped == table = <<>> /\ VerityInit

FeaturesInit ==
  \/ part = "patches" /\ PatchInit /\ ShimInit /\ NotCalled /\ NotMapped
  \/ part = "shim" /\ NotPatched /\ ShimInit /\ NotCalled /\ NotMapped
  \/ part = "driver" /\ NotPatched /\ ShimInit /\ GbmInit /\ NotMapped
  \/ part = "parser" /\ NotPatched /\ ShimInit /\ NotCalled /\ VerityInit

FeaturesNext ==
  \/ part = "patches" /\ PatchNext /\ UNCHANGED <<part, shimVars, gbmVars, verityVars>>
  \/ part = "shim" /\ ShimNext /\ UNCHANGED <<part, patchVars, gbmVars, verityVars>>
  \/ part = "driver" /\ GbmNext /\ UNCHANGED <<part, patchVars, shimVars, verityVars>>
  \/ part = "parser" /\ VerityNext /\ UNCHANGED <<part, patchVars, shimVars, gbmVars>>

\* A call of the driver runs on; while another part runs there is none.
FeaturesSpec == FeaturesInit /\ [][FeaturesNext]_featureVars /\ WF_gbmVars(Step)

=============================================================================
