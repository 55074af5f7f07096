----------------------------- MODULE MCJitBuild -----------------------------
(***************************************************************************)
(* Instances of JitBuild for TLC.                                          *)
(***************************************************************************)
EXTENDS JitBuild

CONSTANTS b1, b2, b3, b4

EachItsOwnProcess == [b \in Builds |-> b]
\* One long-lived process makes b1 and b3, another one b2.
TwoProcesses == [b \in Builds |-> IF b \in {b1, b3} THEN "p" ELSE "q"]

NoRebuild == [b \in Builds |-> 0]
\* The last build was asked to clear everything, the one before the binary.
SomeRebuild == [b \in Builds |-> CASE b = b2 -> 2 [] b = b3 -> 1 [] OTHER -> 0]

\* The lock works; it is lost once code generation is over.
Never == {}
AfterStaging == BuildPlaces \cup PublishPlaces
=============================================================================
