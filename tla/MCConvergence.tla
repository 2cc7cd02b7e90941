---------------------------- MODULE MCConvergence ----------------------------
(* What InstallAIExtension comes to when it is left alone, for users who wait. *)
EXTENDS MCInstallAIExtension

\* The latest version that the status shows keeps changing.
VersionsAlternate == []<>(cr.resolved = v1) /\ []<>(cr.resolved = v2)

=============================================================================
