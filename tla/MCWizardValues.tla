-------------------------- MODULE MCWizardValues ---------------------------
EXTENDS WizardValues, TLC

\* Versions are told apart only by being the selected one or not.
VersionSymmetry == Permutations(Versions)
=============================================================================
