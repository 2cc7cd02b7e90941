-------------------------- MODULE MCWizardInstall --------------------------
EXTENDS WizardInstall, TLC

\* Clusters are told apart by nothing but their attempts.
ClusterSymmetry == Permutations(Clusters)
=============================================================================
