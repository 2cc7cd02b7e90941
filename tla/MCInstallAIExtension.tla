----------------------- MODULE MCInstallAIExtension -----------------------
(* Instances of InstallAIExtension for TLC. *)
EXTENDS InstallAIExtension

CONSTANTS a, b, r1, r2, v1, v2

HelmSpec(h, e, r) == [src |-> "helm", helm |-> h, rev |-> r, ext |-> e,
                      version |-> v1, policy |-> "managed"]
GitSpec(e, r, v, p) == [src |-> "git", helm |-> None, rev |-> r, ext |-> e,
                        version |-> v, policy |-> p]

OneName  == {a}
TwoNames == {a, b}
OneRev   == {r1}
TwoRevs  == {r1, r2}
OneVersion  == {v1}
TwoVersions == {v1, v2}

\* One extension name; helm and git, pinned and tracking the latest.
ManagedSpecs == {HelmSpec(b, a, r1), GitSpec(a, r1, None, "managed"),
                 GitSpec(a, r1, v1, "managed")}

\* One extension name, every other change of the spec: the deployment's name, the
\* chart, the kind of source, the version policy.
SwitchSpecs == {HelmSpec(a, a, r1), HelmSpec(b, a, r1), HelmSpec(b, a, r2),
                GitSpec(a, r1, None, "managed"), GitSpec(a, r2, v1, "unmanaged")}

UnmanagedSpecs == {GitSpec(a, r1, v1, "unmanaged"), GitSpec(a, r1, None, "unmanaged")}
=============================================================================
