------------------------------- MODULE Versions -------------------------------
(***************************************************************************)
(* The orders of versions: semverDesc (services/rancher-apps.ts, and its   *)
(* copy in services/chart-service.ts), compareVersions of                  *)
(* utils/chart-resolver.ts and of utils/feature-flags.ts, and that of      *)
(* ResourceUtils (models/base/resource-mixin.ts); the choice of a version  *)
(* for a constraint; and the features that need a version.  A version is   *)
(* its three numbers, what follows "-", and what follows "+up".            *)
(***************************************************************************)
EXTENDS SequencesExt, Lists

CONSTANTS
    None,
    Versions    \* [core : three numbers, pre : None or "rc", up : None or three numbers]

\* What SEMVER_CORE lets through, and what isPrereleaseVersion holds back.
SEMVER_CORE(v) == v.pre = None
isPrereleaseVersion(v) == v.pre = "rc"

-----------------------------------------------------------------------------
(* The parts a version has once it is split at the dots *)

At(parts, n) == IF n \in DOMAIN parts THEN parts[n] ELSE 0

\* The sign of the first difference, missing parts being 0.
Order(one, two) ==
    LET differ == {n \in 1 .. Len(one) + Len(two) : At(one, n) # At(two, n)}
        first == CHOOSE n \in differ : \A m \in differ : n <= m
    IN IF differ = {} THEN 0 ELSE IF At(one, first) > At(two, first) THEN 1 ELSE -1

Tail2(up) == IF up = None THEN <<>> ELSE SubSeq(up, 2, 3)

\* "3+up4" is read as 3 by parseInt: the major number of what follows is lost ...
parseIntParts(v) == v.core \o Tail2(v.up)

\* ... and as NaN, that is 0, by Number, like "3-rc".
NumberParts(v) ==
    IF v.pre = None /\ v.up = None THEN v.core ELSE <<v.core[1], v.core[2], 0>> \o Tail2(v.up)

\* localeCompare of two texts with the same numbers: "10" is before "9".
Digits(n) == IF n < 10 THEN <<n>> ELSE <<n \div 10, n % 10>>
TextOrder(a, b) ==
    LET text(v) == IF v.up = None THEN <<>> ELSE <<1>> \o Digits(v.up[1])
        one == text(a)  two == text(b)
        differ == {n \in 1 .. 3 : (n \in DOMAIN one /\ n \in DOMAIN two) => one[n] # two[n]}
        first == CHOOSE n \in differ : \A m \in differ : n <= m
    IN IF one = two THEN 0
       ELSE IF first \notin DOMAIN two \/ (first \in DOMAIN one /\ one[first] > two[first]) THEN 1 ELSE -1

\* Mutant: texts are not compared when the numbers are equal.
semverDescNumbers(a, b) == Order(parseIntParts(b), parseIntParts(a))

\* 1 when b is the newer one.
semverDesc(a, b) ==
    LET order == Order(parseIntParts(b), parseIntParts(a))
    IN IF order # 0 THEN order ELSE TextOrder(b, a)

compareVersions(a, b) == Order(NumberParts(a), NumberParts(b))

\* ResourceUtils looks at the three numbers only.
compareCores(a, b) == Order(a.core, b.core)

-----------------------------------------------------------------------------
(* chart-resolver: available versions, newest first, and one of them for a constraint *)

\* all are the versions that it is to fetch, without those that are deprecated; the fetch
\* itself is not written yet, and what the code has in their place is the empty list.
getChartVersions(all, includePrereleases) ==
    Sorted(Filtered(all, LAMBDA v : includePrereleases \/ ~isPrereleaseVersion(v)),
           LAMBDA a, b : compareVersions(a, b) > 0)

findRecommendedVersion(list) ==
    LET stable == FirstOf(list, LAMBDA v : ~isPrereleaseVersion(v))
    IN list[IF stable # 0 THEN stable ELSE 1]

\* The versions that satisfy a constraint.
Satisfies(v, op, base) ==
    CASE op = ">=" -> compareVersions(v, base) >= 0
      [] op = "^" -> v.core[1] = base.core[1]
      [] op = "~" -> v.core[1] = base.core[1] /\ v.core[2] = base.core[2]
      [] OTHER -> v = base

\* The newest when nothing satisfies it.
resolveVersionConstraint(list, op, base) ==
    LET some == FirstOf(list, LAMBDA v : Satisfies(v, op, base)) IN list[IF some # 0 THEN some ELSE 1]

-----------------------------------------------------------------------------
(* feature-flags *)

\* A cluster's version, what it can do (None when the store does not know), the user's
\* preference (None without one), and what the feature asks for.
checkVersionRequirements(cluster, needs) ==
    \A part \in {"rancher", "kubernetes", "helm"} :
        needs[part] # None /\ cluster[part] # None => compareVersions(cluster[part], needs[part]) >= 0

checkCapabilityRequirements(able, needs) == needs.capabilities \subseteq able

\* The preference is asked last: it cannot enable what the cluster does not allow.
featureEnabled(feature, cluster, able, preference) ==
    /\ ~feature.deprecated
    /\ cluster # None =>
          /\ checkVersionRequirements(cluster, feature.needs)
          /\ able # None => checkCapabilityRequirements(able, feature.needs)
    /\ IF preference # None THEN preference ELSE feature.defaultEnabled

\* The features of the release: what each needs, operators and APIs among the capabilities.
RELEASE_FEATURES ==
    LET v(major, minor) == [core |-> <<major, minor, 0>>, pre |-> None, up |-> None]
        feature(on, rancher, kubernetes, helm, able) ==
            [deprecated |-> FALSE, defaultEnabled |-> on,
             needs |-> [rancher |-> rancher, kubernetes |-> kubernetes, helm |-> helm, capabilities |-> able]]
    IN [BULK_OPERATIONS |-> feature(TRUE, v(2, 6), v(1, 20), None, {}),
        ADVANCED_FILTERING |-> feature(TRUE, None, None, None, {}),
        CUSTOM_REPOSITORIES |-> feature(TRUE, v(2, 6), None, None, {"namespaces"}),
        HEALTH_MONITORING |-> feature(FALSE, v(2, 6), v(1, 21), None, {"secrets", "metrics"}),
        AUTO_UPDATES |-> feature(FALSE, v(2, 7), v(1, 22), v(3, 8), {}),
        ROLLBACK_SUPPORT |-> feature(TRUE, v(2, 6), None, v(3, 8), {"helm"}),
        MULTI_CLUSTER |-> feature(TRUE, v(2, 6), None, None, {}),
        OFFLINE_MODE |-> feature(FALSE, None, None, None, {}),
        BACKUP_RESTORE |-> feature(FALSE, v(2, 7), v(1, 22), None, {"secrets", "accounts", "velero", "backup"}),
        SECURITY_SCANNING |-> feature(FALSE, v(2, 7), v(1, 21), None, {"neuvector", "falco", "trivy"})]

\* The version every cluster is taken to have.
getClusterVersion ==
    [part \in {"rancher", "kubernetes", "helm"} |->
        [core |-> IF part = "rancher" THEN <<2, 7, 0>> ELSE IF part = "kubernetes" THEN <<1, 24, 0>> ELSE <<3, 8, 0>>,
         pre |-> None, up |-> None]]

getAllEnabledFeatures(able, preferences) ==
    {flag \in DOMAIN RELEASE_FEATURES :
        featureEnabled(RELEASE_FEATURES[flag], getClusterVersion, able, preferences[flag])}

validateClusterForFeature(feature, cluster) ==
    LET short == {part \in {"rancher", "kubernetes", "helm"} :
                    /\ feature.needs[part] # None /\ cluster[part] # None
                    /\ compareVersions(cluster[part], feature.needs[part]) < 0}
    IN [valid |-> checkVersionRequirements(cluster, feature.needs), reasons |-> short]

-----------------------------------------------------------------------------
(* Properties *)

\* Newer by what the numbers say: the chart's own, then those of what it packages.
Newer(a, b) ==
    LET packaged(v) == IF v.up = None THEN <<0, 0, 0>> ELSE v.up
    IN Order(a.core \o packaged(a), b.core \o packaged(b)) = 1

\* The versions shown are in a strict order, and the newest is first unless two versions
\* of the chart differ only in the major number of what they package, whose other numbers
\* say the contrary or which have a different count of digits.
ShownInOrder(a, b) ==
    SEMVER_CORE(a) /\ SEMVER_CORE(b) =>
        /\ semverDesc(a, b) = -semverDesc(b, a)
        /\ semverDesc(a, b) = 0 <=> a = b
        /\ \A c \in Versions :
              SEMVER_CORE(c) /\ semverDesc(a, b) < 0 /\ semverDesc(b, c) < 0 => semverDesc(a, c) < 0
        /\ Newer(a, b) /\ semverDesc(a, b) >= 0 =>
              /\ a.core = b.core /\ b.up # None
              /\ LET up == IF a.up = None THEN <<0, 0, 0>> ELSE a.up
                 IN /\ up[1] > b.up[1]
                    /\ \/ Order(Tail2(b.up), Tail2(up)) = 1
                       \/ Tail2(b.up) = Tail2(up) /\ Len(Digits(up[1])) > Len(Digits(b.up[1]))

\* The four orders are the same on plain versions.  Those that read with Number put a
\* version with a suffix below the plain one, or beside it when its last number is 0,
\* and even below an older plain one of the same minor number.
OrdersAgree(a, b) ==
    LET plain(v) == v.pre = None /\ v.up = None
    IN /\ plain(a) /\ plain(b) => /\ compareVersions(a, b) = compareCores(a, b)
                                  /\ compareVersions(a, b) = -semverDesc(a, b)
       /\ plain(b) /\ a.pre # None /\ a.up = None =>
             compareVersions(a, b) = compareCores([a EXCEPT !.core[3] = 0], b)

\* Among versions that package nothing, what a constraint resolves to meets it whenever
\* some version does.
Meets(v, op, base) ==
    /\ Order(v.core, base.core) >= 0
    /\ op = "^" => v.core[1] = base.core[1]
    /\ op = "~" => v.core[1] = base.core[1] /\ v.core[2] = base.core[2]
ConstraintMet(all, op, base) ==
    LET list == getChartVersions(all, FALSE)
    IN /\ \A n \in DOMAIN all : all[n].up = None
       /\ \E n \in DOMAIN list : Meets(list[n], op, base)
       =>
          /\ Meets(resolveVersionConstraint(list, op, base), op, base)
          /\ ~isPrereleaseVersion(resolveVersionConstraint(list, op, base))
          /\ findRecommendedVersion(list) = list[1]

\* A feature enabled for a cluster is one the cluster's versions allow, whatever the user
\* prefers, and a cluster is refused with a reason.
FeatureAllowed(feature, cluster, able, preference) ==
    LET valid == validateClusterForFeature(feature, cluster)
    IN /\ featureEnabled(feature, cluster, able, preference) => valid.valid
       /\ ~valid.valid <=> valid.reasons # {}
       /\ featureEnabled(feature, cluster, able, preference) => featureEnabled(feature, None, None, preference)

\* Of the features of the release the versions refuse none: what a cluster may do and the
\* user's preferences decide, and a preference adds nothing to what it may do.
ReleaseFeatures(able, preferences) ==
    LET some == getAllEnabledFeatures(able, preferences)
    IN /\ \A flag \in DOMAIN RELEASE_FEATURES :
             /\ validateClusterForFeature(RELEASE_FEATURES[flag], getClusterVersion).valid
             /\ flag \in some => RELEASE_FEATURES[flag].needs.capabilities \subseteq able
       /\ {flag \in some : preferences[flag] = None} \subseteq getAllEnabledFeatures(able, [flag \in DOMAIN preferences |-> None])
=============================================================================
