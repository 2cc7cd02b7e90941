----------------------------- MODULE ExtensionApi -----------------------------
(***************************************************************************)
(* What stands between users, a chart's index and the operator's           *)
(* reconciler: the conversion between the two versions of the API          *)
(* (api/v1alpha1), the admission webhook (api/v1beta1), and the index with *)
(* its cache, from which the latest version and the metadata of a UIPlugin *)
(* are taken (internal/infra/helm, internal/infra/rancher).                *)
(***************************************************************************)
EXTENDS Integers, Sequences, FiniteSets, SequencesExt

CONSTANT None

-----------------------------------------------------------------------------
(* Conversion.  What names, versions, metadata and status a resource has is *)
(* copied both ways; the source alone is laid out differently.             *)

\* v1alpha1: [helm, source], source None or [helm, git].  The switch takes git first.
ConvertTo(spec) ==
    CASE spec.source = None -> [helm |-> spec.helm, git |-> None]
      [] spec.source # None /\ spec.source.git # None -> [helm |-> None, git |-> spec.source.git]
      [] OTHER -> [helm |-> spec.source.helm, git |-> None]

\* v1beta1: [helm, git].  Both of v1alpha1's places are filled.
ConvertFrom(source) ==
    [helm |-> source.helm, source |-> IF source.helm = None /\ source.git = None THEN None ELSE source]

-----------------------------------------------------------------------------
(* The webhook.  Resources are a function from their names to the name of   *)
(* the extension, None for a resource that is not there.                   *)

validateExtensionNameUniqueness(name, extension, list) ==
    \A other \in DOMAIN list \ {name} : list[other] # extension

\* A request to give a resource an extension, or to delete it (None).
Admitted(stored, list, request) ==
    \/ request.extension = None
    \/ stored[request.name] = request.extension   \* ValidateUpdate, the name being the same
    \/ validateExtensionNameUniqueness(request.name, request.extension, list)

Stored(stored, list, request) ==
    IF Admitted(stored, list, request)
    THEN [stored EXCEPT ![request.name] = request.extension] ELSE stored

\* The resources after all requests.  A request's lag is how many requests its webhook's
\* list is old: it comes from a cache.
After(requests, names) ==
    LET late(n) == requests[n].lag
        after[n \in 0 .. Len(requests)] ==
            IF n = 0 THEN [name \in names |-> None]
            ELSE Stored(after[n - 1], after[IF n - 1 < late(n) THEN 0 ELSE n - 1 - late(n)], requests[n])
    IN after[Len(requests)]

-----------------------------------------------------------------------------
(* The index: an entry per version of the chart, [core, pre, valid,         *)
(* annotations]; valid when semver.NewVersion can read it.                 *)

\* Precedence of versions.
GreaterThan(a, b) ==
    \/ \E n \in 1 .. 3 : a.core[n] > b.core[n] /\ \A m \in 1 .. n - 1 : a.core[m] = b.core[m]
    \/ a.core = b.core /\ ~a.pre /\ b.pre

\* None when no version can be read.
FindLatestVersion(entries) ==
    FoldLeft(LAMBDA latest, v : IF v.valid /\ (latest = None \/ GreaterThan(v, latest)) THEN v ELSE latest,
             None, entries)

\* The first entry of the version, None when there is none.
FindAnnotations(entries, version) ==
    LET same == SelectInSeq(entries, LAMBDA v : v.core = version.core /\ v.pre = version.pre /\ v.valid = version.valid)
    IN IF same = 0 THEN None ELSE entries[same].annotations

\* urls are tried in order: first in the cache, then at the source, whose answer None is
\* a failure.  The index, and the cache afterwards.
getOrFetchIndex(cache, urls, source) ==
    LET cached   == SelectInSeq(urls, LAMBDA u : cache[u] # None)
        answered == SelectInSeq(urls, LAMBDA u : source[u] # None)
    IN CASE cached # 0 -> [index |-> cache[urls[cached]], cache |-> cache]
         [] cached = 0 /\ answered # 0 ->
              [index |-> source[urls[answered]],
               cache |-> [cache EXCEPT ![urls[answered]] = source[urls[answered]]]]
         [] OTHER -> [index |-> None, cache |-> cache]

indexURLsForSource(kind) == IF kind = "helm" THEN <<"index">> ELSE <<"index", "assets">>

SupportedKeys == {"display-name", "rancher-version", "ui-extensions-version"}

\* annotations and user map keys to values.
mergeMetadata(annotations, user) ==
    LET some == (DOMAIN annotations \cap SupportedKeys) \cup DOMAIN user
    IN [key \in some \cup {"display-name"} |->
           IF key \in DOMAIN user THEN user[key]
           ELSE IF key \in some THEN annotations[key] ELSE "extension's name"]

-----------------------------------------------------------------------------
(* Properties *)

\* Nothing of a resource is lost on its way through the other version: a stored one comes
\* back as it was, and what a client of v1alpha1 wrote is stored the same when it reads
\* it and writes it back.
ConversionKeeps(spec) ==
    LET stored == ConvertTo(spec) IN ConvertTo(ConvertFrom(stored)) = stored

\* Two resources have one extension, whatever was created, renamed and deleted, only
\* because of two requests for it of which the later one's list was too old to have
\* the earlier: never when lists are up to date.
NamesUnique(requests, names) ==
    LET after == After(requests, names)
    IN \A one, two \in names :
          one # two /\ after[one] # None /\ after[one] = after[two] =>
              \E m, n \in DOMAIN requests :
                  /\ m < n /\ n - m <= requests[n].lag
                  /\ requests[m].extension = after[one] /\ requests[n].extension = after[one]

\* The latest version is of the index, can be read, and no other that can be read is
\* above it.
LatestIsGreatest(entries) ==
    LET latest == FindLatestVersion(entries)
        valid  == {v \in ToSet(entries) : v.valid}
    IN IF valid = {} THEN latest = None
       ELSE latest \in valid /\ \A v \in valid : ~GreaterThan(v, latest)

\* The metadata of the version that was resolved are found when the plugin is made,
\* although the index is looked up again, wherever it came from and whatever the source
\* answers the second time: unless the cached index expired in between and the new one
\* has another content.
ResolvedFound(kind, cache, before, later, expires) ==
    LET urls   == indexURLsForSource(kind)
        first  == getOrFetchIndex(cache, urls, before)
        latest == IF first.index = None THEN None ELSE FindLatestVersion(first.index)
        second == getOrFetchIndex(IF expires THEN [u \in DOMAIN cache |-> None] ELSE first.cache, urls, later)
    IN latest # None =>
          \/ second.index # None /\ FindAnnotations(second.index, latest) # None
          \/ expires /\ second.index # first.index

\* A plugin always has a name to show, users' metadata win over the index's, and of the
\* index's only the supported keys are taken.
MetadataFits(annotations, user) ==
    LET merged == mergeMetadata(annotations, user)
    IN /\ "display-name" \in DOMAIN merged
       /\ \A key \in DOMAIN user : merged[key] = user[key]
       /\ \A key \in DOMAIN merged \ DOMAIN user :
             key \in SupportedKeys /\ (key \in DOMAIN annotations => merged[key] = annotations[key])
=============================================================================
