----------------------------- MODULE PullSecrets -----------------------------
(***************************************************************************)
(* The registry credentials of installs that run at the same time in one   *)
(* namespace: each makes its repository's pull secret and attaches it to   *)
(* the service accounts, before and after helm creates the account of the  *)
(* release (installToCluster in AppWizard.vue, ensureRegistrySecretSimple  *)
(* and the functions below it in rancher-apps.ts).  Kubernetes refuses a   *)
(* write whose resourceVersion is not the current one, and every refusal   *)
(* is swallowed.                                                           *)
(***************************************************************************)
EXTENDS Naturals

CONSTANTS
    Installs,     \* installs into the namespace, each with its release
    Secrets,               \* one for each repository
    Accounts, AccountOf,   \* the service account of an install's release
    Default,      \* the account named default
    None,
    MaxTries,     \* times the accounts are listed, 5 in the code
    MaxFaults     \* bound on the requests that fail for another reason

PlacesAssumption ==
    /\ AccountOf \in [Installs -> Accounts] /\ Default \in Accounts
BoundsAssumption == MaxTries \in Nat \ {0} /\ MaxFaults \in Nat

VARIABLES
    secretOf,     \* the secret of the repository that an install takes its chart from
    secrets,      \* resourceVersion of each secret, None while absent
    accounts,     \* the service accounts: resourceVersion and imagePullSecrets
    pc, todo,     \* where an install is, and the accounts it has still to visit
    seen,         \* what it read last
    named,        \* the secret is in allPullSecrets
    tries, faults,
    met           \* history: installs refused a write that they do not repeat

cluster == <<secrets, accounts>>
vars == <<secretOf, cluster, pc, todo, seen, named, tries, faults, met>>

Labels == {"getSecret", "putSecret", "postSecret", "pre", "install", "list", "final", "done", "failed"}
Account == [rv : Nat, pulls : SUBSET Secrets]

TypeOK ==
    /\ secretOf \in [Installs -> Secrets]
    /\ \A s \in Secrets : secrets[s] = None \/ secrets[s] \in Nat
    /\ \A a \in Accounts : accounts[a] = None \/ accounts[a] \in Account
    /\ pc \in [Installs -> Labels] /\ todo \in [Installs -> SUBSET Accounts]
    /\ \A i \in Installs : seen[i] = None \/ seen[i] \in [name : Accounts \cup {None}, was : Account]
    /\ named \in [Installs -> BOOLEAN] /\ tries \in [Installs -> 0 .. MaxTries]
    /\ faults \in 0 .. MaxFaults /\ met \subseteq Installs

Goto(i, label) == pc' = [pc EXCEPT ![i] = label]
Fault == faults < MaxFaults /\ faults' = faults + 1

-----------------------------------------------------------------------------
(* ensureRegistrySecretSimple *)

\* With a name the accounts are visited, first of all "default" and the release's own.
SecretEnds(i, name) ==
    /\ named' = [named EXCEPT ![i] = name]
    /\ todo' = [todo EXCEPT ![i] = IF name THEN {Default, AccountOf[i]} ELSE {}]
    /\ met' = IF name THEN met ELSE met \cup {i}
    /\ Goto(i, IF name THEN "pre" ELSE "install")
    /\ seen' = [seen EXCEPT ![i] = None]

GetSecret(i) ==
    /\ pc[i] = "getSecret"
    /\ \/ /\ seen' = [seen EXCEPT ![i] = IF secrets[secretOf[i]] = None THEN None
                                ELSE [name |-> None, was |-> [rv |-> secrets[secretOf[i]], pulls |-> {}]]]
          /\ Goto(i, IF secrets[secretOf[i]] = None THEN "postSecret" ELSE "putSecret")
          /\ UNCHANGED <<todo, named, faults, met>>
       \/ Fault /\ SecretEnds(i, FALSE)
    /\ UNCHANGED <<cluster, tries>>

\* A conflict is taken for up to date.
PutSecret(i) ==
    /\ pc[i] = "putSecret"
    /\ \/ /\ secrets' = IF secrets[secretOf[i]] = seen[i].was.rv
                        THEN [secrets EXCEPT ![secretOf[i]] = @ + 1] ELSE secrets
          /\ SecretEnds(i, TRUE) /\ UNCHANGED faults
       \/ Fault /\ SecretEnds(i, FALSE) /\ UNCHANGED secrets
    /\ UNCHANGED <<accounts, tries>>

\* One that exists by now is an error, and the install goes on without the secret.
PostSecret(i) ==
    /\ pc[i] = "postSecret"
    /\ \/ /\ secrets[secretOf[i]] = None
          /\ secrets' = [secrets EXCEPT ![secretOf[i]] = 1]
          /\ SecretEnds(i, TRUE) /\ UNCHANGED faults
       \/ /\ secrets[secretOf[i]] # None \/ faults < MaxFaults
          /\ faults' = IF secrets[secretOf[i]] # None THEN faults ELSE faults + 1
          /\ SecretEnds(i, FALSE) /\ UNCHANGED secrets
    /\ UNCHANGED <<accounts, tries>>

-----------------------------------------------------------------------------
(* ensureServiceAccountPullSecret *)

Visited(i, a) == todo' = [todo EXCEPT ![i] = @ \ {a}] /\ seen' = [seen EXCEPT ![i] = None]

\* A refusal of the last visit is not made good by a later one.
Refused(i) == met' = IF pc[i] = "final" THEN met \cup {i} ELSE met

GetAccount(i) ==
    /\ pc[i] \in {"pre", "final"} /\ seen[i] = None
    /\ \E a \in todo[i] :
         \/ /\ accounts[a] # None
            /\ seen' = [seen EXCEPT ![i] = [name |-> a, was |-> accounts[a]]]
            /\ UNCHANGED <<todo, met, faults>>
         \/ accounts[a] = None /\ Visited(i, a) /\ UNCHANGED <<met, faults>>
         \/ Fault /\ Visited(i, a) /\ Refused(i)
    /\ UNCHANGED <<cluster, pc, named, tries>>

Written(account, secret) ==
    IF secret \in account.pulls THEN account
    ELSE [rv |-> account.rv + 1, pulls |-> account.pulls \cup {secret}]

\* Mutant: the write carries no resourceVersion, so none is refused.
MayWriteAlways(i) == TRUE

MayWrite(i) == accounts[seen[i].name].rv = seen[i].was.rv

PutAccount(i) ==
    /\ pc[i] \in {"pre", "final"} /\ seen[i] # None
    /\ LET a == seen[i].name
       IN /\ \/ MayWrite(i) /\ accounts' = [accounts EXCEPT ![a] = Written(seen[i].was, secretOf[i])]
                /\ UNCHANGED <<met, faults>>
             \/ ~MayWrite(i) /\ UNCHANGED <<accounts, faults>> /\ Refused(i)
             \/ Fault /\ UNCHANGED accounts /\ Refused(i)
          /\ Visited(i, a)
    /\ UNCHANGED <<secrets, pc, named, tries>>

PreAttached(i) ==
    /\ pc[i] = "pre" /\ todo[i] = {}
    /\ Goto(i, "install")
    /\ UNCHANGED <<cluster, todo, seen, named, tries, faults, met>>

-----------------------------------------------------------------------------

\* Mutant: what was attached before the install is taken to be enough.
InstallWithoutFinal(i) ==
    /\ pc[i] = "install"
    /\ \/ /\ accounts' = IF accounts[AccountOf[i]] # None THEN accounts
                         ELSE [accounts EXCEPT ![AccountOf[i]] = [rv |-> 1, pulls |-> {}]]
          /\ Goto(i, "done")
          /\ UNCHANGED faults
       \/ Fault /\ Goto(i, "failed") /\ UNCHANGED accounts
    /\ UNCHANGED <<secrets, todo, seen, named, tries, met>>

\* createOrUpgradeApp and waitForAppInstall: helm makes the account of the release.
Install(i) ==
    /\ pc[i] = "install"
    /\ \/ /\ accounts' = IF accounts[AccountOf[i]] # None THEN accounts
                         ELSE [accounts EXCEPT ![AccountOf[i]] = [rv |-> 1, pulls |-> {}]]
          /\ Goto(i, IF named[i] THEN "list" ELSE "done")
          /\ UNCHANGED faults
       \/ Fault /\ Goto(i, "failed") /\ UNCHANGED accounts
    /\ UNCHANGED <<secrets, todo, seen, named, tries, met>>

\* ensurePullSecretOnAllSAs; only a list that fails is tried again.
ListAccounts(i) ==
    /\ pc[i] = "list"
    /\ tries' = [tries EXCEPT ![i] = @ + 1]
    /\ \/ /\ todo' = [todo EXCEPT ![i] = {a \in Accounts : accounts[a] # None}]
          /\ Goto(i, "final") /\ UNCHANGED <<faults, met>>
       \/ /\ Fault /\ UNCHANGED todo
          /\ Goto(i, IF tries'[i] = MaxTries THEN "done" ELSE "list")
          /\ met' = IF tries'[i] = MaxTries THEN met \cup {i} ELSE met
    /\ UNCHANGED <<cluster, seen, named>>

Finished(i) ==
    /\ pc[i] = "final" /\ todo[i] = {}
    /\ Goto(i, "done")
    /\ UNCHANGED <<cluster, todo, seen, named, tries, faults, met>>

Init ==
    /\ secretOf \in [Installs -> Secrets]
    /\ secrets \in [Secrets -> {None, 1}]
    /\ accounts = [a \in Accounts |-> IF a = Default THEN [rv |-> 1, pulls |-> {}] ELSE None]
    /\ pc = [i \in Installs |-> "getSecret"] /\ todo = [i \in Installs |-> {}]
    /\ seen = [i \in Installs |-> None] /\ named = [i \in Installs |-> FALSE]
    /\ tries = [i \in Installs |-> 0] /\ faults = 0 /\ met = {}

InstallStep(i) ==
    \/ GetSecret(i) \/ PutSecret(i) \/ PostSecret(i) \/ GetAccount(i) \/ PutAccount(i)
    \/ PreAttached(i) \/ Install(i) \/ ListAccounts(i) \/ Finished(i)

Next == UNCHANGED secretOf /\ \E i \in Installs : InstallStep(i)

Spec == Init /\ [][Next]_vars

-----------------------------------------------------------------------------
(* Properties *)

\* No install takes away a pull secret that another attached, although all write
\* whole lists that they read earlier.
NothingDetached ==
    [][\A a \in Accounts : accounts[a] # None =>
          accounts'[a] # None /\ accounts[a].pulls \subseteq accounts'[a].pulls]_vars

\* An install that ends has its secret, attached to "default" and to the account
\* of its release, unless it was refused where it does not try again: making the
\* secret, the last visit of an account, the last list.  What is refused before
\* helm runs is made good after it.
Attached ==
    \A i \in Installs : pc[i] = "done" /\ i \notin met =>
        /\ secrets[secretOf[i]] # None
        /\ \A a \in {Default, AccountOf[i]} : secretOf[i] \in accounts[a].pulls
=============================================================================
