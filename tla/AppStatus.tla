------------------------------ MODULE AppStatus ------------------------------
(***************************************************************************)
(* What the extension says of an app from the statuses of its              *)
(* installations.  It says it three times: the functions of                *)
(* utils/app-status.ts, the getters of AppResource over its                *)
(* InstallationMixin (models), and, for one installation, those of         *)
(* AppInstallation.                                                        *)
(***************************************************************************)
EXTENDS Naturals, Sequences, FiniteSets

Moving == {"installing", "upgrading", "uninstalling"}
Phases == Moving \cup {"pending", "deployed", "failed", "superseded", "unknown"}

Statuses(list) == {list[n] : n \in DOMAIN list}

-----------------------------------------------------------------------------
(* utils/app-status.ts *)

INSTALLATION_STATUS_DISPLAY(phase) ==
    CASE phase \in Moving -> [tone |-> "warning", priority |-> 4, actionable |-> FALSE]
      [] phase = "failed" -> [tone |-> "error", priority |-> 5, actionable |-> TRUE]
      [] phase = "deployed" -> [tone |-> "success", priority |-> 3, actionable |-> TRUE]
      [] phase = "superseded" -> [tone |-> "muted", priority |-> 2, actionable |-> FALSE]
      [] phase = "pending" -> [tone |-> "info", priority |-> 1, actionable |-> FALSE]
      [] OTHER -> [tone |-> "muted", priority |-> 0, actionable |-> FALSE]

APP_STATUS_DISPLAY(status) ==
    CASE status \in Moving -> [tone |-> "warning", actionable |-> FALSE]
      [] status = "failed" -> [tone |-> "error", actionable |-> TRUE]
      [] status = "deployed" -> [tone |-> "success", actionable |-> TRUE]
      [] status = "available" -> [tone |-> "info", actionable |-> TRUE]
      [] OTHER -> [tone |-> "muted", actionable |-> FALSE]

HEALTH_STATUS_DISPLAY(health) ==
    CASE health = "healthy" -> [tone |-> "success", actionable |-> FALSE]
      [] health = "degraded" -> [tone |-> "warning", actionable |-> TRUE]
      [] health = "unhealthy" -> [tone |-> "error", actionable |-> TRUE]
      [] OTHER -> [tone |-> "muted", actionable |-> FALSE]

\* The first of those with the highest priority: the sort is stable.
calculateAppStatus(list) ==
    IF list = <<>> THEN "available"
    ELSE LET weight(n) == INSTALLATION_STATUS_DISPLAY(list[n]).priority
             first == CHOOSE n \in DOMAIN list :
                        /\ \A m \in DOMAIN list : weight(m) <= weight(n)
                        /\ \A m \in 1 .. n - 1 : weight(m) < weight(n)
         IN IF list[first] \in Moving \cup {"deployed", "failed"} THEN list[first] ELSE "available"

calculateHealthStatus(ready, total, errors, critical) ==
    IF total = 0 THEN "unknown"
    ELSE IF critical THEN "unhealthy"
    ELSE IF ready = total /\ ~errors THEN "healthy"
    ELSE IF 2 * ready >= total THEN "degraded" ELSE "unhealthy"

\* stuck: the last update is more than two hours old
needsAttention(status, health, errors, stuck) ==
    \/ status = "failed" \/ health \in {"unhealthy", "degraded"} \/ errors
    \/ status \in Moving /\ stuck

getNotificationTypeForStatus(display) ==
    IF display.tone \in {"error", "warning", "success"} THEN display.tone ELSE "info"

isTransitionalStatus(status) == status \in Moving \cup {"pending"}

getAvailableActionsForStatus(status, phase) ==
    CASE status = "available" -> {"install"}
      [] status = "deployed" -> {"manage", "upgrade", "uninstall", "restart"} \cup
                                (IF phase = "deployed" THEN {"rollback", "logs", "resources"} ELSE {})
      [] status = "failed" -> {"retry", "uninstall", "logs", "troubleshoot"}
      [] status \in Moving -> {"cancel", "logs"}
      [] OTHER -> {"refresh"}

getStatusSummary(list) ==
    LET count(those) == Cardinality({n \in DOMAIN list : list[n] \in those})
    IN [total |-> Len(list), healthy |-> count({"deployed"}), warning |-> count(Moving),
        error |-> count({"failed"}), unknown |-> count({"unknown", "available"})]

-----------------------------------------------------------------------------
(* AppResource over InstallationMixin *)

isInstalled(list) == list # <<>>
Some(list, phase) == phase \in Statuses(list)
IsMoving(list) == Statuses(list) \cap Moving # {}

stateDisplay(list) ==
    IF Some(list, "installing") THEN "Installing"
    ELSE IF Some(list, "upgrading") THEN "Upgrading"
    ELSE IF Some(list, "uninstalling") THEN "Uninstalling"
    ELSE IF Some(list, "failed") THEN "Error"
    ELSE IF Some(list, "deployed") THEN "Running"
    ELSE IF isInstalled(list) THEN "Installed" ELSE "Available"

healthStatus(list) ==
    IF ~isInstalled(list) THEN "unknown"
    ELSE IF Some(list, "failed") THEN "unhealthy"
    ELSE IF Some(list, "deployed") THEN "healthy" ELSE "degraded"

stateColor(list) ==
    IF Some(list, "failed") THEN "error"
    ELSE IF IsMoving(list) THEN "info"
    ELSE IF isInstalled(list) THEN "success" ELSE "inactive"

\* Those that change a release; the links and the refresh are always there.
availableActions(list) ==
    {a \in {"install", "manage", "upgrade", "uninstall", "restart", "rollback"} :
        CASE a = "install" -> ~isInstalled(list) /\ ~Some(list, "installing")
          [] a \in {"manage", "uninstall"} -> isInstalled(list) /\ ~Some(list, "uninstalling")
          [] a \in {"upgrade", "restart"} -> isInstalled(list) /\ ~IsMoving(list)
          [] a = "rollback" -> isInstalled(list)}

-----------------------------------------------------------------------------
(* AppInstallation: its phase, whether it has an error, and which of its resources are ready *)

isHealthy(one) == one.phase = "deployed" /\ \A n \in DOMAIN one.ready : one.ready[n]
hasError(one) == one.error \/ one.phase = "failed"
isTransitioning(one) == one.phase \in Moving \cup {"pending"}

installationColor(one) ==
    IF hasError(one) THEN "error"
    ELSE IF isTransitioning(one) THEN "info"
    ELSE IF one.phase # "deployed" THEN "inactive"
    ELSE IF isHealthy(one) THEN "success" ELSE "warning"

\* The events it adds.  The new resources are in place before it asks whether all was well.
updateHealth(one, ready) ==
    LET after == [one EXCEPT !.ready = ready]
        well == \A n \in DOMAIN ready : ready[n]
    IN IF isHealthy(after) # well THEN {IF well THEN "info" ELSE "warning"} ELSE {}

-----------------------------------------------------------------------------
(* Properties *)

Toned == [Installing |-> "installing", Upgrading |-> "upgrading", Uninstalling |-> "uninstalling",
          Error |-> "failed", Running |-> "deployed", Installed |-> "available", Available |-> "available"]

\* The two summaries of a list agree, except that one puts a failure before what is
\* moving and the other after it, and that one shows the first of several that move
\* in the list and the other the first by kind.
SummariesAgree(list) ==
    LET one == calculateAppStatus(list)
        two == Toned[stateDisplay(list)]
    IN one = two \/ (IsMoving(list) /\ two \in Moving /\
                        (one = "failed" \/ (one \in Moving /\ {one, two} \subseteq Statuses(list))))

\* The order of the list matters only while different kinds of movement overlap.
OrderMatters(list) ==
    LET back == [n \in DOMAIN list |-> list[Len(list) + 1 - n]]
    IN calculateAppStatus(list) # calculateAppStatus(back) =>
          Cardinality(Statuses(list) \cap Moving) > 1 /\ ~Some(list, "failed")

\* The first summary offers to install what has installations, all of them pending,
\* superseded or unknown; the second never does.  While an installation moves the
\* first offers to retry or uninstall only when another one failed; the second offers
\* to upgrade or restart only when none moves, and to manage or uninstall
\* unless one is being uninstalled.
OffersFit(list) ==
    LET one == getAvailableActionsForStatus(calculateAppStatus(list), "unknown")
        two == availableActions(list)
    IN /\ "install" \in one \ two <=> isInstalled(list) /\ Statuses(list) \subseteq {"pending", "superseded", "unknown"}
       /\ IsMoving(list) => /\ one \cap {"install", "manage", "upgrade", "restart"} = {}
                            /\ one \cap {"retry", "uninstall"} # {} => Some(list, "failed")
                            /\ two \cap {"install", "upgrade", "restart"} = {}
                            /\ Some(list, "uninstalling") => two \subseteq {"rollback"}

\* One more ready resource never makes the health worse and an error never better;
\* what needs attention by its health is what the display calls actionable.
Rank == [unknown |-> 0, unhealthy |-> 1, degraded |-> 2, healthy |-> 3]
HealthFits(ready, total, errors, critical) ==
    LET health == calculateHealthStatus(ready, total, errors, critical)
    IN /\ ready < total => Rank[health] <= Rank[calculateHealthStatus(ready + 1, total, errors, critical)]
       /\ Rank[calculateHealthStatus(ready, total, TRUE, critical)] <= Rank[health]
       /\ needsAttention("deployed", health, FALSE, FALSE) <=> HEALTH_STATUS_DISPLAY(health).actionable
       /\ health = "healthy" => ready = total /\ total > 0 /\ ~errors /\ ~critical

\* No installation's change of health is ever told but one: all resources ready in
\* an installation that is not deployed.
HealthTold(one, ready) ==
    updateHealth(one, ready) =
        IF one.phase # "deployed" /\ \A n \in DOMAIN ready : ready[n] THEN {"info"} ELSE {}

\* Of a single installation the three speak alike: the colour of AppInstallation is that
\* of AppResource unless it is pending, superseded, unknown or not ready, and its
\* notification says error, success or else in the same cases.
OneSpeaksAlike(one) ==
    LET list == <<one.phase>>
        note == getNotificationTypeForStatus(APP_STATUS_DISPLAY(calculateAppStatus(list)))
    IN /\ installationColor(one) = stateColor(list) \/ one.error
          \/ one.phase \in {"pending", "superseded", "unknown"} \/ (one.phase = "deployed" /\ ~isHealthy(one))
       /\ note = "error" <=> stateColor(list) = "error"
       /\ note = "warning" <=> IsMoving(list)
       /\ isTransitionalStatus(one.phase) <=> isTransitioning(one)
       /\ INSTALLATION_STATUS_DISPLAY(one.phase).actionable <=> one.phase \in {"deployed", "failed"}

\* Every app is in exactly one class of the summary.
ClassesAddUp(list) ==
    LET sum == getStatusSummary(list)
    IN sum.total = sum.healthy + sum.warning + sum.error + sum.unknown
=============================================================================
