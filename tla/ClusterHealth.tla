---------------------------- MODULE ClusterHealth ----------------------------
(***************************************************************************)
(* What is made of the Kubernetes API's answers: pods in trouble, missing  *)
(* replicas, warning events.                                               *)
(*                                                                         *)
(*   ai_platform/tools/kubernetes_client.py, kubernetes_agent.py           *)
(***************************************************************************)
EXTENDS PythonLists

CONSTANTS
    Unset,          \* a field the API leaves out
    RestartLimit,   \* restart_threshold
    Mentions        \* name of an object -> services whose name is a substring of it

\* `service in name`, which holds of every name when no service is given
About(objects, service) ==
    Kept(objects, LAMBDA o : service = Unset \/ service \in Mentions[o.name])

-----------------------------------------------------------------------------
Restarts(counts) == FoldLeft(LAMBDA sum, n : sum + IF n = Unset THEN 0 ELSE n, 0, counts)

\* Without a Ready condition a pod is not ready.
PodList(answer) ==
    Mapped(answer, LAMBDA p : [name     |-> p.name,
                               status   |-> p.phase,
                               ready    |-> p.ready = "True",
                               restarts |-> Restarts(p.containers)])

Unhealthy(pod) == pod.status # "Running" \/ ~pod.ready

PodHealth(answer) ==
    LET pods == PodList(answer)
    IN  [unhealthy_pods    |-> Kept(pods, Unhealthy),
         high_restart_pods |-> Kept(pods, LAMBDA p : p.restarts >= RestartLimit)]

DeploymentList(answer) ==
    LET Or0(n) == IF n = Unset THEN 0 ELSE n
    IN  Mapped(answer, LAMBDA d : [name    |-> d.name,
                                   desired |-> Or0(d.desired),
                                   ready   |-> Or0(d.ready)])

Healthy(deployment) == deployment.desired > 0 /\ deployment.ready = deployment.desired

UnhealthyDeployments(answer) == Kept(DeploymentList(answer), LAMBDA d : ~Healthy(d))

-----------------------------------------------------------------------------
\* The time of an event: the last, else the first, else the beginning of time
Stamp(event) == IF event.last # Unset THEN event.last
                ELSE IF event.first # Unset THEN event.first ELSE -1

Newer(e, f) == Stamp(e) > Stamp(f)

Brief(event) == [name |-> event.name, type |-> event.type, timestamp |-> Stamp(event)]

\* Mutant: the API's order is taken for the newest first.
RecentEventsAsListed(namespace, limit) ==
    Mapped(Take(namespace, limit), Brief)

\* The API cuts its list to the limit in its own order; only then is it sorted.
RecentEvents(namespace, limit) ==
    LET answer == Take(namespace, limit)
    IN  Mapped(Take(SortedBy(answer, Newer), limit), Brief)

WarningEvents(namespace, limit) ==
    Take(Kept(RecentEvents(namespace, limit * 2), LAMBDA e : e.type = "Warning"), limit)

\* The copilot's tool asks for twice as many when it will filter them by service.
ServiceWarnings(namespace, service, limit) ==
    IF service = Unset THEN WarningEvents(namespace, limit)
    ELSE Take(About(WarningEvents(namespace, limit * 2), service), limit)

-----------------------------------------------------------------------------
\* What the tool shows of a service are its newest warnings, and as many as it can,
\* unless the namespace has more events than were fetched, or more warnings than are
\* kept before those of other services are dropped (get_recent_k8s_events,
\* get_warning_events, get_recent_events: each cuts the list to its own limit).
NewestWarnings(shown, namespace, service, limit) ==
    LET warnings == Kept(namespace, LAMBDA e : e.type = "Warning")
        newest   == Take(SortedBy(About(warnings, service), Newer), limit)
        kept     == IF service = Unset THEN limit ELSE limit * 2
    IN  /\ Len(namespace) <= kept * 2
        /\ service = Unset \/ Len(warnings) <= kept
        => Mapped(shown, LAMBDA e : e.timestamp) = Mapped(newest, Stamp)
=============================================================================
