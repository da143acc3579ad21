-------------------------- MODULE InvestigationGraph -------------------------
(***************************************************************************)
(* One investigation: the alert is received, three agents gather evidence  *)
(* in parallel, their findings are joined, a language model is asked for a *)
(* root cause and, for a runbook, asked once more.                         *)
(*                                                                         *)
(*   ai_platform/coordinator/graph.py, state.py, rca.py, runbook.py        *)
(*                                                                         *)
(* Nodes of a langgraph superstep run in threads of their own; each agent  *)
(* writes its own key of the state, and a node with several incoming edges *)
(* runs when all of them have.                                             *)
(***************************************************************************)
EXTENDS Naturals

CONSTANTS
    Alerts,
    Services,
    Unknown,            \* no service
    Named(_),           \* extract_service_name(): alert -> service or Unknown
    Evidence(_, _),     \* what an agent can find of a service, Failed and Stuck included
    Compact(_, _),      \* what the join keeps of an agent's findings
    Waiting,            \* the agent has not returned
    Nothing,            \* {}: there was no service to ask about
    Failed,             \* {"error": ...}: the agent raised
    Stuck,              \* the agent does not return
    Attempts            \* function-calling attempts before JSON mode

VARIABLES
    stage,      \* where the run is
    wanted,     \* "report": investigate(), "runbook": generate_runbook()
    alert,
    service,    \* service_name
    findings,   \* metrics_findings, trace_findings, kubernetes_findings
    bundle,     \* correlated_findings
    attempts,   \* attempts of this structured call that raised
    asked,      \* calls of the model in this run
    results     \* what was rendered

graphVars == <<stage, wanted, alert, service, findings, bundle, attempts, asked, results>>

ASSUME ServicesAreNamed ==
    /\ Unknown \notin Services
    /\ \A a \in Alerts : Named(a) \in Services \cup {Unknown}

ASSUME SpecialFindingsDiffer ==
    /\ Waiting \notin {Nothing, Failed, Stuck}
    /\ Failed \notin {Nothing, Stuck}
    /\ \A s \in Services \cup {Unknown} : \A a \in {"metrics", "traces", "kubernetes"} :
          Waiting \notin Evidence(a, s)

ASSUME SomeAttempts == Attempts \in Nat \ {0}

-----------------------------------------------------------------------------
Agents == {"metrics", "traces", "kubernetes"}

Ended == {"done", "gave_up", "no_finding"}

Findable == UNION {Evidence(a, s) : a \in Agents, s \in Services \cup {Unknown}}

NoBundle == [gaps |-> {}, of |-> [a \in Agents |-> Nothing]]

Init ==
    /\ stage = "idle"
    /\ wanted = "report"
    /\ alert = Unknown
    /\ service = Unknown
    /\ findings = [a \in Agents |-> Nothing]
    /\ bundle = NoBundle
    /\ attempts = 0
    /\ asked = 0
    /\ results = {}

Hung == stage = "agents" /\ \E a \in Agents : findings[a] = Stuck

\* investigate() or generate_runbook(), through the receive_alert node
Begin(a, what) ==
    /\ stage = "idle"
    /\ stage' = "agents"
    /\ wanted' = what
    /\ alert' = a
    /\ service' = Named(a)
    /\ findings' = [x \in Agents |-> Waiting]
    /\ bundle' = NoBundle
    /\ attempts' = 0
    /\ asked' = 0
    /\ results' = {}


\* Only Kubernetes is asked when the service is unknown.
AgentReturns(a) ==
    /\ stage = "agents"
    /\ findings[a] = Waiting
    /\ IF service = Unknown /\ a # "kubernetes"
       THEN findings' = [findings EXCEPT ![a] = Nothing]
       ELSE \E f \in Evidence(a, service) : findings' = [findings EXCEPT ![a] = f]
    /\ UNCHANGED <<stage, wanted, alert, service, bundle, attempts, asked, results>>

\* Mutant: an unknown service is not reported as a gap.
GapsOfAgents == {a \in Agents : findings[a] = Failed}

\* The error of receive_alert, and those of the agents
Gaps ==
    {a \in Agents : findings[a] = Failed}
        \cup (IF service = Unknown THEN {"service"} ELSE {})

\* What the bundle holds of one agent. Each key of traces' and kubernetes' findings is
\* picked out, so nothing is left of their error; the findings of the metrics agent
\* are passed on whole, an error object included.
ShownOf(a) ==
    IF findings[a] = Nothing \/ (findings[a] = Failed /\ a # "metrics") THEN Nothing
    ELSE IF findings[a] = Failed THEN Failed
    ELSE Compact(a, findings[a])

\* _correlate_findings, once all three edges into it have fired
CorrelateFindings ==
    /\ stage = "agents"
    /\ \A a \in Agents : findings[a] \notin {Waiting, Stuck}
    /\ stage' = "rca"
    /\ bundle' = [gaps |-> Gaps, of |-> [a \in Agents |-> ShownOf(a)]]
    /\ UNCHANGED <<wanted, alert, service, findings, attempts, asked, results>>

\* _invoke_structured returns a finding, which is rendered.
ModelAnswers ==
    /\ stage \in {"rca", "runbook"}
    /\ asked' = asked + 1
    /\ attempts' = 0
    /\ results' = results \cup {IF stage = "rca" THEN "report" ELSE "runbook"}
    /\ stage' = IF stage = "rca" /\ wanted = "runbook" THEN "runbook" ELSE "done"
    /\ UNCHANGED <<wanted, alert, service, findings, bundle>>

\* A reply without a tool call parses to None, which is not asked for again and
\* cannot be rendered.
ModelAnswersNothing ==
    /\ stage \in {"rca", "runbook"}
    /\ asked' = asked + 1
    /\ stage' = "no_finding"
    /\ UNCHANGED <<wanted, alert, service, findings, bundle, attempts, results>>

\* Mutant: the last attempt is not followed by one in JSON mode.
ModelRaisesOnceLess ==
    /\ stage \in {"rca", "runbook"}
    /\ asked' = asked + 1
    /\ attempts' = attempts + 1
    /\ stage' = IF attempts + 1 = Attempts THEN "gave_up" ELSE stage
    /\ UNCHANGED <<wanted, alert, service, findings, bundle, results>>

\* Mutant: an attempt more after JSON mode has raised as well.
ModelRaisesOnceMore ==
    /\ stage \in {"rca", "runbook"}
    /\ asked' = asked + 1
    /\ attempts' = attempts + 1
    /\ stage' = IF attempts = Attempts + 1 THEN "gave_up" ELSE stage
    /\ UNCHANGED <<wanted, alert, service, findings, bundle, results>>

\* Another attempt, JSON mode after the last of them, and the first error after that
ModelRaises ==
    /\ stage \in {"rca", "runbook"}
    /\ asked' = asked + 1
    /\ attempts' = attempts + 1
    /\ stage' = IF attempts = Attempts THEN "gave_up" ELSE stage
    /\ UNCHANGED <<wanted, alert, service, findings, bundle, results>>

\* The run's state is dropped with its result; a run that hangs is left behind.
Drop ==
    /\ stage \in Ended \/ Hung
    /\ stage' = "idle"
    /\ wanted' = "report"
    /\ alert' = Unknown
    /\ service' = Unknown
    /\ findings' = [a \in Agents |-> Nothing]
    /\ bundle' = NoBundle
    /\ attempts' = 0
    /\ asked' = 0
    /\ results' = {}

GraphStep ==
    \/ \E a \in Agents : AgentReturns(a)
    \/ CorrelateFindings
    \/ ModelAnswers
    \/ ModelAnswersNothing
    \/ ModelRaises

Next ==
    \/ \E a \in Alerts, what \in {"report", "runbook"} : Begin(a, what)
    \/ Drop
    \/ GraphStep

Spec == Init /\ [][Next]_graphVars

-----------------------------------------------------------------------------
\* Type correctness: every agent's key holds something that agent can find for the
\* service at hand or one of the markers (InvestigationState).
TypeOK ==
    /\ stage \in Ended \cup {"idle", "agents", "rca", "runbook"}
    /\ wanted \in {"report", "runbook"}
    /\ alert \in Alerts \cup {Unknown}
    /\ service \in Services \cup {Unknown}
    /\ findings \in [Agents -> Findable \cup {Waiting, Nothing}]
    /\ bundle.gaps \subseteq Agents \cup {"service"}
    /\ attempts \in 0..(Attempts + 1)
    /\ asked \in Nat
    /\ results \subseteq {"report", "runbook"}

\* What the model is asked about is complete: all three agents had returned for the
\* service of this alert, an agent that failed and a service that was not found are
\* listed as gaps and nothing else is, and a failed agent is shown with no evidence,
\* the metrics agent with its error alone (_correlate_findings behind its three
\* edges, and nothing left of an earlier run).
GapsAreAccounted ==
    stage \notin {"idle", "agents"} =>
        /\ service = Named(alert)
        /\ \A a \in Agents :
              /\ findings[a] \in Evidence(a, service) \cup {Nothing}
              /\ a \in bundle.gaps <=> findings[a] = Failed
              /\ a \in bundle.gaps =>
                    bundle.of[a] = IF a = "metrics" THEN Failed ELSE Nothing
        /\ "service" \in bundle.gaps <=> service = Unknown

\* The model is asked at most once more than Attempts for each document; the run
\* gives up only after all of them raised, and with nothing after the report but
\* the runbook (_invoke_structured, generate_runbook).
AskedOftenEnough ==
    /\ asked <= (Attempts + 1) * (1 + IF wanted = "runbook" THEN 1 ELSE 0)
    /\ stage = "gave_up" => attempts = Attempts + 1 /\ asked >= Attempts + 1
    /\ stage = "done" => "report" \in results /\ wanted \in results
    /\ "runbook" \in results => wanted = "runbook" /\ "report" \in results

=============================================================================
