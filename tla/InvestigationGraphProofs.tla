----------------------- MODULE InvestigationGraphProofs -----------------------
(***************************************************************************)
(* An investigation's evidence is joined without a gap unaccounted for,    *)
(* and its model is asked as often as promised, whatever the agents find.  *)
(***************************************************************************)
EXTENDS InvestigationGraph, TLAPS

\* What is gathered is about the service of the alert at hand.
Gathered ==
    stage # "idle" =>
        /\ service = Named(alert)
        /\ \A a \in Agents : findings[a] \in Evidence(a, service) \cup {Waiting, Nothing}

\* How often the model was asked, at each stage
Counted ==
    /\ stage \in {"idle", "agents"} => asked = 0 /\ attempts = 0 /\ results = {}
    /\ stage = "rca" => asked = attempts /\ attempts <= Attempts /\ results = {}
    /\ stage = "runbook" => /\ wanted = "runbook"
                            /\ results = {"report"}
                            /\ attempts <= Attempts
                            /\ attempts <= asked /\ asked <= Attempts + 1 + attempts

\* The invariant that is inductive
IInv == TypeOK /\ Gathered /\ GapsAreAccounted /\ Counted /\ AskedOftenEnough

\* The bound of AskedOftenEnough, without the product
LEMMA AskedBound ==
    ASSUME Attempts \in Nat
    PROVE  /\ (Attempts + 1) * (1 + IF wanted = "runbook" THEN 1 ELSE 0) >= Attempts + 1
           /\ wanted = "runbook" =>
                 (Attempts + 1) * (1 + IF wanted = "runbook" THEN 1 ELSE 0) = Attempts + 1 + Attempts + 1
  <1>1. CASE wanted = "runbook"
    <2>1. (Attempts + 1) * (1 + IF wanted = "runbook" THEN 1 ELSE 0) = (Attempts + 1) * 2
      BY <1>1
    <2> QED BY <2>1
  <1>2. CASE wanted # "runbook"
    <2>1. (Attempts + 1) * (1 + IF wanted = "runbook" THEN 1 ELSE 0) = (Attempts + 1) * 1
      BY <1>2
    <2> QED BY <2>1, <1>2
  <1> QED BY <1>1, <1>2

LEMMA InitIInv == Init => IInv
  BY SomeAttempts DEF Init, IInv, TypeOK, Gathered, GapsAreAccounted, Counted, AskedOftenEnough,
                      NoBundle, Agents, Ended

LEMMA BeginIInv ==
    ASSUME IInv, NEW a \in Alerts, NEW what \in {"report", "runbook"}, Begin(a, what)
    PROVE  IInv'
  <1> USE DEF Begin
  <1>1. TypeOK'
    BY ServicesAreNamed, SomeAttempts DEF IInv, TypeOK, NoBundle, Agents, Ended
  <1>2. Gathered' BY DEF Gathered, Agents
  <1>3. GapsAreAccounted' BY DEF GapsAreAccounted
  <1>4. Counted' BY DEF Counted
  <1>5. AskedOftenEnough'
    BY SomeAttempts, AskedBound DEF AskedOftenEnough
  <1> QED BY <1>1, <1>2, <1>3, <1>4, <1>5 DEF IInv

LEMMA AgentReturnsIInv ==
    ASSUME IInv, NEW x \in Agents, AgentReturns(x)
    PROVE  IInv'
  <1> USE DEF AgentReturns
  <1>1. /\ stage = "agents"
        /\ UNCHANGED <<stage, wanted, alert, service, bundle, attempts, asked, results>>
    OBVIOUS
  <1>2. PICK f \in Evidence(x, service) \cup {Nothing} :
            findings' = [findings EXCEPT ![x] = f]
    OBVIOUS
  <1>3. service \in Services \cup {Unknown}
    BY DEF IInv, TypeOK
  <1>4. f \in Findable \cup {Nothing}
    BY <1>2, <1>3 DEF Findable
  <1>5. findings' \in [Agents -> Findable \cup {Waiting, Nothing}]
    BY <1>2, <1>4 DEF IInv, TypeOK
  <1>6. TypeOK'
    BY <1>1, <1>5 DEF IInv, TypeOK
  <1>7. Gathered'
    <2>1. service' = Named(alert')
      BY <1>1 DEF IInv, Gathered
    <2>2. ASSUME NEW a \in Agents
          PROVE  findings'[a] \in Evidence(a, service) \cup {Waiting, Nothing}
      <3>1. CASE a = x
        BY <1>2, <3>1 DEF IInv, TypeOK
      <3>2. CASE a # x
        BY <1>1, <1>2, <3>2 DEF IInv, TypeOK, Gathered
      <3> QED BY <3>1, <3>2
    <2> QED BY <1>1, <2>1, <2>2 DEF Gathered
  <1>8. GapsAreAccounted'
    BY <1>1 DEF GapsAreAccounted
  <1>9. Counted' /\ AskedOftenEnough'
    BY <1>1 DEF IInv, Counted, AskedOftenEnough
  <1> QED BY <1>6, <1>7, <1>8, <1>9 DEF IInv

LEMMA CorrelateFindingsIInv ==
    ASSUME IInv, CorrelateFindings
    PROVE  IInv'
  <1> USE DEF CorrelateFindings
  <1>1. /\ stage = "agents" /\ stage' = "rca"
        /\ UNCHANGED <<wanted, alert, service, findings, attempts, asked, results>>
    OBVIOUS
  <1>2. bundle'.gaps = Gaps
    OBVIOUS
  <1>3. \A a \in Agents : findings[a] = Failed =>
           bundle'.of[a] = IF a = "metrics" THEN Failed ELSE Nothing
    BY SpecialFindingsDiffer DEF ShownOf
  <1>4. TypeOK'
    <2>1. Gaps \subseteq Agents \cup {"service"}
      BY DEF Gaps
    <2> QED BY <1>1, <1>2, <2>1 DEF IInv, TypeOK
  <1>5. Gathered'
    BY <1>1 DEF IInv, Gathered
  <1>6. GapsAreAccounted'
    <2>1. service' = Named(alert')
      BY <1>1 DEF IInv, Gathered
    <2>2. ASSUME NEW a \in Agents
          PROVE  /\ findings'[a] \in Evidence(a, service') \cup {Nothing}
                 /\ a \in bundle'.gaps <=> findings'[a] = Failed
                 /\ a \in bundle'.gaps =>
                       bundle'.of[a] = IF a = "metrics" THEN Failed ELSE Nothing
      <3>1. findings[a] \in Evidence(a, service) \cup {Waiting, Nothing} /\ findings[a] # Waiting
        BY <1>1 DEF IInv, Gathered
      <3>2. a \in Gaps <=> findings[a] = Failed
        BY DEF Gaps, Agents
      <3> QED BY <1>1, <1>2, <1>3, <3>1, <3>2
    <2>3. "service" \in bundle'.gaps <=> service' = Unknown
      BY <1>1, <1>2 DEF Gaps, Agents
    <2> QED BY <2>1, <2>2, <2>3 DEF GapsAreAccounted
  <1>7. Counted'
    BY <1>1, SomeAttempts DEF IInv, Counted
  <1>8. AskedOftenEnough'
    BY <1>1 DEF IInv, Counted, AskedOftenEnough
  <1> QED BY <1>4, <1>5, <1>6, <1>7, <1>8 DEF IInv

\* What the answers of a model leave alone stays as it was.
LEMMA AskedUnchanged ==
    ASSUME IInv, stage \notin {"idle", "agents"}, stage' \notin {"idle", "agents"},
           UNCHANGED <<wanted, alert, service, findings, bundle>>
    PROVE  Gathered' /\ GapsAreAccounted'
  BY DEF IInv, Gathered, GapsAreAccounted

LEMMA ModelAnswersIInv ==
    ASSUME IInv, ModelAnswers
    PROVE  IInv'
  <1> USE DEF ModelAnswers
  <1>1. Gathered' /\ GapsAreAccounted'
    BY AskedUnchanged
  <1>2. TypeOK'
    BY SomeAttempts DEF IInv, TypeOK, Ended
  <1>3. asked \in Nat /\ attempts \in Nat
    BY SomeAttempts DEF IInv, TypeOK
  <1>4. CASE stage = "rca"
    <2>1. asked = attempts /\ attempts <= Attempts /\ results = {} /\ results' = {"report"}
      BY <1>4 DEF IInv, Counted
    <2>2. Counted'
      BY <1>3, <1>4, <2>1, SomeAttempts DEF Counted, IInv, TypeOK
    <2>3. asked' <= Attempts + 1
      BY <1>3, <2>1, SomeAttempts
    <2>4. AskedOftenEnough'
      <3>1. asked' <= (Attempts + 1) * (1 + IF wanted = "runbook" THEN 1 ELSE 0)
        BY <1>3, <2>3, AskedBound, SomeAttempts
      <3> QED BY <1>4, <2>1, <3>1 DEF AskedOftenEnough, IInv, TypeOK
    <2> QED BY <1>1, <1>2, <2>2, <2>4 DEF IInv
  <1>5. CASE stage = "runbook"
    <2>1. /\ wanted = "runbook" /\ results = {"report"}
          /\ attempts <= Attempts /\ asked <= Attempts + 1 + attempts
      BY <1>5 DEF IInv, Counted
    <2>2. Counted'
      BY <1>5 DEF Counted
    <2>3. asked' <= Attempts + 1 + Attempts + 1
      BY <1>3, <2>1, SomeAttempts
    <2>4. AskedOftenEnough'
      <3>1. asked' <= (Attempts + 1) * (1 + IF wanted = "runbook" THEN 1 ELSE 0)
        BY <2>1, <2>3, AskedBound, SomeAttempts
      <3> QED BY <1>5, <2>1, <3>1 DEF AskedOftenEnough
    <2> QED BY <1>1, <1>2, <2>2, <2>4 DEF IInv
  <1> QED BY <1>4, <1>5

LEMMA ModelAnswersNothingIInv ==
    ASSUME IInv, ModelAnswersNothing
    PROVE  IInv'
  <1> USE DEF ModelAnswersNothing
  <1>1. Gathered' /\ GapsAreAccounted'
    BY AskedUnchanged
  <1>2. TypeOK'
    BY DEF IInv, TypeOK, Ended
  <1>3. Counted'
    BY DEF Counted
  <1>4. asked' <= (Attempts + 1) * (1 + IF wanted = "runbook" THEN 1 ELSE 0)
    BY AskedBound, SomeAttempts DEF IInv, TypeOK, Counted
  <1>5. AskedOftenEnough'
    BY <1>4 DEF IInv, AskedOftenEnough
  <1> QED BY <1>1, <1>2, <1>3, <1>5 DEF IInv

LEMMA ModelRaisesIInv ==
    ASSUME IInv, ModelRaises
    PROVE  IInv'
  <1> USE DEF ModelRaises
  <1>1. Gathered' /\ GapsAreAccounted'
    BY AskedUnchanged
  <1>2. /\ asked \in Nat /\ attempts \in Nat /\ attempts <= Attempts /\ attempts <= asked
        /\ wanted = "runbook" => asked <= Attempts + 1 + attempts
        /\ stage = "rca" => asked = attempts
        /\ stage = "runbook" => wanted = "runbook" /\ results = {"report"}
    BY SomeAttempts DEF IInv, TypeOK, Counted
  <1>3. TypeOK'
    BY <1>2, SomeAttempts DEF IInv, TypeOK, Ended
  <1>4. Counted'
    BY <1>2, SomeAttempts DEF IInv, Counted
  <1>5. asked' <= (Attempts + 1) * (1 + IF wanted = "runbook" THEN 1 ELSE 0)
    BY <1>2, AskedBound, SomeAttempts
  <1>6. stage' = "gave_up" => attempts' = Attempts + 1 /\ asked' >= Attempts + 1
    BY <1>2, SomeAttempts
  <1>7. AskedOftenEnough'
    BY <1>5, <1>6 DEF IInv, AskedOftenEnough
  <1> QED BY <1>1, <1>3, <1>4, <1>7 DEF IInv

LEMMA DropIInv == ASSUME IInv, Drop PROVE IInv'
  <1>1. Init'
    BY DEF Drop, Init
  <1>2. TypeOK' /\ Gathered' /\ GapsAreAccounted' /\ Counted'
    BY <1>1, SomeAttempts DEF Init, TypeOK, Gathered, GapsAreAccounted, Counted, NoBundle,
                              Agents, Ended
  <1>3. AskedOftenEnough'
    BY <1>1, SomeAttempts DEF Init, AskedOftenEnough
  <1> QED BY <1>2, <1>3 DEF IInv

\* Every step of an investigation preserves the invariant.
LEMMA StepIInv == IInv /\ [Next]_graphVars => IInv'
  <1> SUFFICES ASSUME IInv, [Next]_graphVars PROVE IInv'
    OBVIOUS
  <1>1. CASE \E a \in Alerts, what \in {"report", "runbook"} : Begin(a, what)
    BY <1>1, BeginIInv
  <1>2. CASE Drop
    BY <1>2, DropIInv
  <1>3. CASE \E a \in Agents : AgentReturns(a)
    BY <1>3, AgentReturnsIInv
  <1>4. CASE CorrelateFindings
    BY <1>4, CorrelateFindingsIInv
  <1>5. CASE ModelAnswers
    BY <1>5, ModelAnswersIInv
  <1>6. CASE ModelAnswersNothing
    BY <1>6, ModelAnswersNothingIInv
  <1>7. CASE ModelRaises
    BY <1>7, ModelRaisesIInv
  <1>8. CASE UNCHANGED graphVars
    BY <1>8 DEF graphVars, IInv, TypeOK, Gathered, GapsAreAccounted, Counted, AskedOftenEnough
  <1> QED BY <1>1, <1>2, <1>3, <1>4, <1>5, <1>6, <1>7, <1>8 DEF Next, GraphStep

LEMMA InvariantHolds == Spec => []IInv
  BY InitIInv, StepIInv, PTL DEF Spec

-----------------------------------------------------------------------------
\* Type correctness of an investigation, for every alert, service, kind of evidence
\* and number of attempts (InvestigationState).
THEOREM TypeCorrect == Spec => []TypeOK
  <1>1. IInv => TypeOK BY DEF IInv
  <1> QED BY <1>1, InvariantHolds, PTL

\* What the model is shown is about the service of this alert, lists as gaps exactly
\* the agents that failed and the service that was not found, and shows of a failed
\* agent nothing but the metrics agent's error, whatever the agents may find
\* (_correlate_findings).
THEOREM GapsAccounted == Spec => []GapsAreAccounted
  <1>1. IInv => GapsAreAccounted BY DEF IInv
  <1> QED BY <1>1, InvariantHolds, PTL

\* For any number of attempts, the model is asked at most once more than that for
\* each document, and the run gives up only after all of them (_invoke_structured).
THEOREM AskedEnough == Spec => []AskedOftenEnough
  <1>1. IInv => AskedOftenEnough BY DEF IInv
  <1> QED BY <1>1, InvariantHolds, PTL
=============================================================================
