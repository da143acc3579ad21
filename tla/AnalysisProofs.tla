--------------------------- MODULE AnalysisProofs ----------------------------
(***************************************************************************)
(* What the agents' analyses promise, for every answer of the services     *)
(* they ask: that the functions of AlertAnalysis, TraceAnalysis,           *)
(* ClusterHealth, ServiceMetrics and IncidentHistory keep it.              *)
(***************************************************************************)
EXTENDS AlertAnalysis, TraceAnalysis, ClusterHealth, ServiceMetrics, IncidentHistory,
        ListTheorems

-----------------------------------------------------------------------------
\* Which service an alert is about

\* Being more specific is an order of the known services.
LEMMA SpecificityRanks ==
    Ranks({p \in ToSet(KnownServices) \X ToSet(KnownServices) : MoreSpecific(p[1], p[2])},
          ToSet(KnownServices))
  <1> SUFFICES ASSUME NEW a \in ToSet(KnownServices), NEW b \in ToSet(KnownServices),
                      NEW c \in ToSet(KnownServices)
               PROVE  /\ MoreSpecific(a, b) => ~MoreSpecific(b, a)
                      /\ MoreSpecific(a, c) => MoreSpecific(a, b) \/ MoreSpecific(b, c)
    BY DEF Ranks
  <1>1. /\ Len(a.tokens) \in Nat /\ Len(b.tokens) \in Nat /\ Len(c.tokens) \in Nat
        /\ a.length \in Nat /\ b.length \in Nat /\ c.length \in Nat
    BY KnownServicesAreListed
  <1> QED BY <1>1 DEF MoreSpecific

\* A name is matched with the most specific service it refers to (match_service_name).
LEMMA MatchIsRight ==
    ASSUME NEW alert
    PROVE  RightlyNamed(alert, MatchServiceName(alert.name))
  <1> DEFINE S == ToSet(KnownServices)
             O == {p \in S \X S : MoreSpecific(p[1], p[2])}
             ranked == Ordered(KnownServices, O)
             T == {x \in ToSet(ranked) : Refers(alert.name, x)}
             hits == Those(ranked, T)
             R == Precedence(KnownServices, O)
             K == {k \in DOMAIN KnownServices : Refers(alert.name, KnownServices[k])}
  <1>1. KnownServices \in Seq(S) /\ Ranks(O, S)
    BY SpecificityRanks, KnownServicesAreListed
  <1>2. MatchServiceName(alert.name) = IF hits = <<>> THEN None ELSE hits[1].name
    BY DEF MatchServiceName, SortedBy, Kept
  <1>3. OneWay(R)
    BY <1>1, PrecedenceIsOneWay
  <1>4. Reads(ranked, KnownServices, DOMAIN KnownServices, R)
    BY <1>1, OrderedReads
  <1>5. /\ DOMAIN KnownServices = 1..Len(KnownServices)
        /\ DOMAIN KnownServices \in SUBSET (1..Len(KnownServices))
    BY <1>1
  <1>6. \A k \in DOMAIN KnownServices : KnownServices[k] \in ToSet(ranked)
    <2> HIDE DEF ranked, R
    <2>1. Shows(ranked, KnownServices, DOMAIN KnownServices)
      BY <1>1, <1>3, <1>4, <1>5, ReadingShape
    <2> QED BY <2>1 DEF Shows
  <1>7. Reads(hits, KnownServices, Among(DOMAIN KnownServices, KnownServices, T), R)
    <2> HIDE DEF ranked, R, T
    <2> QED BY <1>1, <1>3, <1>4, <1>5, ThoseOfReading
  <1>8. Among(DOMAIN KnownServices, KnownServices, T) = K
    <2> HIDE DEF ranked
    <2> QED BY <1>6 DEF Among
  <1> HIDE DEF ranked, T, hits, R, K
  <1>9. Reads(hits, KnownServices, K, R) /\ K \in SUBSET (1..Len(KnownServices))
    BY <1>5, <1>7, <1>8 DEF K
  <1>10. CASE hits = <<>>
    <2>1. K = {}
      BY <1>1, <1>3, <1>9, <1>10, NothingRead
    <2>2. {s \in S : Refers(alert.name, s)} = {}
      BY <2>1 DEF K, ToSet
    <2> QED BY <1>2, <1>10, <2>2 DEF RightlyNamed
  <1>11. CASE hits # <<>>
    <2>1. PICK k \in K : hits[1] = KnownServices[k] /\ Starts(k, K, R)
      BY <1>1, <1>3, <1>9, <1>11, ReadingFirst
    <2>2. hits[1] \in S /\ Refers(alert.name, hits[1])
      BY <2>1 DEF K, ToSet
    <2>3. ASSUME NEW t \in S, Refers(alert.name, t), MoreSpecific(t, hits[1]) PROVE FALSE
      <3>1. PICK j \in DOMAIN KnownServices : KnownServices[j] = t
        BY DEF ToSet
      <3>2. j \in K
        BY <3>1, <2>3 DEF K
      <3>3. <<t, hits[1]>> \in O
        BY <2>2, <2>3
      <3>4. <<hits[1], t>> \notin O
        BY <3>3, <2>2, SpecificityRanks DEF Ranks
      <3>5. j # k
        BY <3>1, <3>3, <3>4, <2>1
      <3> HIDE DEF O
      <3> QED BY <2>1, <3>1, <3>2, <3>3, <3>4, <3>5 DEF R, Precedence, Starts
    <2> QED BY <1>2, <1>11, <2>2, <2>3 DEF RightlyNamed
  <1> QED BY <1>10, <1>11

\* Without a label an alert is attributed by its name alone (resolve_service_from_alert).
LEMMA UnlabelledIsNamed ==
    ASSUME NEW alert, {alert.labels.service_name, alert.labels.service, alert.labels.job} = {None}
    PROVE  ServiceOf(alert) = MatchServiceName(alert.name)
  <1> DEFINE labels == <<alert.labels.service_name, alert.labels.service, alert.labels.job>>
             T == {v \in ToSet(labels) : v # None}
  <1>1. labels = <<None, None, None>>
    OBVIOUS
  <1>2. labels \in Seq({None}) /\ T = {}
    BY <1>1 DEF ToSet
  <1> HIDE DEF labels, T
  <1>3. Reads(Those(labels, T), labels, At(labels, T), Below)
    BY <1>2, ThoseRead
  <1>4. At(labels, T) = {}
    BY <1>2 DEF At
  <1>5. Those(labels, T) = <<>>
    <2>1. {} \in SUBSET (1..Len(labels))
      OBVIOUS
    <2> QED BY <1>2, <1>3, <1>4, <2>1, BelowIsOneWay, NothingRead
  <1>6. ServiceOf(alert) = IF Those(labels, T) # <<>> THEN Those(labels, T)[1]
                           ELSE MatchServiceName(alert.name)
    BY DEF ServiceOf, Kept, labels, T
  <1> QED BY <1>5, <1>6

-----------------------------------------------------------------------------
\* How urgent the alerts are

\* The active alerts are a list, one for each alert answered.
LEMMA ActiveAlertsAreListed ==
    ASSUME NEW answer, answer \in Seq(ToSet(answer))
    PROVE  LET alerts == ActiveAlerts(answer)
           IN  alerts \in Seq(ToSet(alerts)) /\ DOMAIN alerts = 1..Len(alerts)
                 /\ Len(alerts) = Len(answer) /\ Len(answer) \in Nat
  <1> DEFINE alerts == ActiveAlerts(answer)
  <1>1. Len(answer) \in Nat /\ DOMAIN answer = 1..Len(answer)
    OBVIOUS
  <1>2. alerts = [i \in 1..Len(answer) |-> alerts[i]]
    BY <1>1 DEF ActiveAlerts, Mapped
  <1> HIDE DEF alerts
  <1> QED BY <1>1, <1>2, FunctionIsList DEF alerts

\* An urgent alert is routed to people.
LEMMA UrgentGoesToPeople ==
    ASSUME NEW alert, NeedsAction(alert)
    PROVE  RouteOf(alert) \in {"pagerduty", "slack-incidents"}
  BY DEF NeedsAction, RouteOf, SEVERITY_ROUTES

\* The route kept for a name is that of the last alert with it.
LEMMA LastRouteCounts ==
    ASSUME NEW alerts, alerts \in Seq(ToSet(alerts)), NEW i \in DOMAIN alerts
    PROVE  \E j \in DOMAIN alerts :
              /\ j >= i /\ alerts[j].name = alerts[i].name
              /\ Routes(alerts)[alerts[i].name] = RouteOf(alerts[j])
  <1> DEFINE name == alerts[i].name
             T == {a \in ToSet(alerts) : a.name = name}
             named == Those(alerts, T)
             K == At(alerts, T)
  <1>1. DOMAIN alerts = 1..Len(alerts)
    OBVIOUS
  <1>2. i \in K /\ K \in SUBSET (1..Len(alerts))
    BY <1>1 DEF At, ToSet
  <1>3. Reads(named, alerts, K, Below)
    BY ThoseRead
  <1>4. Routes(alerts)[name] = RouteOf(Last(named))
    <2>1. name \in {a.name : a \in ToSet(alerts)}
      BY DEF ToSet
    <2> QED BY <2>1 DEF Routes, Kept
  <1>5. \A j \in K : alerts[j].name = name
    BY DEF At
  <1> HIDE DEF T, K, named
  <1>6. named # <<>>
    BY <1>2, <1>3, BelowIsOneWay, NothingRead
  <1>7. PICK j \in K : Last(named) = alerts[j] /\ Ends(j, K, Below)
    BY <1>2, <1>3, <1>6, BelowIsOneWay, ReadingLast
  <1>8. i = j \/ i < j
    BY <1>2, <1>7 DEF Below, Ends
  <1>9. j \in DOMAIN alerts /\ j >= i
    BY <1>1, <1>2, <1>7, <1>8
  <1>10. alerts[j].name = name /\ Routes(alerts)[name] = RouteOf(alerts[j])
    BY <1>4, <1>5, <1>7
  <1> QED BY <1>9, <1>10

\* The urgent alerts are counted and routed to people (get_incident_summary).
LEMMA SummaryPages ==
    ASSUME NEW answer, answer \in Seq(ToSet(answer)),
           NEW out, out = IncidentSummary(answer)
    PROVE  LET alerts == ActiveAlerts(answer)
               urgent == {i \in DOMAIN alerts : NeedsAction(alerts[i])}
           IN  /\ out.requires_immediate_action = Cardinality(urgent)
               /\ out.critical_count >= Len(CriticalAlerts(answer))
               /\ \A i \in urgent :
                     \/ out.routes[alerts[i].name] \in {"pagerduty", "slack-incidents"}
                     \/ \E j \in DOMAIN alerts \ urgent : j > i /\ alerts[j].name = alerts[i].name
  <1> DEFINE alerts == ActiveAlerts(answer)
             urgent == {i \in DOMAIN alerts : NeedsAction(alerts[i])}
             Acute == {a \in ToSet(alerts) : NeedsAction(a)}
             Critical == {a \in ToSet(alerts) : IsCritical(a)}
             AsSpelled == {a \in ToSet(alerts) : a.severity = "critical"}
  <1>1. /\ alerts \in Seq(ToSet(alerts)) /\ DOMAIN alerts = 1..Len(alerts)
        /\ Len(alerts) \in Nat
    BY ActiveAlertsAreListed
  <1>2. /\ out.requires_immediate_action = Len(Those(alerts, Acute))
        /\ out.critical_count = Len(Those(alerts, Critical))
        /\ Len(CriticalAlerts(answer)) = Len(Those(alerts, AsSpelled))
        /\ out.routes = Routes(alerts)
    BY DEF IncidentSummary, CriticalAlerts, Kept
  <1> HIDE DEF alerts
  <1>3. At(alerts, Acute) = urgent
    BY <1>1 DEF At, ToSet
  <1>4. At(alerts, AsSpelled) \subseteq At(alerts, Critical)
    <2>1. \A a \in AsSpelled : IsCritical(a)
      BY LowerCaseStays DEF IsCritical, SEVERITY_ROUTES
    <2> QED BY <2>1 DEF At
  <1> HIDE DEF Acute, Critical, AsSpelled
  <1>5. out.requires_immediate_action = Cardinality(urgent)
    BY <1>1, <1>2, <1>3, CountThose
  <1>6. out.critical_count >= Len(CriticalAlerts(answer))
    <2>1. Cardinality(At(alerts, AsSpelled)) <= Cardinality(At(alerts, Critical))
      BY <1>1, <1>4, CountThose, FS_Subset
    <2> QED BY <1>1, <1>2, <2>1, CountThose
  <1>7. ASSUME NEW i \in urgent
        PROVE  \/ out.routes[alerts[i].name] \in {"pagerduty", "slack-incidents"}
               \/ \E j \in DOMAIN alerts \ urgent : j > i /\ alerts[j].name = alerts[i].name
    <2>1. PICK j \in DOMAIN alerts :
              /\ j >= i /\ alerts[j].name = alerts[i].name
              /\ Routes(alerts)[alerts[i].name] = RouteOf(alerts[j])
      BY <1>1, LastRouteCounts
    <2>2. CASE j \in urgent
      BY <1>2, <2>1, <2>2, UrgentGoesToPeople
    <2>3. CASE j \notin urgent
      <3>1. j # i
        BY <2>3
      <3> QED BY <1>1, <2>1, <2>3, <3>1
    <2> QED BY <2>2, <2>3
  <1> QED BY <1>5, <1>6, <1>7 DEF alerts

-----------------------------------------------------------------------------
\* The newest warnings

\* Which of two events of a list is shown first
NewerIn(s) == {p \in ToSet(s) \X ToSet(s) : Newer(p[1], p[2])}

\* g shows the events of s.
Briefs(g, s) == g = [k \in 1..Len(s) |-> Brief(s[k])]

Dated(s) == \A e \in ToSet(s) : Stamp(e) \in Int

\* Being newer is an order of dated events.
LEMMA DatesRank ==
    ASSUME NEW s, Dated(s)
    PROVE  Ranks(NewerIn(s), ToSet(s))
  BY DEF Dated, Ranks, NewerIn, Newer

\* When none of a namespace's events are cut off, the recent ones are all of them, in
\* the order of their dates (get_recent_events).
LEMMA RecentRead ==
    ASSUME NEW s, s \in Seq(ToSet(s)), Dated(s), NEW n \in Nat, Len(s) <= n,
           NEW g, Briefs(g, s)
    PROVE  Reads(RecentEvents(s, n), g, 1..Len(s), Precedence(s, NewerIn(s)))
  <1> DEFINE sorted == Ordered(s, NewerIn(s))
             R == Precedence(s, NewerIn(s))
             K == 1..Len(s)
  <1>1. Take(s, n) = s
    BY TakeWhole
  <1>2. Reads(sorted, s, K, R) /\ OneWay(R)
    <2>1. DOMAIN s = K
      OBVIOUS
    <2> QED BY <2>1, DatesRank, OrderedReads, PrecedenceIsOneWay
  <1>3. Len(s) \in Nat /\ Cardinality(K) = Len(s)
    <2>1. Len(s) \in Nat
      OBVIOUS
    <2> QED BY <2>1, PlacesCount
  <1> HIDE DEF R
  <1>4. sorted \in Seq(ToSet(s)) /\ Len(sorted) = Len(s)
    <2>1. K \in SUBSET (1..Len(s))
      OBVIOUS
    <2> HIDE DEF sorted, K
    <2> QED BY <1>2, <1>3, <2>1, ReadingShape
  <1>5. Take(sorted, n) = sorted
    BY <1>4, TakeWhole
  <1>6. RecentEvents(s, n) = [i \in DOMAIN sorted |-> Brief(sorted[i])]
    BY <1>1, <1>5 DEF RecentEvents, SortedBy, NewerIn, Mapped
  <1> HIDE DEF sorted, K
  <1>7. PICK x : Enumerates(x, K, R) /\ ReadAt(sorted, s, x)
    BY <1>2 DEF Reads
  <1>8. x \in Seq(K) /\ Len(x) \in Nat /\ Len(x) = Len(s)
    BY <1>2, <1>3, <1>7, EnumerationCounts DEF Enumerates
  <1>9. RecentEvents(s, n) = [i \in 1..Len(x) |-> g[x[i]]]
    <2>1. DOMAIN sorted = 1..Len(x)
      BY <1>4, <1>8
    <2>2. \A i \in 1..Len(x) : x[i] \in 1..Len(s)
      BY <1>8 DEF K
    <2>3. \A i \in 1..Len(x) : Brief(sorted[i]) = g[x[i]]
      BY <1>7, <2>2 DEF ReadAt, Briefs
    <2> QED BY <1>6, <2>1, <2>3
  <1>10. ReadAt(RecentEvents(s, n), g, x)
    BY <1>9 DEF ReadAt
  <1> QED BY <1>7, <1>10 DEF Reads, K, R

\* A service's newest warnings are shown (get_recent_k8s_events).
LEMMA NewestAreShown ==
    ASSUME NEW s, s \in Seq(ToSet(s)), Dated(s), NEW service, NEW limit \in Nat
    PROVE  NewestWarnings(ServiceWarnings(s, service, limit), s, service, limit)
  <1> DEFINE kept == IF service = Unset THEN limit ELSE limit * 2
             W == {e \in ToSet(s) : e.type = "Warning"}
             warnings == Those(s, W)
             A == {e \in ToSet(warnings) : service = Unset \/ service \in Mentions[e.name]}
             about == Those(warnings, A)
             newest == Ordered(about, NewerIn(about))
             shown == ServiceWarnings(s, service, limit)
             R == Precedence(s, NewerIn(s))
             KW == {k \in 1..Len(s) : s[k].type = "Warning"}
             K == {k \in KW : service = Unset \/ service \in Mentions[s[k].name]}
             g == [k \in 1..Len(s) |-> Brief(s[k])]
  <1>1. /\ warnings = Kept(s, LAMBDA e : e.type = "Warning")
        /\ about = About(warnings, service)
        /\ newest = SortedBy(about, Newer)
    BY DEF Kept, About, SortedBy, NewerIn
  <1> DEFINE Fits == Len(s) <= kept * 2 /\ (service = Unset \/ Len(warnings) <= kept)
  <1> SUFFICES ASSUME Fits
               PROVE  Mapped(shown, LAMBDA e : e.timestamp) = Mapped(Take(newest, limit), Stamp)
    BY <1>1 DEF NewestWarnings
  <1> HIDE DEF Fits, kept, W, warnings, A, about, newest, shown, R, KW, K, g
  <1>2. kept \in Nat /\ kept * 2 \in Nat
    BY DEF kept
  <1>3. OneWay(R)
    BY DatesRank, PrecedenceIsOneWay DEF R
  <1>4. 1..Len(s) = DOMAIN s
    OBVIOUS
  <1>5. KW \in SUBSET (1..Len(s))
    BY DEF KW
  <1>6. K \in SUBSET (1..Len(s))
    BY DEF K, KW
  <1>7. Reads(warnings, s, KW, Below)
    <2>1. At(s, W) = KW
      BY DEF At, ToSet, W, KW
    <2> QED BY <2>1, ThoseRead DEF warnings
  <1>8. \A k \in KW : s[k] \in ToSet(warnings)
    <2>1. Shows(warnings, s, KW)
      BY <1>5, <1>7, BelowIsOneWay, ReadingShape
    <2> QED BY <2>1 DEF Shows
  <1>9. Reads(about, s, K, Below)
    <2>1. Among(KW, s, A) = K
      BY <1>8 DEF Among, A, K
    <2>2. Reads(Those(warnings, A), s, Among(KW, s, A), Below)
      BY <1>5, <1>7, BelowIsOneWay, ThoseOfReading
    <2> QED BY <2>1, <2>2 DEF about
  <1>10. \A y \in ToSet(about) : y \in ToSet(s)
    <2>1. \A k \in K : s[k] \in ToSet(s)
      BY <1>4, <1>6 DEF ToSet
    <2>2. Shows(about, s, K)
      BY <1>6, <1>9, BelowIsOneWay, ReadingShape
    <2> QED BY <2>1, <2>2 DEF Shows
  <1>11. Reads(newest, s, K, R)
    <2>1. \A a, b \in ToSet(about) : <<a, b>> \in NewerIn(about) <=> <<a, b>> \in NewerIn(s)
      BY <1>10 DEF NewerIn
    <2>2. newest = Ordered(about, NewerIn(s))
      BY <2>1, OrderOnElements DEF newest
    <2>3. Ranks(NewerIn(s), ToSet(s))
      BY DatesRank
    <2>4. Reads(Ordered(about, NewerIn(s)), s, K, Refined(s, NewerIn(s), Below))
      BY <1>6, <1>9, <2>3, BelowIsOneWay, OrderedOfReading
    <2> QED BY <2>2, <2>4, PrecedenceRefines DEF R
  <1> DEFINE recent == RecentEvents(s, kept * 2)
             Wr == {e \in ToSet(recent) : e.type = "Warning"}
             late == Those(recent, Wr)
             w == Take(late, kept)
             Ar == {o \in ToSet(w) : service = Unset \/ service \in Mentions[o.name]}
  <1>12. shown = IF service = Unset THEN Take(late, limit) ELSE Take(Those(w, Ar), limit)
    BY DEF shown, ServiceWarnings, WarningEvents, About, Kept, kept
  <1> HIDE DEF recent, Wr, late, w, Ar
  <1>13. g \in Seq(ToSet(g)) /\ Len(g) = Len(s)
    <2>1. g = [k \in 1..Len(s) |-> g[k]]
      BY DEF g
    <2>2. Len(s) \in Nat
      OBVIOUS
    <2> QED BY <2>1, <2>2, FunctionIsList
  <1>14. \A k \in 1..Len(s) : /\ g[k].type = s[k].type
                              /\ g[k].name = s[k].name
                              /\ g[k].timestamp = Stamp(s[k])
    BY DEF g, Brief
  <1>15. Reads(recent, g, 1..Len(s), R)
    <2>1. Len(s) <= kept * 2
      BY DEF Fits
    <2>2. Briefs(g, s)
      BY DEF Briefs, g
    <2> QED BY <1>2, <2>1, <2>2, RecentRead DEF recent, R
  <1>16. Reads(late, g, KW, R)
    <2>1. 1..Len(s) \in SUBSET (1..Len(g))
      BY <1>13
    <2>2. Shows(recent, g, 1..Len(s))
      BY <1>3, <1>13, <1>15, <2>1, ReadingShape
    <2>3. Among(1..Len(s), g, Wr) = KW
      BY <1>14, <2>2 DEF Among, Wr, KW, Shows
    <2>4. Reads(Those(recent, Wr), g, Among(1..Len(s), g, Wr), R)
      BY <1>3, <1>13, <1>15, <2>1, ThoseOfReading
    <2> QED BY <2>3, <2>4 DEF late
  <1>17. KW \in SUBSET (1..Len(g)) /\ K \in SUBSET (1..Len(g))
    BY <1>5, <1>6, <1>13
  <1>18. PICK pre : Reads(pre, g, K, R) /\ shown = Take(pre, limit)
    <2>1. CASE service = Unset
      <3>1. K = KW
        BY <2>1 DEF K
      <3> QED BY <1>12, <1>16, <2>1, <3>1
    <2>2. CASE service # Unset
      <3>1. late \in Seq(ToSet(g)) /\ Len(late) = Cardinality(KW)
        BY <1>3, <1>13, <1>16, <1>17, ReadingShape
      <3>2. Len(warnings) = Cardinality(KW)
        BY <1>5, <1>7, BelowIsOneWay, ReadingShape
      <3>3. w = late
        BY <1>2, <2>2, <3>1, <3>2, TakeWhole DEF w, Fits
      <3>4. Shows(w, g, KW)
        BY <1>3, <1>13, <1>16, <1>17, <3>3, ReadingShape
      <3>5. Among(KW, g, Ar) = K
        BY <1>5, <1>14, <3>4 DEF Among, Ar, K, Shows
      <3>6. Reads(Those(w, Ar), g, Among(KW, g, Ar), R)
        BY <1>3, <1>13, <1>16, <1>17, <3>3, ThoseOfReading
      <3> QED BY <1>12, <2>2, <3>5, <3>6
    <2> QED BY <2>1, <2>2
  <1>19. PICK x : Enumerates(x, K, R) /\ ReadAt(pre, g, x) /\ ReadAt(newest, s, x)
    BY <1>3, <1>11, <1>18, SamePlaces
  <1>20. x \in Seq(K) /\ Len(x) \in Nat /\ Cardinality(K) = Len(x)
    BY <1>3, <1>19, EnumerationCounts DEF Enumerates
  <1>21. pre \in Seq(ToSet(g)) /\ Len(pre) = Len(x)
    BY <1>3, <1>13, <1>17, <1>18, <1>20, ReadingShape
  <1>22. newest \in Seq(ToSet(s)) /\ Len(newest) = Len(x)
    BY <1>3, <1>6, <1>11, <1>20, ReadingShape
  <1>23. \A i \in 1..Len(x) : pre[i].timestamp = Stamp(newest[i])
    <2> TAKE i \in 1..Len(x)
    <2>1. x[i] \in K
      BY <1>20
    <2>2. x[i] \in 1..Len(s)
      BY <1>6, <2>1
    <2> QED BY <1>14, <1>19, <2>2 DEF ReadAt
  <1> DEFINE n == IF limit < Len(x) THEN limit ELSE Len(x)
  <1>24. n \in Nat /\ n <= Len(x)
    BY <1>20
  <1>25. DOMAIN Take(pre, limit) = 1..n /\ \A i \in 1..n : Take(pre, limit)[i] = pre[i]
    BY <1>21, TakeShape
  <1>26. DOMAIN Take(newest, limit) = 1..n /\ \A i \in 1..n : Take(newest, limit)[i] = newest[i]
    BY <1>22, TakeShape
  <1> HIDE DEF n
  <1>27. \A i \in 1..n : Take(pre, limit)[i].timestamp = Stamp(Take(newest, limit)[i])
    BY <1>20, <1>23, <1>24, <1>25, <1>26
  <1> QED BY <1>18, <1>25, <1>26, <1>27 DEF Mapped

-----------------------------------------------------------------------------
\* The best matches of a search

\* Which of two documents is the better match
Scored(d, scoreOf) == {p \in ToSet(d) \X ToSet(d) : scoreOf[p[1].id] > scoreOf[p[2].id]}

\* Where d has a match
Matching(d, scoreOf, floor) ==
    {k \in 1..Len(d) : d[k].text /\ scoreOf[d[k].id] >= floor}

\* What is shown of the first n of t
Matches(t, scoreOf, n) ==
    [j \in 1..n |-> [id |-> t[j].id, similarity |-> scoreOf[t[j].id]]]

HasScores(d, scoreOf) == \A e \in ToSet(d) : scoreOf[e.id] \in Int

\* Scoring higher is an order of scored documents.
LEMMA ScoresRank ==
    ASSUME NEW d, NEW scoreOf, HasScores(d, scoreOf)
    PROVE  Ranks(Scored(d, scoreOf), ToSet(d))
  BY DEF HasScores, Ranks, Scored

\* A search shows the matches among the documents by their scores: a rank among those
\* with text finds the document it is the rank of (rank_by_similarity and its callers).
LEMMA SearchReads ==
    ASSUME NEW d, d \in Seq(ToSet(d)), NEW scoreOf, HasScores(d, scoreOf),
           NEW floor \in Int, NEW top_k \in Nat
    PROVE  \E t : /\ Reads(t, d, Matching(d, scoreOf, floor), Precedence(d, Scored(d, scoreOf)))
                  /\ Search(d, scoreOf, floor, top_k, TRUE)
                       = Matches(t, scoreOf, IF top_k < Len(t) THEN top_k ELSE Len(t))
  <1> DEFINE Texts == {e \in ToSet(d) : e.text}
             indexed == Those(d, Texts)
             KI == {k \in 1..Len(d) : d[k].text}
             score == [i \in DOMAIN indexed |-> scoreOf[indexed[i].id]]
             B == [i \in DOMAIN score |-> [index |-> i, score |-> score[i]]]
             M == {m \in ToSet(B) : m.score >= floor}
             matches == Those(B, M)
             O == {p \in ToSet(matches) \X ToSet(matches) : p[1].score > p[2].score}
             OB == {p \in ToSet(B) \X ToSet(B) : p[1].score > p[2].score}
             sorted == Ordered(matches, O)
             taken == Take(sorted, top_k)
             shown == [j \in DOMAIN taken |->
                          [id |-> indexed[taken[j].index].id, similarity |-> taken[j].score]]
             found == Search(d, scoreOf, floor, top_k, TRUE)
             P == Precedence(d, Scored(d, scoreOf))
             K == Matching(d, scoreOf, floor)
             L == At(B, M)
             Q == Precedence(B, OB)
  <1>1. found = IF indexed = <<>> THEN <<>> ELSE shown
    BY DEF Search, RankBySimilarity, Kept, SortedBy, Mapped
  <1> HIDE DEF Texts, indexed, KI, score, B, M, matches, O, OB, sorted, taken, shown, found,
               P, K, L, Q
  <1>2. KI \in SUBSET (1..Len(d))
    BY DEF KI
  <1>3. Reads(indexed, d, KI, Below)
    <2>1. At(d, Texts) = KI
      BY DEF At, ToSet, Texts, KI
    <2> QED BY <2>1, ThoseRead DEF indexed
  <1>4. PICK x : Enumerates(x, KI, Below) /\ ReadAt(indexed, d, x)
    BY <1>3 DEF Reads
  <1>5. x \in Seq(KI) /\ Len(x) \in Nat /\ Cardinality(KI) = Len(x)
    BY <1>4, BelowIsOneWay, EnumerationCounts, SMTT(30) DEF Enumerates
  <1>6. indexed \in Seq(ToSet(d)) /\ Len(indexed) = Len(x)
    BY <1>2, <1>3, <1>5, BelowIsOneWay, ReadingShape
  <1>7. \A i \in 1..Len(x) : x[i] \in KI /\ indexed[i] = d[x[i]] /\ indexed[i] \in ToSet(d)
    <2> TAKE i \in 1..Len(x)
    <2>1. x[i] \in KI /\ indexed[i] \in ToSet(d)
      BY <1>5, <1>6
    <2> QED BY <1>4, <2>1 DEF ReadAt
  <1>8. DOMAIN score = 1..Len(x) /\ \A i \in 1..Len(x) : score[i] = scoreOf[indexed[i].id]
    BY <1>6 DEF score
  <1>9. \A i \in 1..Len(x) : score[i] \in Int
    BY <1>7, <1>8 DEF HasScores
  <1>10. /\ B \in Seq(ToSet(B)) /\ Len(B) = Len(x)
         /\ \A i \in 1..Len(x) : B[i].index = i /\ B[i].score = score[i]
    <2>1. B = [i \in 1..Len(x) |-> B[i]]
      BY <1>8 DEF B
    <2>2. \A i \in 1..Len(x) : B[i].index = i /\ B[i].score = score[i]
      BY <1>8 DEF B
    <2> QED BY <1>5, <2>1, <2>2, FunctionIsList
  <1>11. Reads(matches, B, L, Below)
    BY <1>10, ThoseRead DEF matches, L
  <1>12. L \in SUBSET (1..Len(B)) /\ L \in SUBSET (1..Len(x))
    BY <1>10 DEF L, At
  <1>13. \A m \in ToSet(B) : m.score \in Int
    BY <1>8, <1>9, <1>10, <1>5 DEF ToSet
  <1>14. Ranks(OB, ToSet(B))
    BY <1>13 DEF Ranks, OB
  <1>15. Reads(sorted, B, L, Q)
    <2>1. matches \in Seq(ToSet(B))
      BY <1>10, <1>11, <1>12, BelowIsOneWay, ReadingShape
    <2>2. ToSet(matches) \subseteq ToSet(B)
      BY <2>1, SequencesOfElements
    <2>3. \A a, b \in ToSet(matches) : <<a, b>> \in O <=> <<a, b>> \in OB
      BY <2>2 DEF O, OB
    <2>4. sorted = Ordered(matches, OB)
      BY <2>3, OrderOnElements DEF sorted
    <2>5. Reads(Ordered(matches, OB), B, L, Refined(B, OB, Below))
      BY <1>10, <1>11, <1>12, <1>14, BelowIsOneWay, OrderedOfReading
    <2>6. Q = Refined(B, OB, Below)
      BY <1>10, PrecedenceRefines DEF Q
    <2> QED BY <2>4, <2>5, <2>6
  <1>16. OneWay(Q)
    BY <1>10, <1>14, PrecedenceIsOneWay DEF Q
  <1>17. PICK y : Enumerates(y, L, Q) /\ ReadAt(sorted, B, y)
    BY <1>15 DEF Reads
  <1>18. y \in Seq(L) /\ Len(y) \in Nat /\ Cardinality(L) = Len(y)
    BY <1>16, <1>17, EnumerationCounts DEF Enumerates
  <1>19. sorted \in Seq(ToSet(B)) /\ Len(sorted) = Len(y)
    BY <1>10, <1>12, <1>15, <1>16, <1>18, ReadingShape
  <1>20. \A j \in 1..Len(y) : /\ y[j] \in L /\ y[j] \in 1..Len(x)
                               /\ sorted[j].index = y[j] /\ sorted[j].score = score[y[j]]
    <2> TAKE j \in 1..Len(y)
    <2>1. y[j] \in L
      BY <1>18
    <2>2. y[j] \in 1..Len(x)
      BY <2>1, <1>12
    <2>3. sorted[j] = B[y[j]]
      BY <1>17 DEF ReadAt
    <2> QED BY <2>1, <2>2, <2>3, <1>10
  <1> DEFINE t == [j \in 1..Len(y) |-> indexed[y[j]]]
             kept == {x[i] : i \in L}
  <1>21. Reads(t, indexed, L, Q)
    BY <1>17 DEF Reads, ReadAt
  <1>22. Len(t) = Len(y) /\ DOMAIN t = 1..Len(y) /\ \A j \in 1..Len(y) : t[j] = indexed[y[j]]
    <2>1. t = [j \in 1..Len(y) |-> t[j]]
      OBVIOUS
    <2> QED BY <1>18, <2>1, FunctionIsList
  <1> HIDE DEF t, kept
  <1>23. Carries(x, L, Q, P)
    <2> SUFFICES ASSUME NEW i \in L, NEW j \in L, <<i, j>> \in Q
                 PROVE  <<x[i], x[j]>> \in P
      BY DEF Carries
    <2>1. i \in 1..Len(x) /\ j \in 1..Len(x)
      BY <1>12
    <2>2. x[i] \in 1..Len(d) /\ x[j] \in 1..Len(d)
      BY <2>1, <1>2, <1>7
    <2>3. B[i].score = scoreOf[d[x[i]].id] /\ B[j].score = scoreOf[d[x[j]].id]
      BY <2>1, <1>7, <1>8, <1>10
    <2>4. d[x[i]] \in ToSet(d) /\ d[x[j]] \in ToSet(d) /\ B[i] \in ToSet(B) /\ B[j] \in ToSet(B)
      BY <2>1, <2>2, <1>10, SMTT(30) DEF ToSet
    <2>5. CASE <<B[i], B[j]>> \in OB
      <3>1. <<d[x[i]], d[x[j]]>> \in Scored(d, scoreOf)
        BY <2>3, <2>4, <2>5 DEF OB, Scored
      <3>2. DOMAIN d = 1..Len(d)
        OBVIOUS
      <3>3. <<x[i], x[j]>> \in (DOMAIN d) \X (DOMAIN d)
        BY <2>2, <3>2
      <3> QED BY <3>1, <3>3 DEF P, Precedence
    <2>6. CASE <<B[j], B[i]>> \notin OB /\ i < j
      <3>1. <<d[x[j]], d[x[i]]>> \notin Scored(d, scoreOf)
        BY <2>3, <2>4, <2>6 DEF OB, Scored
      <3>2. <<x[i], x[j]>> \in Below
        BY <2>1, <2>6, <1>4 DEF Enumerates
      <3> QED BY <3>1, <3>2, <2>2, SMTT(30) DEF P, Precedence, Below
    <2> QED BY <2>5, <2>6 DEF Q, Precedence
  <1>24. kept = K
    <2>1. \A i \in L : x[i] \in K
      <3> TAKE i \in L
      <3>1. i \in 1..Len(x) /\ B[i].score >= floor
        BY <1>12 DEF L, At, M
      <3> QED BY <3>1, <1>7, <1>8, <1>10 DEF K, Matching, KI
    <2>2. ASSUME NEW k \in K PROVE \E i \in L : x[i] = k
      <3>1. k \in KI /\ scoreOf[d[k].id] >= floor
        BY DEF K, Matching, KI
      <3>2. PICK i \in 1..Len(x) : x[i] = k
        BY <3>1, <1>4 DEF Enumerates
      <3>3. B[i] \in M
        <4>1. B[i] \in ToSet(B)
          BY <1>10 DEF ToSet
        <4>2. B[i].score = scoreOf[d[k].id]
          BY <3>2, <1>7, <1>8, <1>10
        <4> QED BY <4>1, <4>2, <3>1 DEF M
      <3> QED BY <3>2, <3>3, <1>10 DEF L, At
    <2> QED BY <2>1, <2>2 DEF kept
  <1>25. Reads(t, d, K, P)
    <2>1. Reads(t, d, kept, P)
      BY <1>2, <1>4, <1>6, <1>12, <1>21, <1>23, ReadingOfReading DEF kept
    <2> QED BY <2>1, <1>24
  <1> DEFINE n == IF top_k < Len(t) THEN top_k ELSE Len(t)
  <1>26. Len(taken) = n /\ DOMAIN taken = 1..n /\ n \in Nat
         /\ \A j \in 1..n : j \in 1..Len(y) /\ taken[j] = sorted[j]
    <2>1. /\ taken \in Seq(ToSet(B)) /\ Len(taken) = n
          /\ \A i \in 1..Len(taken) : taken[i] = sorted[i]
      BY <1>19, <1>22, TakeShape DEF taken
    <2>2. n \in Nat /\ \A j \in 1..n : j \in 1..Len(y)
      BY <1>18, <1>22
    <2> QED BY <2>1, <2>2
  <1> HIDE DEF n
  <1>27. shown = Matches(t, scoreOf, n)
    <2>1. \A j \in 1..n : indexed[taken[j].index] = t[j] /\ taken[j].score = scoreOf[t[j].id]
      BY <1>8, <1>20, <1>22, <1>26
    <2> QED BY <1>26, <2>1 DEF shown, Matches
  <1>28. indexed = <<>> => Matches(t, scoreOf, n) = <<>>
    <2> HAVE indexed = <<>>
    <2>1. Len(x) = 0
      BY <1>6
    <2>2. Len(y) = 0
      BY <2>1, <1>18, <1>20
    <2>3. n = 0
      BY <2>2, <1>22 DEF n
    <2> QED BY <2>3 DEF Matches
  <1> QED BY <1>1, <1>25, <1>27, <1>28 DEF n, found, P, K

DistinctIds(d) == \A i, j \in 1..Len(d) : d[i].id = d[j].id => i = j

\* Of documents with ids of their own, a search shows the best matches: none that is
\* left out scores higher, whatever the scores (rank_by_similarity and its callers).
LEMMA BestFound ==
    ASSUME NEW d, d \in Seq(ToSet(d)), DistinctIds(d), NEW scoreOf, HasScores(d, scoreOf),
           NEW floor \in Int, NEW top_k \in Nat
    PROVE  BestMatches(Search(d, scoreOf, floor, top_k, TRUE), d, scoreOf, floor, top_k)
  <1> DEFINE found == Search(d, scoreOf, floor, top_k, TRUE)
             P == Precedence(d, Scored(d, scoreOf))
             K == Matching(d, scoreOf, floor)
             C == {e \in ToSet(d) : e.text /\ scoreOf[e.id] >= floor}
             ids == {m.id : m \in ToSet(found)}
             Shown(t) == IF top_k < Len(t) THEN top_k ELSE Len(t)
  <1>1. PICK t : Reads(t, d, K, P) /\ found = Matches(t, scoreOf, Shown(t))
    BY SearchReads
  <1> DEFINE n == Shown(t)
  <1>2. DOMAIN d = 1..Len(d)
    OBVIOUS
  <1>3. K \in SUBSET (1..Len(d)) /\ \A k \in K : d[k] \in C
    BY <1>2 DEF Matching, ToSet
  <1>4. \A e \in C : \E k \in K : e = d[k]
    BY <1>2 DEF Matching, ToSet
  <1>5. OneWay(P)
    BY ScoresRank, PrecedenceIsOneWay
  <1> HIDE DEF found, P, K, C, ids, n
  <1>6. PICK x : Enumerates(x, K, P) /\ ReadAt(t, d, x)
    BY <1>1 DEF Reads
  <1>7. x \in Seq(K) /\ Len(x) \in Nat /\ \A i, j \in 1..Len(x) : x[i] = x[j] => i = j
    <2>1. x \in Seq(K)
      BY <1>6 DEF Enumerates
    <2>2. \A i, j \in 1..Len(x) : x[i] = x[j] => i = j
      BY <1>5, <1>6, EnumerationCounts
    <2>3. Len(x) \in Nat
      BY <2>1
    <2> QED BY <2>1, <2>2, <2>3
  <1>8. Len(t) = Len(x)
    <2>1. K \in SUBSET (1..Len(d))
      BY <1>3
    <2>2. Len(t) = Cardinality(K)
      BY <1>1, <1>5, <2>1, ReadingShape
    <2> QED BY <1>5, <1>6, <2>2, EnumerationCounts
  <1>9. n \in Nat /\ n <= Len(x) /\ DOMAIN found = 1..n
        /\ \A j \in 1..n : found[j].id = t[j].id /\ found[j].similarity = scoreOf[t[j].id]
    <2>1. n \in Nat /\ n <= Len(x)
      BY <1>7, <1>8 DEF n
    <2>2. found = Matches(t, scoreOf, n)
      BY <1>1 DEF n
    <2> QED BY <2>1, <2>2 DEF Matches
  <1>10. \A i \in 1..Len(x) : x[i] \in K /\ x[i] \in 1..Len(d) /\ t[i] = d[x[i]]
    <2> TAKE i \in 1..Len(x)
    <2>1. x[i] \in K
      BY <1>7
    <2> QED BY <2>1, <1>3, <1>6 DEF ReadAt
  <1>11. \A i, j \in 1..Len(x) : t[i].id = t[j].id => i = j
    BY <1>7, <1>10, SMTT(30) DEF DistinctIds
  <1>12. IsFiniteSet(C) /\ Cardinality(C) = Len(x)
    <2>1. Values(C, t, Len(x))
      <3>1. \A i \in 1..Len(x) : t[i] \in C
        BY <1>3, <1>10
      <3>2. \A k \in K : \E i \in 1..Len(x) : x[i] = k
        BY <1>6 DEF Enumerates
      <3>3. \A e \in C : \E i \in 1..Len(x) : e = t[i]
        BY <1>4, <3>2, <1>10
      <3> QED BY <3>1, <3>3 DEF Values
    <2> QED BY <2>1, <1>7, <1>11, DistinctCount
  <1>13. Cardinality(ids) = n
    <2> DEFINE f == [i \in 1..n |-> t[i].id]
    <2>1. ids = {found[j].id : j \in 1..n}
      BY <1>9 DEF ids, ToSet
    <2>2. Values(ids, f, n)
      BY <2>1, <1>9 DEF Values
    <2>3. \A i, j \in 1..n : f[i] = f[j] => i = j
      BY <1>7, <1>9, <1>11
    <2> HIDE DEF f
    <2> QED BY <1>9, <2>2, <2>3, DistinctCount
  <1>14. \A m \in ToSet(found) : m.similarity = scoreOf[m.id]
    BY <1>9 DEF ToSet
  <1>15. ids \subseteq {e.id : e \in C}
    <2> SUFFICES ASSUME NEW j \in 1..n PROVE \E e \in C : found[j].id = e.id
      BY <1>9 DEF ToSet, ids
    <2>1. t[j] \in C
      BY <1>3, <1>7, <1>9, <1>10
    <2> QED BY <2>1, <1>9
  <1>16. Len(found) = n
    BY <1>9
  <1>17. ASSUME NEW e \in C, e.id \notin ids, NEW m \in ToSet(found)
         PROVE  m.similarity >= scoreOf[e.id]
    <2>1. PICK j \in 1..n : m = found[j]
      BY <1>9 DEF ToSet
    <2>2. PICK k \in K : e = d[k]
      BY <1>4
    <2>3. PICK i \in 1..Len(x) : x[i] = k
      BY <1>6 DEF Enumerates
    <2>4. i \notin 1..n
      <3> SUFFICES ASSUME i \in 1..n PROVE FALSE
        OBVIOUS
      <3>1. found[i].id = e.id /\ found[i] \in ToSet(found)
        BY <1>9, <1>10, <2>2, <2>3 DEF ToSet
      <3> QED BY <3>1, <1>17 DEF ids
    <2>5. j < i /\ j \in 1..Len(x)
      BY <1>7, <1>9, <2>4
    <2>6. <<x[j], x[i]>> \in P
      BY <1>6, <2>5 DEF Enumerates
    <2>8. d[x[i]] \in ToSet(d) /\ d[x[j]] \in ToSet(d)
      BY <1>2, <1>10, <2>5 DEF ToSet
    <2>7. <<d[x[i]], d[x[j]]>> \notin Scored(d, scoreOf)
      <3>1. \/ <<d[x[j]], d[x[i]]>> \in Scored(d, scoreOf)
            \/ <<d[x[i]], d[x[j]]>> \notin Scored(d, scoreOf)
        BY <2>6 DEF P, Precedence
      <3> QED BY <3>1, <2>8, ScoresRank DEF Ranks
    <2>9. scoreOf[d[x[i]].id] \in Int /\ scoreOf[d[x[j]].id] \in Int
      BY <2>8 DEF HasScores
    <2>10. m.similarity = scoreOf[d[x[j]].id] /\ e = d[x[i]]
      BY <1>9, <1>10, <2>1, <2>2, <2>3, <2>5
    <2> QED BY <2>7, <2>8, <2>9, <2>10 DEF Scored
  <1>18. Len(found) = IF Cardinality(C) < top_k THEN Cardinality(C) ELSE top_k
    BY <1>7, <1>8, <1>12, <1>16 DEF n
  <1>19. \A e \in C : e.id \notin ids =>
            \A m \in ToSet(found) : m.similarity >= scoreOf[e.id]
    BY <1>17
  <1>20. BestMatches(found, d, scoreOf, floor, top_k)
    BY <1>13, <1>14, <1>15, <1>16, <1>18, <1>19 DEF BestMatches, C, ids
  <1> QED BY <1>20 DEF found

\* A reading of documents with ids of their own is one.
LEMMA IdsStayDistinct ==
    ASSUME NEW d, d \in Seq(ToSet(d)), DistinctIds(d), NEW K, K \in SUBSET (1..Len(d)),
           NEW R, OneWay(R), NEW r, Reads(r, d, K, R)
    PROVE  r \in Seq(ToSet(r)) /\ DistinctIds(r) /\ ToSet(r) \subseteq ToSet(d)
  <1>1. r \in Seq(ToSet(d)) /\ Len(r) = Cardinality(K)
    BY ReadingShape
  <1>2. PICK x : Enumerates(x, K, R) /\ ReadAt(r, d, x)
    BY DEF Reads
  <1>3. /\ x \in Seq(K) /\ Len(x) = Len(r)
        /\ \A i, j \in 1..Len(x) : x[i] = x[j] => i = j
    <2>1. x \in Seq(K)
      BY <1>2 DEF Enumerates
    <2> QED BY <1>1, <1>2, <2>1, EnumerationCounts
  <1>4. \A i \in 1..Len(r) : x[i] \in 1..Len(d) /\ r[i] = d[x[i]]
    <2> TAKE i \in 1..Len(r)
    <2>1. x[i] \in K
      BY <1>3
    <2> QED BY <2>1, <1>2, <1>3 DEF ReadAt
  <1>5. DistinctIds(r)
    BY <1>3, <1>4, SMTT(30) DEF DistinctIds
  <1> QED BY <1>1, <1>5, SequencesOfElements

NewestIn(s) == {p \in ToSet(s) \X ToSet(s) : p[1].created > p[2].created}

HasTimes(s) == \A r \in ToSet(s) : r.created \in Int

\* Being created later is an order of dated records.
LEMMA TimesRank ==
    ASSUME NEW s, HasTimes(s)
    PROVE  Ranks(NewestIn(s), ToSet(s))
  BY DEF HasTimes, Ranks, NewestIn

\* What is searched is the registry's incidents, newest first, or the playbooks.
LEMMA ListedReads ==
    ASSUME NEW s, s \in Seq(ToSet(s)), HasTimes(s)
    PROVE  Reads(Listed(s), s, 1..Len(s), Precedence(s, NewestIn(s)))
           /\ OneWay(Precedence(s, NewestIn(s)))
  <1>1. Listed(s) = Ordered(s, NewestIn(s))
    BY DEF Listed, SortedBy, Newest, NewestIn
  <1>2. DOMAIN s = 1..Len(s)
    OBVIOUS
  <1> QED BY <1>1, <1>2, TimesRank, OrderedReads, PrecedenceIsOneWay

LEMMA PlaybooksRead ==
    ASSUME NEW s, s \in Seq(ToSet(s))
    PROVE  \E K \in SUBSET (1..Len(s)) : Reads(Playbooks(s), s, K, Below)
  <1> DEFINE T == {f \in ToSet(s) : ~f.readme /\ f.text}
  <1>1. Playbooks(s) = Those(s, T)
    BY DEF Playbooks, Kept
  <1> HIDE DEF T
  <1>2. At(s, T) \in SUBSET (1..Len(s))
    BY DEF At
  <1> QED BY <1>1, <1>2, ThoseRead

\* A description of stop words only finds nothing.
LEMMA UnusableFindsNothing ==
    ASSUME NEW d, NEW scoreOf, NEW floor, NEW top_k
    PROVE  Search(d, scoreOf, floor, top_k, FALSE) = <<>>
  BY DEF Search, RankBySimilarity, Mapped

-----------------------------------------------------------------------------
\* What the hub counts: the newest first of the incidents in the window
InWindow(s, cutoff) == {k \in 1..Len(s) : s[k].created >= cutoff}

\* The history since a time is the records created since, newest first.
LEMMA WindowRead ==
    ASSUME NEW s, s \in Seq(ToSet(s)), HasTimes(s), NEW cutoff
    PROVE  Reads(Since(Listed(s), cutoff), s, InWindow(s, cutoff), Precedence(s, NewestIn(s)))
  <1> DEFINE listed == Listed(s)
             R == Precedence(s, NewestIn(s))
             K == 1..Len(s)
             T == {r \in ToSet(listed) : r.created >= cutoff}
  <1>1. Reads(listed, s, K, R) /\ OneWay(R)
    BY ListedReads
  <1>2. Since(listed, cutoff) = Those(listed, T)
    BY DEF Since, Kept
  <1>3. K \in SUBSET (1..Len(s))
    OBVIOUS
  <1> HIDE DEF listed, R, T, K
  <1>4. Reads(Those(listed, T), s, Among(K, s, T), R)
    BY <1>1, <1>3, ThoseOfReading
  <1>5. Among(K, s, T) = InWindow(s, cutoff)
    <2>1. Shows(listed, s, K)
      BY <1>1, <1>3, ReadingShape
    <2>2. \A k \in K : s[k] \in ToSet(listed)
      BY <2>1 DEF Shows
    <2> QED BY <2>2 DEF Among, InWindow, T, K
  <1> QED BY <1>2, <1>4, <1>5 DEF listed, R

\* The history of the same window is the same list: filtering and sorting commute.
LEMMA HistoryReads ==
    ASSUME NEW s, s \in Seq(ToSet(s)), HasTimes(s), NEW now, NEW window
    PROVE  Reads(QueryHistory(s, now, NoService, window, Len(s)), s,
                 InWindow(s, now - window), Precedence(s, NewestIn(s)))
  <1> DEFINE cutoff == now - window
             A == {r \in ToSet(s) : r.created >= cutoff}
             recent == Those(s, A)
             B == {r \in ToSet(recent) : TRUE}
             about == Those(recent, B)
             O == {p \in ToSet(about) \X ToSet(about) : p[1].created > p[2].created}
             sorted == Ordered(about, O)
             R == Precedence(s, NewestIn(s))
             K == InWindow(s, cutoff)
             history == QueryHistory(s, now, NoService, window, Len(s))
  <1>1. history = Take(sorted, Len(s))
    BY DEF QueryHistory, Since, Kept, SortedBy, Newest
  <1> HIDE DEF cutoff, A, recent, B, about, O, sorted, R, K, history
  <1>2. K \in SUBSET (1..Len(s))
    BY DEF K, InWindow
  <1>3. Reads(recent, s, K, Below)
    <2>1. At(s, A) = K
      BY DEF At, A, K, InWindow, ToSet
    <2> QED BY <2>1, ThoseRead DEF recent
  <1>4. Reads(about, s, K, Below)
    <2>1. Shows(recent, s, K)
      BY <1>2, <1>3, BelowIsOneWay, ReadingShape
    <2>2. Among(K, s, B) = K
      BY <2>1 DEF Shows, Among, B
    <2>3. Reads(Those(recent, B), s, Among(K, s, B), Below)
      BY <1>2, <1>3, BelowIsOneWay, ThoseOfReading
    <2> QED BY <2>2, <2>3 DEF about
  <1>5. ToSet(about) \subseteq ToSet(s)
    <2>1. about \in Seq(ToSet(s))
      BY <1>2, <1>4, BelowIsOneWay, ReadingShape
    <2> QED BY <2>1, SequencesOfElements
  <1>6. Ranks(NewestIn(s), ToSet(s))
    BY TimesRank
  <1>7. Reads(sorted, s, K, R)
    <2>1. \A a, b \in ToSet(about) : <<a, b>> \in O <=> <<a, b>> \in NewestIn(s)
      BY <1>5 DEF O, NewestIn
    <2>2. sorted = Ordered(about, NewestIn(s))
      BY <2>1, OrderOnElements DEF sorted
    <2>3. Reads(Ordered(about, NewestIn(s)), s, K, Refined(s, NewestIn(s), Below))
      BY <1>2, <1>4, <1>6, BelowIsOneWay, OrderedOfReading
    <2> QED BY <2>2, <2>3, PrecedenceRefines DEF R
  <1>8. OneWay(R)
    BY ListedReads DEF R
  <1>9. sorted \in Seq(ToSet(s)) /\ Len(sorted) <= Len(s) /\ Len(s) \in Nat
    <2>1. sorted \in Seq(ToSet(s)) /\ IsFiniteSet(K) /\ Len(sorted) = Cardinality(K)
      BY <1>2, <1>7, <1>8, ReadingShape
    <2>2. Len(s) \in Nat
      OBVIOUS
    <2>3. Cardinality(K) <= Len(s)
      <3>1. IsFiniteSet(1..Len(s)) /\ Cardinality(1..Len(s)) = Len(s)
        BY <2>2, PlacesCount
      <3>2. Cardinality(K) <= Cardinality(1..Len(s))
        BY <1>2, <3>1, FS_Subset
      <3> QED BY <3>1, <3>2
    <2> QED BY <2>1, <2>2, <2>3
  <1>10. history = sorted
    BY <1>1, <1>9, TakeWhole
  <1> QED BY <1>7, <1>10 DEF history, K, R, cutoff

NotAfter(s, now) == \A r \in ToSet(s) : r.created <= now

\* An incident of the window is of one of its days or of the day it begins in.
LEMMA DaysOfWindow ==
    ASSUME NEW now \in Int, NEW n \in Nat, NEW t \in Int, now - n * DayLength <= t, t <= now
    PROVE  Day(t) \in Int /\ Day(now) \in Int /\ Day(now) - n <= Day(t) /\ Day(t) <= Day(now)
  <1> DEFINE D == DayLength
             p == Day(now)
             q == Day(t)
  <1>1. D \in Nat /\ D > 0
    BY DaysLast
  <1>2. p \in Int /\ p * D <= now /\ now < p * D + D
    BY <1>1 DEF Day
  <1>3. q \in Int /\ q * D <= t /\ t < q * D + D
    BY <1>1 DEF Day
  <1> HIDE DEF p, q, D
  <1>4. now - n * D <= t
    BY DEF D
  <1>5. p - n <= q
    BY <1>1, <1>2, <1>3, <1>4
  <1>6. q <= p
    BY <1>1, <1>2, <1>3
  <1> QED BY <1>2, <1>3, <1>5, <1>6 DEF p, q

\* A and B are the two parts of U.
Splits(U, A, B) == U = A \cup B /\ A \cap B = {}

\* A set split in two is as large as both parts together.
LEMMA SumOfTwo ==
    ASSUME NEW S, IsFiniteSet(S), NEW U, U \subseteq S, NEW A, NEW B, Splits(U, A, B)
    PROVE  Cardinality(U) = Cardinality(A) + Cardinality(B)
           /\ Cardinality(A) \in Nat /\ Cardinality(B) \in Nat
  <1>0. U = A \cup B /\ A \cap B = {}
    BY DEF Splits
  <1>1. IsFiniteSet(A) /\ IsFiniteSet(B)
    <2>1. A \subseteq S /\ B \subseteq S
      BY <1>0
    <2> QED BY <2>1, FS_Subset
  <1>2. Cardinality(U) = Cardinality(A) + Cardinality(B) - Cardinality({})
    BY <1>0, <1>1, FS_Union
  <1>3. Cardinality(A) \in Nat /\ Cardinality(B) \in Nat
    BY <1>1, FS_CardinalityType
  <1>4. Cardinality({}) = 0
    BY FS_EmptySet
  <1> QED BY <1>2, <1>3, <1>4

\* The places of h: by what their incident counts as, and by its day
OfBucket(h, b) == {i \in 1..Len(h) : Bucket(h[i]) = b}

OfDay(h, day) == {i \in 1..Len(h) : Day(h[i].created) = day}

InBar(h, day, b) == {r \in ToSet(h) : Day(r.created) = day /\ Bucket(r) = b}

Bars(h, first, n, b) == [k \in 1..n |-> Len(Those(h, InBar(h, first + k, b)))]

\* Every incident is of the first day or of one of n more.
WithinDays(h, first, n) == \A r \in ToSet(h) : Day(r.created) \in first..(first + n)

\* The bars of a bucket show its incidents but those of the first day.
LEMMA BarsCount ==
    ASSUME NEW h, h \in Seq(ToSet(h)), NEW first \in Int, NEW n \in Nat,
           WithinDays(h, first, n), NEW b
    PROVE  Total(Bars(h, first, n, b)) = Cardinality(OfBucket(h, b) \ OfDay(h, first))
  <1> DEFINE f == [k \in 1..n |-> OfDay(h, first + k) \cap OfBucket(h, b)]
             U == OfBucket(h, b) \ OfDay(h, first)
             X == 1..Len(h)
  <1>1. IsFiniteSet(X) /\ DOMAIN h = X
    <2>1. Len(h) \in Nat /\ DOMAIN h = 1..Len(h)
      OBVIOUS
    <2> QED BY <2>1, PlacesCount
  <1>2. PartsIn(f, n, X)
    BY DEF PartsIn, OfDay
  <1>3. Disjoint(f, n)
    BY DEF Disjoint, OfDay
  <1>4. Sizes(Bars(h, first, n, b), f, n)
    <2>1. ASSUME NEW k \in 1..n
          PROVE  Len(Those(h, InBar(h, first + k, b))) = Cardinality(f[k])
      <3>1. At(h, InBar(h, first + k, b)) = f[k]
        BY <1>1 DEF At, InBar, OfDay, OfBucket, ToSet
      <3> QED BY <3>1, CountThose
    <2> HIDE DEF f
    <2> QED BY <2>1 DEF Sizes, Bars
  <1>5. Joined(U, f, n)
    <2>1. ASSUME NEW i \in U PROVE \E k \in 1..n : i \in f[k]
      <3>1. h[i] \in ToSet(h) /\ i \in X /\ Day(h[i].created) # first
        BY <1>1 DEF ToSet, OfDay, OfBucket
      <3>2. Day(h[i].created) - first \in 1..n /\ first + (Day(h[i].created) - first) = Day(h[i].created)
        BY <3>1 DEF WithinDays
      <3> QED BY <3>1, <3>2 DEF OfDay, OfBucket
    <2>2. ASSUME NEW k \in 1..n PROVE f[k] \subseteq U
      <3>1. first + k # first
        OBVIOUS
      <3> QED BY <3>1 DEF OfDay, OfBucket
    <2> HIDE DEF f, U
    <2> QED BY <2>1, <2>2 DEF Joined
  <1> HIDE DEF f, U, X
  <1> QED BY <1>1, <1>2, <1>3, <1>4, <1>5, PartsCount DEF U

Buckets == {"resolved", "investigating", "awaiting_approval", "error"}

\* What the hub says of the incidents h in its window
HubShows(hub, h, first, n) ==
    /\ hub.total = Len(h)
    /\ hub.resolved = Len(Those(h, {r \in ToSet(h) : Resolved(r)}))
    /\ hub.pending = Len(Those(h, {r \in ToSet(h) : r.status = "awaiting_approval"}))
    /\ hub.recent = Take(h, 5)
    /\ \A b \in Buckets : [k \in 1..n |-> hub.daily[first + k][b]] = Bars(h, first, n, b)

\* The hub's figures are the lengths of filters of the history of its range.
LEMMA HubFields ==
    ASSUME NEW s, NEW now \in Int, NEW n \in Nat
    PROVE  HubShows(OperationsHub(s, now, n), Since(Listed(s), now - n * DayLength),
                    Day(now) - n, n)
  <1> DEFINE hub == OperationsHub(s, now, n)
             h   == Since(Listed(s), now - n * DayLength)
             first == Day(now) - n
             days == (Day(now) - n + 1)..Day(now)
  <1>1. /\ hub.total = Len(h)
        /\ hub.resolved = Len(Those(h, {r \in ToSet(h) : Resolved(r)}))
        /\ hub.pending = Len(Those(h, {r \in ToSet(h) : r.status = "awaiting_approval"}))
        /\ hub.recent = Take(h, 5)
        /\ hub.daily = [day \in days |-> [b \in Buckets |-> Len(Those(h, InBar(h, day, b)))]]
    BY DEF OperationsHub, Kept, Buckets, InBar
  <1>2. Day(now) \in Int
    BY DaysLast DEF Day
  <1>3. ASSUME NEW b \in Buckets
        PROVE  [k \in 1..n |-> hub.daily[first + k][b]] = Bars(h, first, n, b)
    <2>1. \A k \in 1..n : first + k \in days
      BY <1>2
    <2> HIDE DEF hub, h, first, days
    <2>2. \A k \in 1..n : hub.daily[first + k][b] = Len(Those(h, InBar(h, first + k, b)))
      BY <2>1, <1>1
    <2> QED BY <2>2 DEF Bars
  <1> HIDE DEF hub, h, first, days
  <1>4. HubShows(hub, h, first, n)
    BY <1>1, <1>3 DEF HubShows
  <1> QED BY <1>4 DEF hub, h, first

\* What a filter of a filter keeps
LEMMA CountLate ==
    ASSUME NEW h, h \in Seq(ToSet(h)), NEW day, NEW b
    PROVE  LET late == Those(h, {r \in ToSet(h) : Day(r.created) = day})
           IN  /\ Len(late) = Cardinality(OfDay(h, day))
               /\ Len(Those(late, {r \in ToSet(late) : Bucket(r) = b}))
                     = Cardinality(OfBucket(h, b) \cap OfDay(h, day))
  <1> DEFINE T == {r \in ToSet(h) : Day(r.created) = day}
             late == Those(h, T)
             B == {r \in ToSet(late) : Bucket(r) = b}
             K == OfDay(h, day)
             M == OfBucket(h, b) \cap OfDay(h, day)
  <1>1. At(h, T) = K
    BY DEF At, OfDay, ToSet
  <1>2. K \in SUBSET (1..Len(h)) /\ M \in SUBSET (1..Len(h))
    BY DEF OfDay
  <1> HIDE DEF T, K
  <1>3. Reads(late, h, K, Below)
    BY <1>1, ThoseRead
  <1> HIDE DEF late
  <1>4. Len(late) = Cardinality(K) /\ Shows(late, h, K)
    BY <1>2, <1>3, BelowIsOneWay, ReadingShape
  <1>5. Among(K, h, B) = M
    BY <1>4 DEF Among, K, OfDay, OfBucket, Shows
  <1> HIDE DEF B, M
  <1>6. Reads(Those(late, B), h, M, Below)
    BY <1>2, <1>3, <1>5, BelowIsOneWay, ThoseOfReading
  <1>7. Len(Those(late, B)) = Cardinality(M)
    BY <1>2, <1>6, BelowIsOneWay, ReadingShape
  <1> QED BY <1>4, <1>7 DEF B, M, K, late, T

\* The hub's figures agree with its chart and with the history.
LEMMA FiguresOfWindow ==
    ASSUME NEW s, s \in Seq(ToSet(s)), HasTimes(s), NEW now \in Int, NotAfter(s, now),
           NEW n \in Nat
    PROVE  FiguresAgree(OperationsHub(s, now, n), s, now, n)
  <1> DEFINE hub == OperationsHub(s, now, n)
             h == Since(Listed(s), now - n * DayLength)
             history == QueryHistory(s, now, NoService, n * DayLength, Len(s))
             first == Day(now) - n
             V == 1..Len(h)
             Bar(b) == Total(Bars(h, first, n, b))
             uncharted == Those(h, {r \in ToSet(h) : Day(r.created) = first})
             Late(b) == Len(Those(uncharted, {r \in ToSet(uncharted) : Bucket(r) = b}))
  <1>1. InWindow(s, now - n * DayLength) \in SUBSET (1..Len(s))
    BY DEF InWindow
  <1>2. history = h
    BY WindowRead, HistoryReads, ListedReads, SameReading
  <1>3. h \in Seq(ToSet(h)) /\ Shows(h, s, InWindow(s, now - n * DayLength))
    <2> DEFINE K == InWindow(s, now - n * DayLength)
               R == Precedence(s, NewestIn(s))
    <2>1. Reads(h, s, K, R) /\ OneWay(R)
      BY WindowRead, ListedReads
    <2> HIDE DEF K, R, h
    <2>2. h \in Seq(ToSet(s)) /\ Shows(h, s, K)
      BY <1>1, <2>1, ReadingShape DEF K
    <2> QED BY <2>2, SequencesOfElements DEF K
  <1>4. Day(now) \in Int /\ first \in Int
    BY DaysLast DEF Day
  <1>5. WithinDays(h, first, n)
    <2> SUFFICES ASSUME NEW r \in ToSet(h) PROVE Day(r.created) \in first..(first + n)
      BY DEF WithinDays
    <2>1. PICK k \in InWindow(s, now - n * DayLength) : r = s[k]
      BY <1>3 DEF Shows
    <2>2. r \in ToSet(s) /\ now - n * DayLength <= r.created
      <3>1. k \in 1..Len(s) /\ s[k].created >= now - n * DayLength
        BY DEF InWindow
      <3>2. k \in DOMAIN s
        BY <3>1
      <3>3. r \in ToSet(s)
        BY <2>1, <3>2 DEF ToSet
      <3>4. r.created \in Int /\ now - n * DayLength \in Int
        BY <3>3, DaysLast DEF HasTimes
      <3> QED BY <2>1, <3>1, <3>3, <3>4
    <2>3. r.created \in Int /\ r.created <= now
      BY <2>2 DEF HasTimes, NotAfter
    <2>4. Day(r.created) \in Int /\ first <= Day(r.created) /\ Day(r.created) <= Day(now)
      BY <2>2, <2>3, DaysOfWindow
    <2> HIDE DEF h
    <2> QED BY <1>4, <2>4
  <1>6. ASSUME /\ hub.total = Len(h)
               /\ hub.total = Len(uncharted) + Bar("resolved") + Bar("error")
                                + Bar("awaiting_approval") + Bar("investigating")
               /\ hub.resolved = Bar("resolved") + Late("resolved")
               /\ hub.pending = Bar("awaiting_approval") + Late("awaiting_approval")
               /\ hub.recent = Take(h, 5)
        PROVE  FiguresAgree(hub, s, now, n)
    <2>0. HubShows(hub, h, first, n)
      BY HubFields
    <2> HIDE DEF hub, h
    <2>1. \A b \in Buckets :
             [k \in 1..n |-> hub.daily[first + k][b]] = Bars(h, first, n, b)
      BY <2>0 DEF HubShows
    <2>2. /\ Bar("resolved") = Total([k \in 1..n |-> hub.daily[first + k]["resolved"]])
          /\ Bar("error") = Total([k \in 1..n |-> hub.daily[first + k]["error"]])
          /\ Bar("awaiting_approval")
                = Total([k \in 1..n |-> hub.daily[first + k]["awaiting_approval"]])
          /\ Bar("investigating")
                = Total([k \in 1..n |-> hub.daily[first + k]["investigating"]])
      BY <2>1 DEF Buckets
    <2> HIDE DEF Bar
    <2> QED BY <1>2, <1>6, <2>2 DEF FiguresAgree, Kept
  <1>7. HubShows(hub, h, first, n)
    BY HubFields
  <1> HIDE DEF hub, h, history, first, V
  <1> DEFINE D == OfDay(h, first)
             P(b) == OfBucket(h, b)
  <1>8. IsFiniteSet(V) /\ Cardinality(V) = Len(h)
    <2>1. Len(h) \in Nat
      BY <1>3
    <2> QED BY <2>1, PlacesCount DEF V
  <1>9. D \subseteq V /\ \A b : P(b) \subseteq V
    BY DEF OfDay, OfBucket, V
  <1>10. \A b : Bar(b) = Cardinality(P(b) \ D)
    BY <1>3, <1>4, <1>5, BarsCount
  <1>11. Len(uncharted) = Cardinality(D) /\ \A b : Late(b) = Cardinality(P(b) \cap D)
    BY <1>3, CountLate
  <1>12. V = D \cup ((P("resolved") \ D) \cup ((P("error") \ D)
                 \cup ((P("awaiting_approval") \ D) \cup (P("investigating") \ D))))
    BY DEF OfDay, OfBucket, Bucket, V
  <1>13. \A b, c : b # c => P(b) \cap P(c) = {}
    BY DEF OfBucket
  <1>14. DOMAIN h = V
    BY <1>3 DEF V
  <1>15. At(h, {r \in ToSet(h) : Resolved(r)}) = P("resolved")
    BY <1>14 DEF At, OfBucket, Bucket, ToSet, V
  <1>16. At(h, {r \in ToSet(h) : r.status = "awaiting_approval"}) = P("awaiting_approval")
    BY <1>14 DEF At, OfBucket, Bucket, Resolved, ToSet, V
  <1>17. hub.resolved = Cardinality(P("resolved")) /\ hub.pending = Cardinality(P("awaiting_approval"))
    BY <1>3, <1>7, <1>15, <1>16, CountThose DEF HubShows
  <1> HIDE DEF D, P, Bar, Late, uncharted
  <1>18. \A b : Cardinality(P(b)) = Bar(b) + Late(b)
    <2> TAKE b
    <2>1. Splits(P(b), P(b) \ D, P(b) \cap D)
      BY DEF Splits
    <2>2. Cardinality(P(b)) = Cardinality(P(b) \ D) + Cardinality(P(b) \cap D)
      BY <1>8, <1>9, <2>1, SumOfTwo
    <2> QED BY <2>2, <1>10, <1>11
  <1>19. Len(h) = Len(uncharted) + Bar("resolved") + Bar("error")
                     + Bar("awaiting_approval") + Bar("investigating")
    <2> DEFINE r == P("resolved") \ D
               e == P("error") \ D
               a == P("awaiting_approval") \ D
               i == P("investigating") \ D
               ai == a \cup i
               eai == e \cup ai
               reai == r \cup eai
    <2>1. D \cap reai = {} /\ r \cap eai = {} /\ e \cap ai = {} /\ a \cap i = {}
      BY <1>13
    <2>2. ai \subseteq V /\ eai \subseteq V /\ reai \subseteq V
      BY <1>9
    <2>3. Splits(V, D, reai) /\ Splits(reai, r, eai) /\ Splits(eai, e, ai) /\ Splits(ai, a, i)
      BY <1>12, <2>1 DEF Splits
    <2>4. /\ Len(uncharted) = Cardinality(D)
          /\ Bar("resolved") = Cardinality(r) /\ Bar("error") = Cardinality(e)
          /\ Bar("awaiting_approval") = Cardinality(a)
          /\ Bar("investigating") = Cardinality(i)
      BY <1>10, <1>11
    <2> HIDE DEF r, e, a, i, ai, eai, reai
    <2>5. Cardinality(ai) = Cardinality(a) + Cardinality(i)
          /\ Cardinality(a) \in Nat /\ Cardinality(i) \in Nat
      BY <1>8, <2>2, <2>3, SumOfTwo
    <2>6. Cardinality(eai) = Cardinality(e) + Cardinality(ai) /\ Cardinality(e) \in Nat
      BY <1>8, <2>2, <2>3, SumOfTwo
    <2>7. Cardinality(reai) = Cardinality(r) + Cardinality(eai) /\ Cardinality(r) \in Nat
      BY <1>8, <2>2, <2>3, SumOfTwo
    <2>8. Cardinality(V) = Cardinality(D) + Cardinality(reai) /\ Cardinality(D) \in Nat
      BY <1>8, <2>2, <2>3, SumOfTwo
    <2> QED BY <1>8, <2>4, <2>5, <2>6, <2>7, <2>8
  <1>20. FiguresAgree(hub, s, now, n)
    BY <1>6, <1>7, <1>17, <1>18, <1>19 DEF HubShows
  <1> QED BY <1>20 DEF hub

-----------------------------------------------------------------------------
\* The span that ends last is in the list, and none ends later.
LEMMA LatestEndsLast ==
    ASSUME NEW r, r \in Seq(ToSet(r)), r # <<>>, \A x \in ToSet(r) : EndTime(x) \in Int
    PROVE  /\ LatestEnding(r) \in ToSet(r)
           /\ \A x \in ToSet(r) : EndTime(x) <= EndTime(LatestEnding(r))
  <1> DEFINE n == Len(r)
             e == [i \in 1..n |-> EndTime(r[i])]
             First(i) == \A j \in DOMAIN r : EndTime(r[j]) < EndTime(r[i])
                                            \/ (EndTime(r[j]) = EndTime(r[i]) /\ i <= j)
             m == CHOOSE i \in DOMAIN r : First(i)
  <1>1. n \in Nat /\ n > 0 /\ DOMAIN r = 1..n
    OBVIOUS
  <1>2. \A i \in 1..n : r[i] \in ToSet(r) /\ EndTime(r[i]) \in Int
    BY <1>1 DEF ToSet
  <1>3. PICK i \in 1..n : Tops(i, e, n)
    <2>1. \A i \in 1..n : e[i] \in Int
      BY <1>2
    <2> HIDE DEF e, n
    <2> QED BY <1>1, <2>1, LargestExists
  <1>4. First(i)
    BY <1>1, <1>3 DEF Tops
  <1>5. m \in DOMAIN r /\ First(m)
    <2> HIDE DEF First
    <2> QED BY <1>1, <1>4
  <1>6. LatestEnding(r) = r[m]
    BY DEF LatestEnding, FirstMax
  <1> HIDE DEF m
  <1>7. \A x \in ToSet(r) : EndTime(x) <= EndTime(r[m])
    <2> SUFFICES ASSUME NEW j \in DOMAIN r PROVE EndTime(r[j]) <= EndTime(r[m])
      BY DEF ToSet
    <2>1. EndTime(r[j]) \in Int /\ EndTime(r[m]) \in Int
      BY <1>1, <1>2, <1>5
    <2> QED BY <1>5, <2>1
  <1> QED BY <1>1, <1>2, <1>5, <1>6, <1>7

Ids(s) == {x.id : x \in ToSet(s)}

\* A span's parent is one of the trace or none.
LEMMA ParentsAreIn ==
    ASSUME NEW s, IsTrace(s), NEW x \in ToSet(s)
    PROVE  ParentOf(x, s) \in Ids(s) \cup {NoParent}
  <1> DEFINE T == {p \in ToSet(x.parents) : p \in Ids(s)}
             inside == Those(x.parents, T)
  <1>1. ParentOf(x, s) = IF inside = <<>> THEN NoParent ELSE inside[1]
    BY DEF ParentOf, Kept, Ids
  <1>2. x.parents \in Seq(ToSet(x.parents))
    BY DEF IsTrace
  <1>3. Reads(inside, x.parents, At(x.parents, T), Below)
    BY <1>2, ThoseRead
  <1>4. At(x.parents, T) \in SUBSET (1..Len(x.parents))
    BY DEF At
  <1> HIDE DEF inside, T
  <1>5. ASSUME inside # <<>> PROVE inside[1] \in Ids(s)
    <2>1. PICK k \in At(x.parents, T) : inside[1] = x.parents[k]
      BY <1>2, <1>3, <1>4, <1>5, BelowIsOneWay, ReadingFirst
    <2> QED BY <2>1 DEF At, T
  <1> QED BY <1>1, <1>5

\* A span is found by its id.
LEMMA SpanFound ==
    ASSUME NEW s, IsTrace(s), NEW x \in ToSet(s)
    PROVE  SpanOf(x.id, s) = x /\ Parents(s)[x.id] = ParentOf(x, s)
  <1>1. \A y \in ToSet(s) : y.id = x.id => y = x
    BY DEF IsTrace, ToSet
  <1>2. SpanOf(x.id, s) = x
    BY <1>1 DEF SpanOf
  <1> QED BY <1>2 DEF Parents

\* The children of a span are found, and the roots.
ChildrenOf(s, id) == Those(s, {x \in ToSet(s) : ParentOf(x, s) = id})

\* The children of a span are those that have it as their parent.
LEMMA ChildrenFound ==
    ASSUME NEW s, IsTrace(s), NEW id
    PROVE  /\ ChildrenOf(s, id) \in Seq(ToSet(ChildrenOf(s, id)))
           /\ \A x : x \in ToSet(ChildrenOf(s, id)) <=> x \in ToSet(s) /\ ParentOf(x, s) = id
           /\ ChildrenOf(s, id) = <<>> <=> \A x \in ToSet(s) : ParentOf(x, s) # id
  <1> DEFINE T == {x \in ToSet(s) : ParentOf(x, s) = id}
             kids == ChildrenOf(s, id)
             K == At(s, T)
  <1>1. s \in Seq(ToSet(s)) /\ DOMAIN s = 1..Len(s)
    BY DEF IsTrace
  <1>2. K \in SUBSET (1..Len(s))
    BY DEF At
  <1>3. Reads(kids, s, K, Below)
    BY <1>1, ThoseRead DEF ChildrenOf
  <1>4. \A y : y \in T <=> \E k \in K : y = s[k]
    BY <1>1 DEF At, ToSet
  <1> HIDE DEF kids, K, T
  <1>5. kids \in Seq(ToSet(s)) /\ Shows(kids, s, K)
    BY <1>1, <1>2, <1>3, BelowIsOneWay, ReadingShape
  <1>6. kids \in Seq(ToSet(kids))
    BY <1>5, SequencesOfElements
  <1>7. \A x : x \in ToSet(kids) <=> x \in T
    BY <1>4, <1>5 DEF Shows
  <1>8. kids = <<>> <=> K = {}
    BY <1>1, <1>2, <1>3, BelowIsOneWay, NothingRead
  <1>9. K = {} <=> T = {}
    BY <1>4 DEF K, At
  <1> QED BY <1>6, <1>7, <1>8, <1>9 DEF T, kids

\* The child that ends last ends after its siblings.
LEMMA LatestChild ==
    ASSUME NEW s, IsTrace(s), NEW id, ChildrenOf(s, id) # <<>>
    PROVE  /\ LatestEnding(ChildrenOf(s, id)) \in ToSet(s)
           /\ ParentOf(LatestEnding(ChildrenOf(s, id)), s) = id
           /\ \A x \in ToSet(s) : ParentOf(x, s) = id =>
                 EndTime(x) <= EndTime(LatestEnding(ChildrenOf(s, id)))
  <1> DEFINE kids == ChildrenOf(s, id)
  <1>1. \A x \in ToSet(s) : EndTime(x) \in Int
    BY DEF IsTrace, EndTime
  <1>2. \A x \in ToSet(kids) : EndTime(x) \in Int
    BY <1>1, ChildrenFound
  <1>3. kids \in Seq(ToSet(kids))
    BY ChildrenFound
  <1> HIDE DEF kids
  <1>4. LatestEnding(kids) \in ToSet(kids)
        /\ \A x \in ToSet(kids) : EndTime(x) <= EndTime(LatestEnding(kids))
    BY <1>2, <1>3, LatestEndsLast DEF kids
  <1>5. \A x : x \in ToSet(kids) <=> x \in ToSet(s) /\ ParentOf(x, s) = id
    BY ChildrenFound DEF kids
  <1> QED BY <1>4, <1>5 DEF kids

HasRoot(s) == \E x \in ToSet(s) : ParentOf(x, s) = NoParent

\* What the walk goes on to is the latest child.
LEMMA GoesOn ==
    ASSUME NEW s, IsTrace(s), NEW id \in Ids(s)
    PROVE  NextOn(s)[id] = IF ChildrenOf(s, id) = <<>> THEN NoParent
                           ELSE LatestEnding(ChildrenOf(s, id)).id
  BY DEF NextOn, Kept, ChildrenOf, Ids

\* A trace with a root has its walk start at one.
LEMMA StartsAtRoot ==
    ASSUME NEW s, IsTrace(s), HasRoot(s)
    PROVE  Roots(s) = ChildrenOf(s, NoParent) /\ ChildrenOf(s, NoParent) # <<>>
  <1>1. ChildrenOf(s, NoParent) # <<>>
    BY ChildrenFound DEF HasRoot
  <1> QED BY <1>1 DEF Roots, Kept, ChildrenOf

\* at[k] is where the walk of s is after k rounds.
Walks(at, s) ==
    /\ at[0] = LatestEnding(ChildrenOf(s, NoParent)).id
    /\ \A k \in 1..Len(s) :
          at[k] = IF at[k - 1] = NoParent THEN NoParent ELSE NextOn(s)[at[k - 1]]

\* The path that a walk is
PathAlong(at, s) ==
    LET w == [n \in 1..Len(s) |-> at[n - 1]]
    IN  IF at[Len(s)] # NoParent THEN Endless ELSE Those(w, {id \in ToSet(w) : id # NoParent})

\* The walk, as a function of the rounds done.
LEMMA WalkUnfolds ==
    ASSUME NEW s, IsTrace(s), HasRoot(s)
    PROVE  \E at \in [0..Len(s) -> Ids(s) \cup {NoParent}] :
              Walks(at, s) /\ CriticalPath(s) = PathAlong(at, s)
  <1> DEFINE N == Len(s)
             S == Ids(s) \cup {NoParent}
             c == LatestEnding(Roots(s)).id
             onto == NextOn(s)
             step == [p \in S \X (1..N) |-> IF p[1] = NoParent THEN NoParent ELSE onto[p[1]]]
             Def(f) == [n \in 0..N |->
                          IF n = 0 THEN c
                          ELSE IF f[n - 1] = NoParent THEN NoParent ELSE onto[f[n - 1]]]
             at == CHOOSE g : g = Def(g)
  <1>1. CriticalPath(s) = PathAlong(at, s)
    BY DEF CriticalPath, PathAlong, Kept
  <1>2. N \in Nat
    BY DEF IsTrace
  <1>3. c \in S
    <2>1. LatestEnding(ChildrenOf(s, NoParent)) \in ToSet(s)
      BY StartsAtRoot, LatestChild
    <2> QED BY <2>1, StartsAtRoot DEF Ids
  <1>4. \A id \in Ids(s) : onto[id] \in S
    <2> TAKE id \in Ids(s)
    <2>1. CASE ChildrenOf(s, id) = <<>>
      BY <2>1, GoesOn
    <2>2. CASE ChildrenOf(s, id) # <<>>
      <3>1. LatestEnding(ChildrenOf(s, id)) \in ToSet(s)
        BY <2>2, LatestChild
      <3> QED BY <2>2, <3>1, GoesOn DEF Ids
    <2> QED BY <2>1, <2>2
  <1> HIDE DEF N, S, c, onto
  <1>5. step \in [S \X (1..N) -> S]
    BY <1>4 DEF S
  <1>6. PICK f \in [0..N -> S] : Unfolds(f, N, c, step)
    <2> HIDE DEF step
    <2> QED BY <1>2, <1>3, <1>5, Recursion
  <1>7. \A n \in 1..N : f[n - 1] \in S
    <2>1. \A n \in 1..N : n - 1 \in 0..N
      BY <1>2
    <2> QED BY <1>6, <2>1
  <1>8. \A n \in 1..N : f[n] = IF f[n - 1] = NoParent THEN NoParent ELSE onto[f[n - 1]]
    <2>1. \A n \in 1..N : f[n] = step[<<f[n - 1], n>>]
      BY <1>6 DEF Unfolds
    <2> QED BY <1>7, <2>1
  <1>9. f = Def(f)
    <2>1. \A n \in 0..N : f[n] = Def(f)[n]
      BY <1>2, <1>6, <1>8 DEF Unfolds
    <2>2. f = [n \in 0..N |-> f[n]]
      BY <1>6
    <2>3. Def(f) = [n \in 0..N |-> Def(f)[n]]
      OBVIOUS
    <2> HIDE DEF Def
    <2> QED BY <2>1, <2>2, <2>3
  <1>10. at = Def(at)
    <2> HIDE DEF Def
    <2> QED BY <1>9
  <1>11. at[0] = c /\ \A n \in 1..N :
            at[n] = IF at[n - 1] = NoParent THEN NoParent ELSE onto[at[n - 1]]
    <2> DEFINE d == Def(at)
    <2>1. d[0] = c /\ \A n \in 1..N :
             d[n] = IF at[n - 1] = NoParent THEN NoParent ELSE onto[at[n - 1]]
      <3> HIDE DEF at
      <3> QED BY <1>2
    <2> HIDE DEF at, d
    <2> QED BY <2>1, <1>10 DEF d
  <1>12. at = [n \in 0..N |-> at[n]]
    <2> HIDE DEF at
    <2> QED BY <1>10
  <1> HIDE DEF at, Def, step
  <1> DEFINE T == {n \in 0..N : at[n] \in S}
  <1>13. 0..N \subseteq T
    <2>1. 0 \in T
      BY <1>2, <1>3, <1>11
    <2>2. \A n \in 0..(N - 1) : n \in T => n + 1 \in T
      <3> SUFFICES ASSUME NEW n \in 0..(N - 1), at[n] \in S PROVE n + 1 \in T
        OBVIOUS
      <3>1. n + 1 \in 1..N /\ (n + 1) - 1 = n /\ n + 1 \in 0..N
        BY <1>2
      <3>2. at[n + 1] = IF at[n] = NoParent THEN NoParent ELSE onto[at[n]]
        BY <3>1, <1>11
      <3>3. at[n + 1] \in S
        BY <3>2, <1>4 DEF S
      <3> QED BY <3>1, <3>3
    <2> HIDE DEF T
    <2> QED BY <1>2, <2>1, <2>2, UpTo
  <1>14. at \in [0..N -> S]
    BY <1>12, <1>13
  <1>15. Walks(at, s)
    BY <1>11, StartsAtRoot DEF Walks, N, c, onto
  <1> QED BY <1>1, <1>14, <1>15 DEF N, S

\* Neither a sibling of a span nor, of a root, another root ends later.
EndsLast(id, s) ==
    \A x \in ToSet(s) : Parents(s)[x.id] = Parents(s)[id] => EndTime(x) <= EndTime(SpanOf(id, s))

\* The span gone on to is a child, and ends last of its siblings.
LEMMA LatestChildIsOne ==
    ASSUME NEW s, IsTrace(s), NEW id, ChildrenOf(s, id) # <<>>,
           NEW c, c = LatestEnding(ChildrenOf(s, id)).id
    PROVE  c \in Ids(s) /\ Parents(s)[c] = id /\ EndsLast(c, s)
  <1> DEFINE x == LatestEnding(ChildrenOf(s, id))
  <1>1. /\ x \in ToSet(s) /\ ParentOf(x, s) = id
        /\ \A y \in ToSet(s) : ParentOf(y, s) = id => EndTime(y) <= EndTime(x)
    BY LatestChild
  <1> HIDE DEF x
  <1>2. SpanOf(x.id, s) = x /\ Parents(s)[x.id] = ParentOf(x, s)
    BY <1>1, SpanFound
  <1>3. \A y \in ToSet(s) : Parents(s)[y.id] = ParentOf(y, s)
    BY SpanFound
  <1>4. EndsLast(x.id, s)
    BY <1>1, <1>2, <1>3 DEF EndsLast
  <1>5. x.id \in Ids(s)
    BY <1>1 DEF Ids
  <1> QED BY <1>1, <1>2, <1>4, <1>5 DEF x

\* A walk goes from parent to child.
LEMMA WalkGoesDown ==
    ASSUME NEW s, IsTrace(s), HasRoot(s), NEW at \in [0..Len(s) -> Ids(s) \cup {NoParent}],
           Walks(at, s)
    PROVE  /\ at[0] \in Ids(s) /\ Parents(s)[at[0]] = NoParent /\ EndsLast(at[0], s)
           /\ \A k \in 1..Len(s) : at[k] # NoParent =>
                 /\ at[k - 1] # NoParent
                 /\ Parents(s)[at[k]] = at[k - 1] /\ EndsLast(at[k], s)
           /\ \A k \in 1..Len(s) : at[k] = NoParent /\ at[k - 1] # NoParent =>
                 \A x \in ToSet(s) : Parents(s)[x.id] # at[k - 1]
  <1>1. at[0] = LatestEnding(ChildrenOf(s, NoParent)).id
    BY DEF Walks
  <1>2. at[0] \in Ids(s) /\ Parents(s)[at[0]] = NoParent /\ EndsLast(at[0], s)
    BY <1>1, StartsAtRoot, LatestChildIsOne
  <1>3. NoParent \notin Ids(s) /\ Len(s) \in Nat
    BY DEF Ids, IsTrace
  <1>4. ASSUME NEW k \in 1..Len(s), at[k - 1] # NoParent
        PROVE  at[k - 1] \in Ids(s)
               /\ at[k] = IF ChildrenOf(s, at[k - 1]) = <<>> THEN NoParent
                          ELSE LatestEnding(ChildrenOf(s, at[k - 1])).id
    <2>1. k - 1 \in 0..Len(s)
      BY <1>3
    <2>2. at[k - 1] \in Ids(s)
      BY <1>4, <2>1
    <2>3. at[k] = NextOn(s)[at[k - 1]]
      BY <1>4 DEF Walks
    <2> QED BY <2>2, <2>3, GoesOn
  <1>5. ASSUME NEW k \in 1..Len(s), at[k] # NoParent
        PROVE  /\ at[k - 1] # NoParent
               /\ Parents(s)[at[k]] = at[k - 1] /\ EndsLast(at[k], s)
    <2>1. at[k - 1] # NoParent
      BY <1>5 DEF Walks
    <2>2. ChildrenOf(s, at[k - 1]) # <<>> /\ at[k] = LatestEnding(ChildrenOf(s, at[k - 1])).id
      BY <1>4, <1>5, <2>1
    <2> QED BY <2>1, <2>2, LatestChildIsOne
  <1>6. ASSUME NEW k \in 1..Len(s), at[k] = NoParent, at[k - 1] # NoParent, NEW x \in ToSet(s)
        PROVE  Parents(s)[x.id] # at[k - 1]
    <2>1. ChildrenOf(s, at[k - 1]) = <<>>
      <3> SUFFICES ASSUME ChildrenOf(s, at[k - 1]) # <<>> PROVE FALSE
        OBVIOUS
      <3>1. at[k] = LatestEnding(ChildrenOf(s, at[k - 1])).id
        BY <1>4, <1>6
      <3> QED BY <3>1, <1>3, <1>6, LatestChildIsOne
    <2> QED BY <2>1, ChildrenFound, SpanFound
  <1> QED BY <1>2, <1>5, <1>6

\* A walk from a root comes to an end: were it to meet a span again, it would have met
\* that span's parent again, and a root has none.
LEMMA WalkEnds ==
    ASSUME NEW s, IsTrace(s), HasRoot(s), NEW at \in [0..Len(s) -> Ids(s) \cup {NoParent}],
           Walks(at, s)
    PROVE  at[Len(s)] = NoParent
  <1> DEFINE N == Len(s)
             up == Parents(s)
  <1>1. N \in Nat /\ NoParent \notin Ids(s)
    BY DEF Ids, IsTrace
  <1>2. at[0] # NoParent /\ up[at[0]] = NoParent
    BY <1>1, WalkGoesDown
  <1>3. \A k \in 1..N : at[k] # NoParent => at[k - 1] # NoParent /\ up[at[k]] = at[k - 1]
    BY WalkGoesDown
  <1> SUFFICES ASSUME at[N] # NoParent PROVE FALSE
    OBVIOUS
  <1> HIDE DEF up
  <1>4. \A k \in 0..N : at[k] # NoParent
    <2> DEFINE T == {m \in 0..N : at[N - m] # NoParent}
    <2>1. 0 \in T
      BY <1>1
    <2>2. \A m \in 0..(N - 1) : m \in T => m + 1 \in T
      <3> SUFFICES ASSUME NEW m \in 0..(N - 1), at[N - m] # NoParent
                   PROVE  m + 1 \in 0..N /\ at[N - (m + 1)] # NoParent
        OBVIOUS
      <3>1. N - m \in 1..N /\ (N - m) - 1 = N - (m + 1)
        BY <1>1
      <3> QED BY <1>1, <1>3, <3>1
    <2> HIDE DEF T
    <2>3. 0..N \subseteq T
      BY <1>1, <2>1, <2>2, UpTo
    <2> SUFFICES ASSUME NEW k \in 0..N PROVE at[k] # NoParent
      OBVIOUS
    <2>4. N - k \in T /\ N - (N - k) = k
      BY <1>1, <2>3
    <2> QED BY <2>4 DEF T
  <1> DEFINE Again(i) == \E j \in 0..N : i < j /\ at[i] = at[j]
             M == {i \in 0..N : Again(i)}
  <1>5. M # {}
    <2>1. IsFiniteSet(Ids(s)) /\ Cardinality(Ids(s)) <= N
      <3> DEFINE g == [i \in 1..N |-> s[i].id]
      <3>1. g \in Surjection(1..N, Ids(s))
        <4>1. DOMAIN s = 1..N
          BY DEF IsTrace
        <4> QED BY <4>1 DEF Surjection, Ids, ToSet
      <3>2. IsFiniteSet(1..N) /\ Cardinality(1..N) = N
        BY <1>1, PlacesCount
      <3> HIDE DEF g, N
      <3> QED BY <3>1, <3>2, FS_Surjection
    <2>2. IsFiniteSet(0..N) /\ Cardinality(0..N) = N + 1
      BY <1>1, FS_Interval
    <2>3. at \in [0..N -> Ids(s)]
      BY <1>4
    <2>4. Cardinality(Ids(s)) < Cardinality(0..N)
      BY <1>1, <2>1, <2>2, FS_CardinalityType
    <2> HIDE DEF N
    <2>5. PICK i, j \in 0..N : i # j /\ at[i] = at[j]
      BY <2>1, <2>2, <2>3, <2>4, FS_PigeonHole, ZenonT(60)
    <2> QED BY <1>1, <2>5
  <1>6. PICK i \in M : \A k \in M : i <= k
    <2>1. M \in SUBSET Nat
      BY <1>1
    <2> HIDE DEF M
    <2> QED BY <1>5, <2>1, LeastNatural
  <1>7. PICK j \in 0..N : i < j /\ at[i] = at[j]
    OBVIOUS
  <1>8. j \in 1..N /\ up[at[j]] = at[j - 1] /\ j - 1 \in 0..N
    <2>1. j \in 1..N /\ j - 1 \in 0..N
      BY <1>1, <1>7
    <2> QED BY <1>3, <1>4, <2>1
  <1>9. CASE i = 0
    BY <1>2, <1>4, <1>7, <1>8, <1>9
  <1>10. CASE i # 0
    <2>1. i \in 1..N /\ i - 1 \in 0..N /\ i - 1 < j - 1 /\ i - 1 < i
      BY <1>1, <1>7, <1>8, <1>10
    <2>2. at[i - 1] = at[j - 1]
      BY <1>3, <1>4, <1>7, <1>8, <2>1
    <2>3. i - 1 \in M
      BY <1>8, <2>1, <2>2
    <2>4. ~(i <= i - 1)
      BY <2>1
    <2> HIDE DEF M
    <2> QED BY <1>6, <2>3, <2>4
  <1> QED BY <1>9, <1>10

\* The path is the walk up to where it ends.
LEMMA PathOfWalk ==
    ASSUME NEW s, IsTrace(s), HasRoot(s), NEW at \in [0..Len(s) -> Ids(s) \cup {NoParent}],
           Walks(at, s)
    PROVE  \E L \in 1..Len(s) :
              /\ PathAlong(at, s) = [i \in 1..L |-> at[i - 1]]
              /\ at[L] = NoParent /\ \A k \in 0..(L - 1) : at[k] \in Ids(s)
  <1> DEFINE N == Len(s)
             M == {m \in 0..N : at[m] = NoParent}
             w == [n \in 1..N |-> at[n - 1]]
             T == {id \in ToSet(w) : id # NoParent}
             K == At(w, T)
  <1>1. N \in Nat /\ NoParent \notin Ids(s)
    BY DEF Ids, IsTrace
  <1>2. at[N] = NoParent
    BY WalkEnds
  <1>3. at[0] # NoParent /\ \A k \in 1..N : at[k] # NoParent => at[k - 1] # NoParent
    BY <1>1, WalkGoesDown
  <1>4. PICK L \in M : \A m \in M : L <= m
    <2>1. M \in SUBSET Nat /\ M # {}
      BY <1>1, <1>2
    <2> HIDE DEF M
    <2> QED BY <2>1, LeastNatural
  <1>5. L \in 1..N /\ at[L] = NoParent
    BY <1>1, <1>3
  <1>6. \A k \in 0..(L - 1) : at[k] \in Ids(s)
    <2> SUFFICES ASSUME NEW k \in 0..(L - 1), at[k] = NoParent PROVE FALSE
      <3>1. \A k \in 0..(L - 1) : k \in 0..N
        BY <1>1, <1>5
      <3> QED BY <3>1
    <2>1. k \in M /\ ~(L <= k)
      BY <1>1, <1>5
    <2> QED BY <1>4, <2>1
  <1>7. \A k \in L..N : at[k] = NoParent
    <2> DEFINE U == {m \in 0..(N - L) : at[L + m] = NoParent}
    <2>1. 0 \in U
      BY <1>1, <1>5
    <2>2. \A m \in 0..((N - L) - 1) : m \in U => m + 1 \in U
      <3> SUFFICES ASSUME NEW m \in 0..((N - L) - 1), at[L + m] = NoParent
                   PROVE  m + 1 \in 0..(N - L) /\ at[L + (m + 1)] = NoParent
        OBVIOUS
      <3>1. L + (m + 1) \in 1..N /\ (L + (m + 1)) - 1 = L + m /\ m + 1 \in 0..(N - L)
        BY <1>1, <1>5
      <3> QED BY <1>3, <3>1
    <2> HIDE DEF U
    <2>3. N - L \in Nat
      BY <1>1, <1>5
    <2>4. 0..(N - L) \subseteq U
      BY <2>1, <2>2, <2>3, UpTo
    <2> SUFFICES ASSUME NEW k \in L..N PROVE at[k] = NoParent
      OBVIOUS
    <2>5. k - L \in U /\ L + (k - L) = k
      BY <1>1, <1>5, <2>4
    <2> QED BY <2>5 DEF U
  <1>8. w \in Seq(ToSet(w)) /\ Len(w) = N /\ DOMAIN w = 1..N
    <2>1. w = [n \in 1..N |-> w[n]]
      OBVIOUS
    <2> HIDE DEF w
    <2> QED BY <1>1, <2>1, FunctionIsList
  <1>9. K = 1..L
    <2>1. ASSUME NEW k \in 1..N PROVE k \in K <=> k <= L
      <3>1. w[k] \in ToSet(w) /\ w[k] = at[k - 1]
        BY <1>8 DEF ToSet
      <3>2. k <= L => at[k - 1] # NoParent
        <4>1. k <= L => k - 1 \in 0..(L - 1)
          BY <1>5
        <4> QED BY <4>1, <1>1, <1>6
      <3>3. ~(k <= L) => at[k - 1] = NoParent
        <4>1. ~(k <= L) => k - 1 \in L..N
          BY <1>1, <1>5
        <4> QED BY <4>1, <1>7
      <3> QED BY <3>1, <3>2, <3>3, <1>8 DEF At
    <2>2. K \subseteq 1..N
      BY <1>8 DEF At
    <2> HIDE DEF K, M, T, w
    <2>3. L \in Nat /\ L <= N
      BY <1>1, <1>5
    <2> HIDE DEF N
    <2>4. K \subseteq 1..L
      <3> SUFFICES ASSUME NEW k \in K PROVE k \in 1..L
        OBVIOUS
      <3>1. k \in 1..N /\ k <= L
        BY <2>1, <2>2
      <3> QED BY <1>1, <2>3, <3>1
    <2>5. 1..L \subseteq K
      <3> SUFFICES ASSUME NEW k \in 1..L PROVE k \in K
        OBVIOUS
      <3>1. k \in 1..N /\ k <= L
        BY <1>1, <2>3
      <3> QED BY <2>1, <3>1
    <2> QED BY <2>4, <2>5
  <1> DEFINE path == Those(w, T)
  <1>10. PathAlong(at, s) = path
    BY <1>2 DEF PathAlong
  <1>11. \A n \in 1..N : w[n] = at[n - 1]
    OBVIOUS
  <1> HIDE DEF w, T, M
  <1>12. PICK x : Enumerates(x, K, Below) /\ ReadAt(path, w, x)
    BY <1>8, ThoseRead DEF Reads
  <1> DEFINE y == [i \in 1..L |-> i]
  <1>13. Enumerates(y, 1..L, Below) /\ Len(y) = L /\ \A i \in 1..L : y[i] = i
    BY <1>5 DEF Enumerates, Below
  <1> HIDE DEF y, K, path
  <1>14. x = y
    BY <1>9, <1>12, <1>13, BelowIsOneWay, SameEnumeration
  <1>15. path = [i \in 1..L |-> at[i - 1]]
    <2>1. path = [i \in 1..L |-> w[y[i]]]
      BY <1>12, <1>13, <1>14 DEF ReadAt
    <2>2. \A i \in 1..L : w[y[i]] = at[i - 1]
      BY <1>1, <1>5, <1>11, <1>13
    <2> QED BY <2>1, <2>2
  <1> QED BY <1>5, <1>6, <1>10, <1>15

\* What get_critical_path returns is the critical path, for any trace with a root.
LEMMA CriticalPathFound ==
    ASSUME NEW s, IsTrace(s), HasRoot(s)
    PROVE  IsCriticalPath(PathOf(s), s)
  <1>1. PICK at \in [0..Len(s) -> Ids(s) \cup {NoParent}] :
           Walks(at, s) /\ CriticalPath(s) = PathAlong(at, s)
    BY WalkUnfolds
  <1>2. PICK L \in 1..Len(s) :
              /\ PathAlong(at, s) = [i \in 1..L |-> at[i - 1]]
              /\ at[L] = NoParent /\ \A k \in 0..(L - 1) : at[k] \in Ids(s)
    BY <1>1, PathOfWalk
  <1> DEFINE path == [i \in 1..L |-> at[i - 1]]
             up == Parents(s)
  <1>3. Len(s) \in Nat /\ NoParent \notin Ids(s)
    BY DEF Ids, IsTrace
  <1>4. PathOf(s) = path
    <2>1. s # <<>>
      BY <1>2, <1>3
    <2> QED BY <1>1, <1>2, <2>1 DEF PathOf
  <1>5. path \in Seq(Ids(s)) /\ Len(path) = L /\ \A i \in 1..L : path[i] = at[i - 1]
    <2>1. \A i \in 1..L : at[i - 1] \in Ids(s)
      BY <1>2, <1>3
    <2> QED BY <2>1, <1>3
  <1> HIDE DEF path
  <1>6. path # Endless
    BY <1>5 DEF IsTrace, Ids
  <1>7. up[path[1]] = NoParent
    BY <1>1, <1>3, <1>5, WalkGoesDown, SMTT(30)
  <1>8. \A i \in 1..(Len(path) - 1) : up[path[i + 1]] = path[i]
    <2> TAKE i \in 1..(Len(path) - 1)
    <2>1. i \in 1..L /\ i + 1 \in 1..L /\ (i + 1) - 1 = i /\ i \in 1..Len(s) /\ i \in 0..(L - 1)
      BY <1>3, <1>5
    <2>2. at[i] # NoParent
      BY <1>2, <1>3, <2>1
    <2>3. up[at[i]] = at[i - 1]
      BY <1>1, <2>1, <2>2, WalkGoesDown
    <2> QED BY <1>5, <2>1, <2>3
  <1>9. \A i \in DOMAIN path : EndsLast(path[i], s)
    <2> SUFFICES ASSUME NEW i \in 1..L PROVE EndsLast(at[i - 1], s)
      BY <1>5
    <2>1. CASE i = 1
      BY <2>1, <1>1, WalkGoesDown
    <2>2. CASE i # 1
      <3>1. i - 1 \in 1..Len(s) /\ i - 1 \in 0..(L - 1)
        BY <1>3, <2>2
      <3>2. at[i - 1] # NoParent
        BY <1>2, <1>3, <3>1
      <3> QED BY <1>1, <3>1, <3>2, WalkGoesDown
    <2> QED BY <2>1, <2>2
  <1>10. \A x \in ToSet(s) : up[x.id] # Last(path)
    <2>1. Last(path) = at[L - 1] /\ L - 1 \in 0..(L - 1)
      BY <1>3, <1>5 DEF Last
    <2>2. at[L - 1] # NoParent
      BY <1>2, <1>3, <2>1
    <2> QED BY <1>1, <1>2, <2>1, <2>2, WalkGoesDown, SMTT(30)
  <1>11. IsCriticalPath(path, s)
    BY <1>6, <1>7, <1>8, <1>9, <1>10 DEF IsCriticalPath, EndsLast
  <1> QED BY <1>4, <1>11

-----------------------------------------------------------------------------
\* Anomalies

\* A service's history, without what is not a number, is a list of numbers.
LEMMA PointsAreNumbers ==
    ASSUME NEW answer \in Seq(Seq(Int \cup {NaN}))
    PROVE  Points(answer) \in Seq(Int)
  <1> DEFINE all == FlattenSeq(answer)
             T == {v \in ToSet(all) : v # NaN}
             K == At(all, T)
  <1>1. all \in Seq(Int \cup {NaN})
    <2>1. PICK f \in [0..Len(answer) -> Seq(Int \cup {NaN})] : Joining(f, answer)
      BY FlattenUnfolds
    <2>2. Len(answer) \in 0..Len(answer)
      OBVIOUS
    <2> QED BY <2>1, <2>2 DEF Joining
  <1>2. Points(answer) = Those(all, T)
    BY DEF Points, Kept
  <1> HIDE DEF all
  <1>3. Reads(Those(all, T), all, K, Below)
    BY <1>1, ThoseRead
  <1>4. K \in SUBSET (1..Len(all)) /\ Len(all) \in Nat
    BY <1>1 DEF At
  <1> DEFINE r == Those(all, T)
  <1>5. r \in Seq(Int \cup {NaN}) /\ Shows(r, all, K)
    <2> HIDE DEF r, T, K
    <2>1. Reads(r, all, K, Below)
      BY <1>3 DEF r
    <2> QED BY <1>1, <1>4, <2>1, BelowIsOneWay, ReadingShape
  <1>6. \A i \in 1..Len(r) : r[i] \in Int
    <2> TAKE i \in 1..Len(r)
    <2>1. r[i] \in ToSet(r)
      <3> HIDE DEF r, T
      <3> QED BY <1>5 DEF ToSet
    <2>2. PICK k \in K : r[i] = all[k]
      BY <1>5, <2>1 DEF Shows
    <2>3. all[k] \in T /\ all[k] \in Int \cup {NaN}
      BY <1>1, <2>2 DEF At
    <2> QED BY <2>2, <2>3
  <1> QED BY <1>2, <1>5, <1>6

\* f[k] is the sum of the first k numbers of b, g[k] that of their squares.
Sums(f, g, b) ==
    /\ f[0] = 0 /\ g[0] = 0
    /\ \A k \in 1..Len(b) : f[k] = f[k - 1] + b[k] /\ g[k] = g[k - 1] + b[k] * b[k]
    /\ Total(b) = f[Len(b)] /\ Total(Squares(b)) = g[Len(b)]

\* The sums of the numbers and of their squares, as functions of the rounds done.
LEMMA SumsExist ==
    ASSUME NEW b \in Seq(Int)
    PROVE  \E f, g \in [0..Len(b) -> Int] : Sums(f, g, b)
  <1>1. PICK f \in [0..Len(b) -> Int] : Summing(f, b)
    BY TotalUnfolds
  <1> DEFINE q == Squares(b)
  <1>2. q \in Seq(Int) /\ Len(q) = Len(b) /\ \A k \in 1..Len(b) : q[k] = b[k] * b[k]
    <2>1. q = [k \in 1..Len(b) |-> b[k] * b[k]]
      BY DEF Squares, Mapped
    <2>2. \A k \in 1..Len(b) : b[k] * b[k] \in Int
      OBVIOUS
    <2> HIDE DEF q
    <2> QED BY <2>1, <2>2
  <1> HIDE DEF q
  <1>3. PICK g \in [0..Len(q) -> Int] : Summing(g, q)
    BY <1>2, TotalUnfolds
  <1>4. g \in [0..Len(b) -> Int] /\ Sums(f, g, b)
    BY <1>1, <1>2, <1>3 DEF Summing, Sums, q
  <1> QED BY <1>4

\* The spread of m numbers of sum S and squares Q is not negative.
Spread(m, Q, S) ==
    /\ m \in Nat /\ Q \in Int /\ S \in Int
    /\ S * S <= m * Q
    /\ m = 0 => Q = 0 /\ S = 0

\* One more number does not bring the spread below zero.
LEMMA OneMoreSpreads ==
    ASSUME NEW m, NEW Q, NEW S, Spread(m, Q, S), NEW y \in Int
    PROVE  Spread(m + 1, Q + y * y, S + y)
  <1>1. m \in Nat /\ Q \in Int /\ S \in Int /\ S * S <= m * Q /\ (m = 0 => Q = 0 /\ S = 0)
    BY DEF Spread
  <1>2. 2 * (S * y) <= Q + m * (y * y)
    <2>1. CASE m = 0
      BY <1>1, <2>1
    <2>2. CASE m > 0
      <3> DEFINE d == Q + m * (y * y) - 2 * (S * y)
      <3>1. (S - m * y) * (S - m * y) >= 0
        BY <1>1
      <3>2. m * d - (m * Q - S * S) = (S - m * y) * (S - m * y)
        BY <1>1
      <3>3. m * d >= 0 /\ d \in Int
        BY <1>1, <3>1, <3>2
      <3> HIDE DEF d
      <3>4. d >= 0
        BY <1>1, <2>2, <3>3
      <3> QED BY <1>1, <3>4 DEF d
    <2> QED BY <1>1, <2>1, <2>2
  <1>3. (S + y) * (S + y) = S * S + 2 * (S * y) + y * y
    BY <1>1
  <1>4. (m + 1) * (Q + y * y) = m * Q + Q + m * (y * y) + y * y
    BY <1>1
  <1>5. (S + y) * (S + y) <= (m + 1) * (Q + y * y)
    <2>1. /\ S * S \in Int /\ m * Q \in Int /\ S * y \in Int /\ m * (y * y) \in Int
          /\ y * y \in Int
      BY <1>1
    <2> QED BY <1>1, <1>2, <1>3, <1>4, <2>1
  <1> QED BY <1>1, <1>5 DEF Spread

\* The numbers other than the one at place i are spread like any.
LEMMA OthersSpread ==
    ASSUME NEW b \in Seq(Int), NEW f \in [0..Len(b) -> Int], NEW g \in [0..Len(b) -> Int],
           Sums(f, g, b), NEW i \in 1..Len(b)
    PROVE  Spread(Len(b) - 1, Total(Squares(b)) - b[i] * b[i], Total(b) - b[i])
  <1> DEFINE n == Len(b)
             x == b[i]
             T == {k \in 0..n : IF k < i THEN Spread(k, g[k], f[k])
                                ELSE Spread(k - 1, g[k] - x * x, f[k] - x)}
  <1>1. n \in Nat /\ x \in Int /\ \A k \in 1..n : b[k] \in Int
    OBVIOUS
  <1>2. 0 \in T
    BY <1>1 DEF Sums, Spread
  <1>3. ASSUME NEW k \in 0..(n - 1), k \in T PROVE k + 1 \in T
    <2>1. k + 1 \in 1..n /\ k + 1 \in 0..n /\ (k + 1) - 1 = k /\ k \in 0..n
      BY <1>1
    <2>2. /\ f[k + 1] = f[k] + b[k + 1] /\ g[k + 1] = g[k] + b[k + 1] * b[k + 1]
          /\ f[k] \in Int /\ g[k] \in Int /\ b[k + 1] \in Int
      <3>1. \A j \in 1..n : f[j] = f[j - 1] + b[j] /\ g[j] = g[j - 1] + b[j] * b[j]
        BY DEF Sums
      <3>2. f[k] \in Int /\ g[k] \in Int /\ b[k + 1] \in Int
        BY <1>1, <2>1
      <3> HIDE DEF n, T, x
      <3> QED BY <2>1, <3>1, <3>2
    <2>3. CASE k + 1 < i
      <3>1. Spread(k, g[k], f[k])
        BY <1>1, <1>3, <2>3
      <3>2. Spread(k + 1, g[k] + b[k + 1] * b[k + 1], f[k] + b[k + 1])
        BY <2>2, <3>1, OneMoreSpreads
      <3> QED BY <2>1, <2>2, <2>3, <3>2
    <2>4. CASE k + 1 = i
      <3>1. Spread(k, g[k], f[k])
        BY <1>1, <1>3, <2>4
      <3>2. g[k + 1] - x * x = g[k] /\ f[k + 1] - x = f[k]
        BY <2>2, <2>4
      <3>3. ~(k + 1 < i)
        BY <2>4
      <3> QED BY <2>1, <3>1, <3>2, <3>3
    <2>5. CASE k + 1 > i
      <3>1. Spread(k - 1, g[k] - x * x, f[k] - x)
        BY <1>1, <1>3, <2>5
      <3>2. Spread((k - 1) + 1, (g[k] - x * x) + b[k + 1] * b[k + 1], (f[k] - x) + b[k + 1])
        BY <2>2, <3>1, OneMoreSpreads
      <3>3. /\ (k - 1) + 1 = (k + 1) - 1
            /\ (g[k] - x * x) + b[k + 1] * b[k + 1] = g[k + 1] - x * x
            /\ (f[k] - x) + b[k + 1] = f[k + 1] - x
        BY <1>1, <2>2, SMTT(30)
      <3>4. ~(k + 1 < i)
        BY <2>5
      <3> QED BY <2>1, <3>2, <3>3, <3>4
    <2> QED BY <1>1, <2>3, <2>4, <2>5
  <1> HIDE DEF T
  <1>4. n \in T
    <2>1. 0..n \subseteq T
      BY <1>1, <1>2, <1>3, UpTo
    <2> QED BY <1>1, <2>1
  <1>5. ~(n < i)
    BY <1>1
  <1> QED BY <1>4, <1>5 DEF T, Sums

\* So a number that is among n numbers is within n - 1 of their spreads (Samuelson).
LEMMA SeenIsNear ==
    ASSUME NEW n \in Nat \ {0}, NEW Q \in Int, NEW S \in Int, NEW x \in Int,
           Spread(n - 1, Q - x * x, S - x)
    PROVE  (n * x - S) * (n * x - S) <= (n - 1) * (n * Q - S * S)
  <1> DEFINE e == (n - 1) * (Q - x * x) - (S - x) * (S - x)
  <1>1. e \in Int /\ e >= 0
    BY DEF Spread
  <1>2. (n - 1) * (n * Q - S * S) - (n * x - S) * (n * x - S) = n * e
    OBVIOUS
  <1>3. n * e >= 0
    <2> HIDE DEF e
    <2> QED BY <1>1
  <1> QED BY <1>2, <1>3

\* What was seen is not flagged in a short history.
LEMMA SeenIsNotFlagged ==
    ASSUME NEW b \in Seq(Int), Threshold \in Nat, Len(b) <= Threshold * Threshold,
           NEW i \in 1..Len(b)
    PROVE  ~Deviates(b, b[i])
  <1> DEFINE n == Len(b)
             S == Total(b)
             Q == Total(Squares(b))
             spread == n * Q - S * S
             gap == n * b[i] - S
  <1>1. PICK f, g \in [0..n -> Int] : Sums(f, g, b)
    BY SumsExist
  <1>2. n \in Nat \ {0} /\ S \in Int /\ Q \in Int /\ b[i] \in Int
    BY <1>1 DEF Sums
  <1>3. Spread(n - 1, Q - b[i] * b[i], S - b[i])
    BY <1>1, OthersSpread
  <1>4. gap * gap <= (n - 1) * spread
    <2> HIDE DEF n, S, Q
    <2> QED BY <1>2, <1>3, SeenIsNear
  <1>5. gap \in Int /\ spread \in Int
    BY <1>2
  <1>6. Deviates(b, b[i]) <=> IF spread > 0 THEN gap * gap >= Threshold * Threshold * spread
                              ELSE gap # 0
    BY DEF Deviates
  <1>7. n <= Threshold * Threshold
    OBVIOUS
  <1> DEFINE t == Threshold * Threshold
  <1>8. t \in Nat
    OBVIOUS
  <1> HIDE DEF spread, gap, n, S, Q, t
  <1>9. CASE spread > 0
    <2>1. (n - 1) * spread < t * spread
      BY <1>2, <1>5, <1>7, <1>8, <1>9 DEF t
    <2>2. gap * gap \in Int /\ (n - 1) * spread \in Int /\ t * spread \in Int
      BY <1>2, <1>5, <1>8
    <2> QED BY <1>4, <1>6, <1>9, <2>1, <2>2 DEF t
  <1>10. CASE ~(spread > 0)
    <2>1. (n - 1) * spread <= 0
      BY <1>2, <1>5, <1>10
    <2>2. gap = 0
      <3>1. gap * gap <= 0
        <4>1. (n - 1) * spread \in Int /\ gap * gap \in Int
          BY <1>2, <1>5
        <4> QED BY <1>4, <2>1, <4>1
      <3> QED BY <1>5, <3>1
    <2> QED BY <1>6, <1>10, <2>2
  <1> QED BY <1>9, <1>10

\* A history that never moved is flagged exactly when it moves.
LEMMA FlatIsFlagged ==
    ASSUME NEW b \in Seq(Int), b # <<>>, NEW c \in Int, \A k \in 1..Len(b) : b[k] = c,
           NEW current \in Int
    PROVE  Deviates(b, current) <=> current # c
  <1> DEFINE n == Len(b)
             S == Total(b)
             Q == Total(Squares(b))
  <1>1. PICK f, g \in [0..n -> Int] : Sums(f, g, b)
    BY SumsExist
  <1>2. n \in Nat \ {0}
    OBVIOUS
  <1> DEFINE T == {k \in 0..n : f[k] = k * c /\ g[k] = k * (c * c)}
  <1>3. 0 \in T
    BY <1>1, <1>2 DEF Sums
  <1>4. ASSUME NEW k \in 0..(n - 1), k \in T PROVE k + 1 \in T
    <2>1. k + 1 \in 1..n /\ k + 1 \in 0..n /\ (k + 1) - 1 = k /\ k \in 0..n
      BY <1>2
    <2>2. \A j \in 1..n : f[j] = f[j - 1] + b[j] /\ g[j] = g[j - 1] + b[j] * b[j]
      BY <1>1 DEF Sums
    <2>3. f[k + 1] = f[k] + b[k + 1] /\ g[k + 1] = g[k] + b[k + 1] * b[k + 1]
      <3> HIDE DEF n, T
      <3> QED BY <2>1, <2>2
    <2>4. b[k + 1] = c /\ f[k] = k * c /\ g[k] = k * (c * c)
      BY <1>4, <2>1
    <2>5. k * c + c = (k + 1) * c /\ k * (c * c) + c * c = (k + 1) * (c * c)
      BY <2>1
    <2> QED BY <2>1, <2>3, <2>4, <2>5
  <1> HIDE DEF T
  <1>5. n \in T
    <2>1. 0..n \subseteq T
      BY <1>2, <1>3, <1>4, UpTo
    <2> QED BY <1>2, <2>1
  <1>6. S = n * c /\ Q = n * (c * c)
    BY <1>1, <1>5 DEF T, Sums
  <1>7. Deviates(b, current) <=>
          IF n * Q - S * S > 0
          THEN (n * current - S) * (n * current - S) >= Threshold * Threshold * (n * Q - S * S)
          ELSE n * current - S # 0
    BY DEF Deviates
  <1> HIDE DEF n, S, Q
  <1>8. n * Q - S * S = 0
    BY <1>2, <1>6
  <1>9. n * current - S = n * (current - c)
    BY <1>2, <1>6
  <1>10. n * (current - c) # 0 <=> current # c
    BY <1>2
  <1> QED BY <1>7, <1>8, <1>9, <1>10

\* What the detector says of a history flags only news.
LEMMA OnlyNewsIsFlagged ==
    ASSUME NEW answer \in Seq(Seq(Int \cup {NaN})), Threshold \in Nat
    PROVE  FlagsOnlyNews(answer, DetectForQuery(answer))
  <1> DEFINE points == Points(answer)
             b == Front(points)
             before == ToSet(b)
             verdict == DetectForQuery(answer)
  <1>1. points \in Seq(Int) /\ Len(points) \in Nat
    BY PointsAreNumbers
  <1>2. /\ Len(points) < 2 => ~verdict.is_anomaly
        /\ ~(Len(points) < 2) => (verdict.is_anomaly <=> Deviates(b, Last(points)))
    BY DEF DetectForQuery
  <1>3. FlagsOnlyNews(answer, verdict) <=>
            /\ Len(points) < 2 => ~verdict.is_anomaly
            /\ Len(points) >= 2 /\ Cardinality(before) = 1 =>
                  (verdict.is_anomaly <=> Last(points) \notin before)
            /\ Len(points) - 1 \in 1..(Threshold * Threshold) /\ Last(points) \in before =>
                  ~verdict.is_anomaly
    BY DEF FlagsOnlyNews
  <1>4. ASSUME ~(Len(points) < 2)
        PROVE  b \in Seq(Int) /\ Len(b) = Len(points) - 1 /\ Last(points) \in Int /\ b # <<>>
    <2> HIDE DEF points
    <2> DEFINE n == Len(points)
    <2>1. n \in 1..n /\ n - 1 \in 1..n /\ n - 1 # 0
      <3>1. n \in Nat /\ ~(n < 2)
        BY <1>1, <1>4
      <3> HIDE DEF n
      <3> QED BY <3>1
    <2>2. points[n] \in Int /\ \A k \in 1..(n - 1) : points[k] \in Int
      BY <1>1, <2>1
    <2>3. b \in Seq(Int) /\ Len(b) = n - 1
      BY <1>1, <2>1, <2>2 DEF Front
    <2> QED BY <2>1, <2>2, <2>3 DEF Last
  <1> HIDE DEF points, verdict, b
  <1>5. ASSUME ~(Len(points) < 2), Cardinality(before) = 1
        PROVE  verdict.is_anomaly <=> Last(points) \notin before
    <2>1. before \in SUBSET Int /\ IsFiniteSet(before)
      <3>1. b \in Seq(Int) /\ DOMAIN b = 1..Len(b) /\ Len(b) \in Nat
        BY <1>4, <1>5
      <3>2. IsFiniteSet(DOMAIN b)
        BY <3>1, PlacesCount
      <3>3. b \in Surjection(DOMAIN b, before)
        BY <3>1 DEF ToSet, Surjection
      <3>4. before \in SUBSET Int
        BY <3>1 DEF ToSet
      <3> HIDE DEF before
      <3> QED BY <3>2, <3>3, <3>4, FS_Surjection DEF ExistsSurjection
    <2>2. PICK c : before = {c}
      <3> HIDE DEF before
      <3> QED BY <1>5, <2>1, FS_Singleton
    <2>3. c \in Int /\ \A k \in 1..Len(b) : b[k] = c
      <3>1. b \in Seq(Int)
        BY <1>4, <1>5
      <3>2. \A k \in 1..Len(b) : b[k] \in before
        BY <3>1 DEF ToSet
      <3> HIDE DEF before
      <3> QED BY <2>1, <2>2, <3>2
    <2>4. Deviates(b, Last(points)) <=> Last(points) # c
      BY <1>4, <1>5, <2>3, FlatIsFlagged
    <2> HIDE DEF before
    <2> QED BY <1>2, <1>5, <2>2, <2>4
  <1>6. ASSUME Len(points) - 1 \in 1..(Threshold * Threshold), Last(points) \in before
        PROVE  ~verdict.is_anomaly
    <2>1. Threshold * Threshold \in Nat
      OBVIOUS
    <2>2. ~(Len(points) < 2) /\ Len(points) - 1 <= Threshold * Threshold
      <3> HIDE DEF before
      <3> QED BY <1>1, <1>6, <2>1
    <2>3. b \in Seq(Int) /\ Len(b) <= Threshold * Threshold
      BY <1>4, <2>2
    <2>4. PICK i \in 1..Len(b) : Last(points) = b[i]
      BY <1>6, <2>3 DEF ToSet
    <2>5. ~Deviates(b, b[i])
      BY <2>3, <2>4, SeenIsNotFlagged
    <2> QED BY <1>2, <2>2, <2>4, <2>5
  <1>7. Len(points) >= 2 => ~(Len(points) < 2)
    BY <1>1
  <1>8. FlagsOnlyNews(answer, verdict)
    <2> HIDE DEF before
    <2> QED BY <1>2, <1>3, <1>5, <1>6, <1>7
  <1> QED BY <1>8 DEF verdict

-----------------------------------------------------------------------------
\* Correlation: the services, in the order they are met

KeysOf(alerts) == {Group(a) : a \in ToSet(alerts)}

\* keys are the different services of the first n alerts.
KeysUpTo(keys, alerts, n) ==
    /\ keys \in Seq(KeysOf(alerts))
    /\ \A i, j \in 1..Len(keys) : keys[i] = keys[j] => i = j
    /\ \A k \in 1..n : \E i \in 1..Len(keys) : keys[i] = Group(alerts[k])

\* One more alert adds its service, if it is a new one.
LEMMA OneMoreKey ==
    ASSUME NEW alerts, alerts \in Seq(ToSet(alerts)), NEW n \in 1..Len(alerts),
           NEW keys, KeysUpTo(keys, alerts, n - 1)
    PROVE  KeysUpTo(AddKey(keys, Group(alerts[n])), alerts, n)
  <1> DEFINE g == Group(alerts[n])
             K == KeysOf(alerts)
  <1>1. g \in K
    BY DEF KeysOf
  <1>2. /\ keys \in Seq(K)
        /\ \A i, j \in 1..Len(keys) : keys[i] = keys[j] => i = j
        /\ \A k \in 1..(n - 1) : \E i \in 1..Len(keys) : keys[i] = Group(alerts[k])
    BY DEF KeysUpTo
  <1>3. \A k \in 1..n : k \in 1..(n - 1) \/ k = n
    OBVIOUS
  <1> HIDE DEF K
  <1>4. CASE Contains(keys, g)
    <2>1. \E i \in 1..Len(keys) : keys[i] = g
      BY <1>4 DEF Contains
    <2>2. \A k \in 1..n : \E i \in 1..Len(keys) : keys[i] = Group(alerts[k])
      BY <1>2, <1>3, <2>1
    <2> QED BY <1>2, <1>4, <2>2 DEF AddKey, KeysUpTo, K
  <1>5. CASE ~Contains(keys, g)
    <2> DEFINE more == Append(keys, g)
               L == Len(keys)
    <2>1. /\ more \in Seq(K) /\ Len(more) = L + 1 /\ more[L + 1] = g /\ L \in Nat
          /\ \A i \in 1..L : more[i] = keys[i]
      BY <1>1, <1>2
    <2>2. \A i \in 1..L : keys[i] # g
      BY <1>5 DEF Contains
    <2>3. \A i \in 1..(L + 1) : i \in 1..L \/ i = L + 1
      BY <2>1
    <2>4. \A i \in 1..L : i \in 1..(L + 1)
      BY <2>1
    <2>5. L + 1 \in 1..(L + 1)
      BY <2>1
    <2> HIDE DEF more, g, L
    <2>6. \A i, j \in 1..(L + 1) : more[i] = more[j] => i = j
      BY <1>2, <2>1, <2>2, <2>3 DEF L
    <2>7. \A k \in 1..n : \E i \in 1..(L + 1) : more[i] = Group(alerts[k])
      <3> TAKE k \in 1..n
      <3>1. CASE k = n
        BY <2>1, <2>5, <3>1 DEF g
      <3>2. CASE k \in 1..(n - 1)
        BY <1>2, <2>1, <2>4, <3>2 DEF L
      <3> QED BY <1>3, <3>1, <3>2
    <2>8. KeysUpTo(more, alerts, n)
      BY <2>1, <2>6, <2>7 DEF KeysUpTo, K
    <2> QED BY <1>5, <2>8 DEF AddKey, more, g
  <1> QED BY <1>4, <1>5

\* The groups are the different services of the alerts.
LEMMA GroupsListed ==
    ASSUME NEW alerts, alerts \in Seq(ToSet(alerts))
    PROVE  KeysUpTo(Groups(alerts), alerts, Len(alerts))
  <1> DEFINE N == Len(alerts)
             K == KeysOf(alerts)
             step == [p \in Seq(K) \X (1..N) |-> AddKey(p[1], Group(alerts[p[2]]))]
             Def(f) == [n \in 0..N |-> IF n = 0 THEN <<>> ELSE AddKey(f[n - 1], Group(alerts[n]))]
  <1>1. N \in Nat /\ <<>> \in Seq(K) /\ \A n \in 1..N : Group(alerts[n]) \in K
    BY DEF KeysOf
  <1>2. \A keys \in Seq(K), g \in K : AddKey(keys, g) \in Seq(K)
    BY DEF AddKey
  <1>3. step \in [Seq(K) \X (1..N) -> Seq(K)]
    <2> HIDE DEF K, N
    <2> QED BY <1>1, <1>2
  <1>4. PICK f \in [0..N -> Seq(K)] : Unfolds(f, N, <<>>, step)
    <2> HIDE DEF step, N, K
    <2> QED BY <1>1, <1>3, Recursion
  <1>5. \A n \in 1..N : f[n - 1] \in Seq(K)
    <2>1. \A n \in 1..N : n - 1 \in 0..N
      BY <1>1
    <2> HIDE DEF N, K
    <2> QED BY <1>4, <2>1
  <1>6. f[0] = <<>> /\ \A n \in 1..N : f[n] = AddKey(f[n - 1], Group(alerts[n]))
    <2> HIDE DEF N, K
    <2> QED BY <1>4, <1>5 DEF Unfolds
  <1>7. f = Def(f)
    <2>1. \A n \in 0..N : f[n] = Def(f)[n]
      <3>1. \A n \in 0..N : n = 0 \/ n \in 1..N
        BY <1>1
      <3> HIDE DEF N
      <3> QED BY <1>6, <3>1
    <2>2. f = [n \in 0..N |-> f[n]] /\ Def(f) = [n \in 0..N |-> Def(f)[n]]
      BY <1>4
    <2> HIDE DEF Def, N
    <2> QED BY <2>1, <2>2
  <1> DEFINE keys == CHOOSE g : g = Def(g)
  <1>8. keys = Def(keys)
    <2> HIDE DEF Def
    <2> QED BY <1>7
  <1>9. Groups(alerts) = keys[N]
    BY DEF Groups
  <1>10. keys[0] = <<>> /\ \A n \in 1..N : keys[n] = AddKey(keys[n - 1], Group(alerts[n]))
    <2> DEFINE d == Def(keys)
    <2>1. d[0] = <<>> /\ \A n \in 1..N : d[n] = AddKey(keys[n - 1], Group(alerts[n]))
      BY <1>1
    <2> HIDE DEF d, keys
    <2> QED BY <2>1, <1>8 DEF d
  <1> HIDE DEF keys, step
  <1> DEFINE T == {n \in 0..N : KeysUpTo(keys[n], alerts, n)}
  <1>11. 0 \in T
    <2>1. KeysUpTo(<<>>, alerts, 0)
      <3>1. Len(<<>>) = 0 /\ 1..0 = {}
        OBVIOUS
      <3>2. <<>> \in Seq(KeysOf(alerts))
        OBVIOUS
      <3> QED BY <3>1, <3>2 DEF KeysUpTo
    <2> QED BY <1>1, <1>10, <2>1
  <1>12. ASSUME NEW n \in 0..(N - 1), n \in T PROVE n + 1 \in T
    <2>1. n + 1 \in 1..N /\ n + 1 \in 0..N /\ (n + 1) - 1 = n
      BY <1>1
    <2>2. KeysUpTo(AddKey(keys[n], Group(alerts[n + 1])), alerts, n + 1)
      <3>1. KeysUpTo(keys[n], alerts, (n + 1) - 1)
        BY <1>12, <2>1
      <3> HIDE DEF T
      <3> QED BY <2>1, <3>1, OneMoreKey
    <2>3. keys[n + 1] = AddKey(keys[n], Group(alerts[n + 1]))
      BY <1>10, <2>1
    <2> QED BY <2>1, <2>2, <2>3
  <1> HIDE DEF T
  <1>13. N \in T
    <2>1. 0..N \subseteq T
      BY <1>1, <1>11, <1>12, UpTo
    <2> HIDE DEF N
    <2> QED BY <1>1, <2>1
  <1> QED BY <1>9, <1>13 DEF T

-----------------------------------------------------------------------------
\* Correlation: the chains of alerts

StartsAreTimes(alerts) == \A a \in ToSet(alerts) : a.started \in Int \cup {None}

\* Those without a time first, the others by time
Rises(sorted) ==
    \A i, j \in 1..Len(sorted) : i < j =>
        \/ sorted[i].started = None
        \/ sorted[j].started # None /\ sorted[i].started <= sorted[j].started

EarlierIn(S) == {p \in S \X S : Earlier(p[1], p[2])}

\* Being earlier, or without a time, is an order of the alerts.
LEMMA EarlierRanks ==
    ASSUME NEW S, \A a \in S : a.started \in Int \cup {None}
    PROVE  Ranks(EarlierIn(S), S)
  <1> SUFFICES ASSUME NEW a \in S, NEW b \in S, NEW c \in S
               PROVE  /\ Earlier(a, b) => ~Earlier(b, a)
                      /\ Earlier(a, c) => Earlier(a, b) \/ Earlier(b, c)
    BY DEF Ranks, EarlierIn
  <1>1. /\ a.started \in Int \cup {None} /\ b.started \in Int \cup {None}
        /\ c.started \in Int \cup {None}
    OBVIOUS
  <1> QED BY <1>1 DEF Earlier

\* Every time in q is more than a window after every time in p.
Ahead(p, q) ==
    Timed(p) /\ Timed(q) =>
        \A a \in ToSet(p), b \in ToSet(q) : b.started - a.started > Window

\* The chains of the first n alerts, and the end of the last one.
ChainedUpTo(clusters, end, sorted, n) ==
    /\ clusters \in Seq(Seq(ToSet(sorted)))
    /\ FlattenSeq(clusters) = SubSeq(sorted, 1, n)
    /\ n = 0 => clusters = <<>>
    /\ n > 0 => /\ clusters # <<>>
                /\ Last(Last(clusters)) = sorted[n]
                /\ end = sorted[n].started
    /\ \A p \in 1..Len(clusters) :
          /\ clusters[p] # <<>> /\ IsChain(clusters[p])
          /\ \A a \in ToSet(clusters[p]) : \E m \in 1..n : a = sorted[m]
    /\ \A p, q \in 1..Len(clusters) : p < q => Ahead(clusters[p], clusters[q])

\* One more alert at the end of a chain
LEMMA ChainGrows ==
    ASSUME Window \in Int, NEW S, NEW c \in Seq(S), c # <<>>, IsChain(c), NEW x \in S,
           \A a \in S : a.started \in Int \cup {None},
           Last(c).started # None, x.started # None,
           x.started - Last(c).started \in 0..Window
    PROVE  Timed(c) /\ Timed(Append(c, x)) /\ IsChain(Append(c, x))
  <1> DEFINE L == Len(c)
             d == Append(c, x)
  <1>1. L \in Nat /\ L > 0 /\ \A k \in 1..L : c[k] \in S
    OBVIOUS
  <1>2. /\ d \in Seq(S) /\ Len(d) = L + 1 /\ d[L + 1] = x /\ \A k \in 1..L : d[k] = c[k]
        /\ DOMAIN d = 1..(L + 1) /\ DOMAIN c = 1..L
    OBVIOUS
  <1>3. Last(c) = c[L] /\ L \in 1..L
    BY <1>1 DEF Last
  <1> HIDE DEF d, L
  <1>4. Timed(c)
    <2> SUFFICES ASSUME ~Timed(c) PROVE FALSE
      OBVIOUS
    <2>1. L = 1
      BY DEF IsChain, L
    <2>2. \A k \in 1..L : k = L
      BY <2>1
    <2>3. \A k \in 1..L : c[k].started # None
      BY <1>3, <2>2
    <2> QED BY <1>2, <2>3 DEF Timed, ToSet
  <1>5. \A k \in 1..(L + 1) : k \in 1..L \/ k = L + 1
    BY <1>1
  <1>6. Timed(d)
    <2>1. \A k \in 1..L : c[k].started # None
      BY <1>2, <1>4 DEF Timed, ToSet
    <2>2. \A k \in 1..(L + 1) : d[k].started # None
      BY <1>2, <1>5, <2>1
    <2> QED BY <1>2, <2>2 DEF Timed, ToSet
  <1>7. \A k \in 1..(L - 1) : c[k + 1].started - c[k].started \in 0..Window
    BY <1>4 DEF IsChain, L
  <1>8. \A k \in 1..L : d[k + 1].started - d[k].started \in 0..Window
    <2> TAKE k \in 1..L
    <2>1. CASE k = L
      <3>1. d[k + 1] = x /\ d[k] = c[L]
        BY <1>2, <1>3, <2>1
      <3> QED BY <1>3, <3>1
    <2>2. CASE k # L
      <3>1. k \in 1..(L - 1) /\ k + 1 \in 1..L
        BY <1>1, <2>2
      <3>2. d[k + 1] = c[k + 1] /\ d[k] = c[k]
        BY <1>2, <3>1
      <3> QED BY <1>7, <3>1, <3>2
    <2> QED BY <2>1, <2>2
  <1>9. (L + 1) - 1 = L
    BY <1>1
  <1>10. IsChain(d)
    BY <1>2, <1>6, <1>8, <1>9 DEF IsChain
  <1> QED BY <1>4, <1>6, <1>10 DEF d

\* A chain that is more than a window after another stays so when it grows.
LEMMA AheadOfLonger ==
    ASSUME Window \in Int, NEW S, \A a \in S : a.started \in Int \cup {None},
           NEW p \in Seq(S), NEW c \in Seq(S), c # <<>>, Timed(c), Ahead(p, c),
           NEW x \in S, x.started # None, \A a \in ToSet(c) : a.started <= x.started
    PROVE  Ahead(p, Append(c, x))
  <1> DEFINE d == Append(c, x)
  <1>1. \A b \in ToSet(d) : b \in ToSet(c) \/ b = x
    BY DEF ToSet
  <1>2. ToSet(p) \subseteq S /\ ToSet(c) \subseteq S
    BY DEF ToSet
  <1>3. PICK e : e \in ToSet(c)
    BY DEF ToSet
  <1> SUFFICES ASSUME Timed(p), NEW a \in ToSet(p), NEW b \in ToSet(d)
               PROVE  b.started - a.started > Window
    BY DEF Ahead
  <1>4. \A h \in ToSet(c) : h.started - a.started > Window
    BY DEF Ahead
  <1>5. CASE b \in ToSet(c)
    BY <1>4, <1>5
  <1>6. CASE b = x
    <2>1. e.started - a.started > Window /\ e.started <= x.started
      BY <1>3, <1>4
    <2>2. a.started \in Int /\ e.started \in Int /\ x.started \in Int
      <3>1. a \in S /\ e \in S /\ a.started # None /\ e.started # None
        BY <1>2, <1>3 DEF Timed
      <3> QED BY <3>1
    <2> QED BY <1>6, <2>1, <2>2
  <1> QED BY <1>1, <1>5, <1>6

LEMMA ChainsAre ==
    ASSUME NEW sorted, NEW S, S = ToSet(sorted), NEW n \in Nat, n > 0,
           NEW D \in Seq(Seq(S)), NEW end, NEW L, Len(D) = L,
           FlattenSeq(D) = SubSeq(sorted, 1, n),
           D # <<>>, Last(Last(D)) = sorted[n], end = sorted[n].started,
           \A p \in 1..L : /\ D[p] # <<>> /\ IsChain(D[p])
                           /\ \A a \in ToSet(D[p]) : \E m \in 1..n : a = sorted[m],
           \A p, q \in 1..L : p < q => Ahead(D[p], D[q])
    PROVE  ChainedUpTo(D, end, sorted, n)
  <1>1. ~(n = 0)
    OBVIOUS
  <1> QED BY <1>1, Zenon DEF ChainedUpTo

\* A round of the loop of _cluster_by_time keeps its invariant.
LEMMA OneMoreChained ==
    ASSUME Window \in Int, NEW sorted, sorted \in Seq(ToSet(sorted)), StartsAreTimes(sorted),
           Rises(sorted), NEW n \in 1..Len(sorted), NEW acc,
           ChainedUpTo(acc.clusters, acc.end, sorted, n - 1)
    PROVE  LET more == Chain(acc, sorted[n])
           IN  ChainedUpTo(more.clusters, more.end, sorted, n)
  <1> DEFINE S == ToSet(sorted)
             C == acc.clusters
             L == Len(C)
             x == sorted[n]
             D == Chain(acc, x).clusters
             end == Chain(acc, x).end
             joins == /\ C # <<>> /\ x.started # None /\ acc.end # None
                      /\ x.started - acc.end <= Window
  <1>1. /\ \A a \in S : a.started \in Int \cup {None}
        /\ \A k \in 1..Len(sorted) : sorted[k] \in S /\ sorted[k].started \in Int \cup {None}
        /\ n \in Nat /\ n > 0 /\ Len(sorted) \in Nat
    <2>1. \A k \in 1..Len(sorted) : sorted[k] \in S
      OBVIOUS
    <2> QED BY <2>1 DEF StartsAreTimes
  <1>2. C \in Seq(Seq(S)) /\ FlattenSeq(C) = SubSeq(sorted, 1, n - 1)
        /\ (n - 1 = 0 => C = <<>>)
        /\ (n - 1 > 0 => /\ C # <<>> /\ Last(Last(C)) = sorted[n - 1]
                         /\ acc.end = sorted[n - 1].started)
    BY DEF ChainedUpTo
  <1>3. \A p \in 1..L : /\ C[p] \in Seq(S) /\ C[p] # <<>> /\ IsChain(C[p])
                        /\ \A a \in ToSet(C[p]) : \E m \in 1..(n - 1) : a = sorted[m]
    <2>1. \A p \in 1..L : C[p] \in Seq(S)
      BY <1>2
    <2> QED BY <2>1 DEF ChainedUpTo
  <1>4. \A p, q \in 1..L : p < q => Ahead(C[p], C[q])
    BY DEF ChainedUpTo
  <1>5. \A m \in 1..(n - 1) : m \in 1..n /\ m \in 1..Len(sorted) /\ m < n
    BY <1>1
  <1>6. x \in S /\ x.started \in Int \cup {None}
    BY <1>1
  <1>7. \A m \in 1..(n - 1) :
            sorted[m].started = None \/ (x.started # None /\ sorted[m].started <= x.started)
    BY <1>5 DEF Rises
  <1>8. SubSeq(sorted, 1, n - 1) \in Seq(S)
        /\ Append(SubSeq(sorted, 1, n - 1), x) = SubSeq(sorted, 1, n)
    <2> HIDE DEF S
    <2>1. sorted \in Seq(S)
      BY DEF S
    <2> QED BY <2>1, PrefixGrows
  <1> HIDE DEF S, C, L, x
  <1>9. CASE joins
    <2> DEFINE c == Last(C)
               F == Front(C)
               d == Append(c, x)
    <2>1. n - 1 > 0 /\ n - 1 \in 1..(n - 1) /\ acc.end = sorted[n - 1].started
          /\ Last(c) = sorted[n - 1]
      BY <1>1, <1>2, <1>9
    <2>2. acc.end \in Int /\ x.started \in Int /\ acc.end <= x.started
      <3>1. sorted[n - 1].started \in Int \cup {None}
        BY <1>1, <1>5, <2>1
      <3> QED BY <1>6, <1>7, <1>9, <2>1, <3>1
    <2>3. D = Append(F, d) /\ end = x.started
      <3>1. Chain(acc, x) = [clusters |-> Append(F, d),
                             end |-> IF x.started > acc.end THEN x.started ELSE acc.end]
        BY <1>9 DEF Chain, C
      <3> QED BY <2>2, <3>1
    <2>4. /\ F \in Seq(Seq(S)) /\ c \in Seq(S) /\ L \in Nat \ {0} /\ Len(F) = L - 1 /\ c = C[L]
          /\ \A k \in 1..(L - 1) : F[k] = C[k]
          /\ Append(F, c) = C
      BY <1>2, <1>9, FrontAndLast DEF L
    <2>5. L \in 1..L /\ c # <<>> /\ IsChain(c)
      BY <1>3, <2>4
    <2> HIDE DEF c, F, joins, D, end
    <2>6. d \in Seq(S) /\ d # <<>> /\ Last(d) = x /\ (\A a \in ToSet(d) : a \in ToSet(c) \/ a = x)
      <3> DEFINE l == Len(c)
      <3>1. /\ d \in Seq(S) /\ l \in Nat /\ Len(d) = l + 1 /\ d[l + 1] = x /\ DOMAIN c = 1..l
            /\ DOMAIN d = 1..(l + 1) /\ \A k \in 1..l : d[k] = c[k]
        BY <1>6, <2>4
      <3> HIDE DEF d, l
      <3>2. \A k \in 1..(l + 1) : k \in 1..l \/ k = l + 1
        BY <3>1
      <3>3. \A a \in ToSet(d) : a \in ToSet(c) \/ a = x
        BY <3>1, <3>2 DEF ToSet
      <3> QED BY <3>1, <3>3 DEF Last
    <2>7. /\ D \in Seq(Seq(S)) /\ Len(D) = L /\ D[L] = d
          /\ \A k \in 1..(L - 1) : D[k] = C[k]
      <3> HIDE DEF d
      <3> QED BY <2>3, <2>4, <2>6
    <2>8. Timed(c) /\ Timed(d) /\ IsChain(d)
      <3>1. Last(c).started # None /\ x.started - Last(c).started \in 0..Window
        BY <1>9, <2>1, <2>2 DEF joins
      <3> QED BY <1>1, <1>6, <1>9, <2>4, <2>5, <3>1, ChainGrows DEF joins
    <2>9. FlattenSeq(D) = SubSeq(sorted, 1, n)
      <3>1. FlattenSeq(C) = FlattenSeq(F) \o c /\ FlattenSeq(F) \in Seq(S)
        BY <2>4, JoinOneMore, JoinedIsList
      <3>2. FlattenSeq(D) = FlattenSeq(F) \o d
        <4> HIDE DEF d
        <4> QED BY <2>3, <2>4, <2>6, JoinOneMore
      <3>3. FlattenSeq(F) \o Append(c, x) = Append(FlattenSeq(F) \o c, x)
        BY <1>6, <2>4, <3>1, SMTT(30)
      <3> QED BY <1>2, <1>8, <3>1, <3>2, <3>3
    <2> HIDE DEF d
    <2>10. \A p \in 1..L : p \in 1..(L - 1) \/ p = L
      BY <2>4
    <2>11. \A p \in 1..(L - 1) : p \in 1..L
      BY <2>4
    <2>12. \A p \in 1..L :
              /\ D[p] # <<>> /\ IsChain(D[p])
              /\ \A a \in ToSet(D[p]) : \E m \in 1..n : a = sorted[m]
      <3> TAKE p \in 1..L
      <3>1. CASE p \in 1..(L - 1)
        BY <1>3, <1>5, <2>7, <2>11, <3>1, ZenonT(60)
      <3>2. CASE p = L
        <4>1. \A a \in ToSet(c) : \E m \in 1..n : a = sorted[m]
          BY <1>3, <1>5, <2>4, <2>5
        <4>2. n \in 1..n
          BY <1>1
        <4> QED BY <2>6, <2>7, <2>8, <3>2, <4>1, <4>2 DEF x
      <3> QED BY <2>10, <3>1, <3>2
    <2>13. \A p, q \in 1..L : p < q => Ahead(D[p], D[q])
      <3> TAKE p, q \in 1..L
      <3> HAVE p < q
      <3>1. p \in 1..(L - 1) /\ D[p] = C[p] /\ C[p] \in Seq(S)
        <4>1. p \in 1..(L - 1)
          BY <2>4
        <4> QED BY <1>3, <2>7, <4>1
      <3>2. CASE q \in 1..(L - 1)
        BY <1>4, <2>7, <3>1, <3>2
      <3>3. CASE q = L
        <4>1. Ahead(C[p], c)
          BY <1>4, <2>4, <3>3
        <4>2. \A a \in ToSet(c) : a.started <= x.started
          <5> TAKE a \in ToSet(c)
          <5>1. PICK m \in 1..(n - 1) : a = sorted[m]
            BY <1>3, <2>4, <2>5
          <5>2. a.started # None
            BY <2>8 DEF Timed
          <5> QED BY <1>7, <5>1, <5>2
        <4>3. Ahead(C[p], Append(c, x))
          BY <1>1, <1>6, <1>9, <2>4, <2>5, <2>8, <3>1, <4>1, <4>2, AheadOfLonger DEF joins
        <4> QED BY <2>7, <3>1, <3>3, <4>3 DEF d
      <3> QED BY <2>10, <3>2, <3>3
    <2>14. D # <<>> /\ Last(Last(D)) = x
      <3>1. Last(D) = d
        BY <2>7 DEF Last
      <3> QED BY <2>4, <2>6, <2>7, <3>1
    <2>15. ChainedUpTo(D, end, sorted, n)
      <3>1. end = sorted[n].started /\ Last(Last(D)) = sorted[n]
        BY <2>3, <2>14 DEF x
      <3> QED BY <1>1, <2>7, <2>9, <2>12, <2>13, <2>14, <3>1, ChainsAre DEF S
    <2> QED BY <2>15 DEF D, end, x
  <1>10. CASE ~joins
    <2> DEFINE d == <<x>>
    <2>1. D = Append(C, d) /\ end = x.started
      BY <1>10 DEF Chain, C
    <2>2. d \in Seq(S) /\ d # <<>> /\ Last(d) = x /\ ToSet(d) = {x} /\ Len(d) = 1
      BY <1>6 DEF Last, ToSet
    <2>3. L \in Nat
      BY <1>2 DEF L
    <2> HIDE DEF D, end, joins, d
    <2>4. /\ D \in Seq(Seq(S)) /\ Len(D) = L + 1 /\ D[L + 1] = d
          /\ \A k \in 1..L : D[k] = C[k]
      BY <1>2, <2>1, <2>2 DEF L
    <2>5. IsChain(d)
      <3>1. 1..(1 - 1) = {}
        OBVIOUS
      <3> QED BY <2>2, <3>1 DEF IsChain
    <2>6. FlattenSeq(D) = SubSeq(sorted, 1, n)
      <3>1. FlattenSeq(D) = FlattenSeq(C) \o d
        BY <1>2, <2>1, <2>2, JoinOneMore
      <3>2. SubSeq(sorted, 1, n - 1) \o <<x>> = Append(SubSeq(sorted, 1, n - 1), x)
        BY <1>6, <1>8
      <3> QED BY <1>2, <1>8, <3>1, <3>2 DEF d
    <2>7. \A p \in 1..(L + 1) : p \in 1..L \/ p = L + 1
      BY <2>3
    <2>8. \A p \in 1..(L + 1) :
              /\ D[p] # <<>> /\ IsChain(D[p])
              /\ \A a \in ToSet(D[p]) : \E m \in 1..n : a = sorted[m]
      <3> TAKE p \in 1..(L + 1)
      <3>1. CASE p \in 1..L
        BY <1>3, <1>5, <2>4, <3>1
      <3>2. CASE p = L + 1
        <4>1. n \in 1..n
          BY <1>1
        <4> QED BY <2>2, <2>4, <2>5, <3>2, <4>1 DEF x
      <3> QED BY <2>7, <3>1, <3>2
    <2>9. ASSUME NEW p \in 1..L PROVE Ahead(C[p], d)
      <3> SUFFICES ASSUME Timed(C[p]), x.started # None, NEW a \in ToSet(C[p])
                   PROVE  x.started - a.started > Window
        BY <2>2 DEF Ahead, Timed
      <3>1. PICK m \in 1..(n - 1) : a = sorted[m]
        BY <1>3
      <3>2. a.started # None /\ a.started \in Int /\ x.started \in Int
        BY <1>1, <1>5, <1>6, <3>1 DEF Timed
      <3>3. n - 1 > 0 /\ n - 1 \in 1..Len(sorted) /\ m <= n - 1
        BY <1>1, <3>1
      <3>4. sorted[n - 1].started # None /\ a.started <= sorted[n - 1].started
        <4>1. CASE m = n - 1
          BY <3>1, <3>2, <4>1
        <4>2. CASE m # n - 1
          <5>1. m < n - 1 /\ m \in 1..Len(sorted)
            BY <1>5, <3>1, <3>3, <4>2
          <5> QED BY <3>1, <3>2, <3>3, <5>1 DEF Rises
        <4> QED BY <4>1, <4>2
      <3>5. C # <<>> /\ acc.end = sorted[n - 1].started
        BY <1>2, <3>3
      <3>6. acc.end \in Int /\ ~(x.started - acc.end <= Window)
        BY <1>1, <1>10, <3>3, <3>4, <3>5 DEF joins
      <3> QED BY <3>2, <3>4, <3>5, <3>6
    <2>10. \A p, q \in 1..(L + 1) : p < q => Ahead(D[p], D[q])
      <3> TAKE p, q \in 1..(L + 1)
      <3> HAVE p < q
      <3>1. p \in 1..L
        BY <2>3
      <3> QED BY <1>4, <2>4, <2>7, <2>9, <3>1
    <2>11. D # <<>> /\ Last(Last(D)) = x
      <3>1. Last(D) = d
        BY <2>4 DEF Last
      <3> QED BY <2>2, <2>3, <2>4, <3>1
    <2>12. ChainedUpTo(D, end, sorted, n)
      <3>1. end = sorted[n].started /\ Last(Last(D)) = sorted[n]
        BY <2>1, <2>11 DEF x
      <3> QED BY <1>1, <2>4, <2>6, <2>8, <2>10, <2>11, <3>1, ChainsAre DEF S
    <2> QED BY <2>12 DEF D, end, x
  <1> QED BY <1>9, <1>10

Accs(S) == [clusters : Seq(Seq(S)), end : Int \cup {None}]

LEMMA ChainIsAcc ==
    ASSUME NEW S, \A a \in S : a.started \in Int \cup {None}, NEW acc \in Accs(S), NEW x \in S
    PROVE  Chain(acc, x) \in Accs(S)
  <1> DEFINE C == acc.clusters
             longer == Append(Front(C), Append(Last(C), x))
  <1>1. C \in Seq(Seq(S)) /\ acc.end \in Int \cup {None} /\ x.started \in Int \cup {None}
    BY DEF Accs
  <1>2. Append(C, <<x>>) \in Seq(Seq(S))
    <2>1. <<x>> \in Seq(S)
      OBVIOUS
    <2> HIDE DEF C
    <2> QED BY <1>1, <2>1
  <1>3. C # <<>> => longer \in Seq(Seq(S))
    <2> SUFFICES ASSUME C # <<>> PROVE longer \in Seq(Seq(S))
      OBVIOUS
    <2>1. Front(C) \in Seq(Seq(S)) /\ Last(C) \in Seq(S)
      <3> HIDE DEF C
      <3> QED BY <1>1, FrontAndLast
    <2>2. Append(Last(C), x) \in Seq(S)
      <3> HIDE DEF C
      <3> QED BY <2>1
    <2> HIDE DEF C
    <2> QED BY <2>1, <2>2
  <1>4. \/ C # <<>> /\ Chain(acc, x) = [clusters |-> longer, end |-> x.started]
        \/ C # <<>> /\ Chain(acc, x) = [clusters |-> longer, end |-> acc.end]
        \/ Chain(acc, x) = [clusters |-> Append(C, <<x>>), end |-> x.started]
    BY DEF Chain
  <1>5. \A c \in Seq(Seq(S)), e \in Int \cup {None} : [clusters |-> c, end |-> e] \in Accs(S)
    BY DEF Accs
  <1> HIDE DEF C, longer
  <1> QED BY <1>1, <1>2, <1>3, <1>4, <1>5

\* The clusters of alerts are the chains of the alerts in time.
LEMMA ClustersFound ==
    ASSUME Window \in Int, NEW alerts, alerts \in Seq(ToSet(alerts)), StartsAreTimes(alerts),
           NEW sorted, sorted = Ordered(alerts, EarlierIn(ToSet(alerts)))
    PROVE  /\ sorted \in Seq(ToSet(alerts)) /\ \E x : Rearranges(x, sorted, alerts)
           /\ \E end : ChainedUpTo(ClusterByTime(alerts), end, sorted, Len(sorted))
  <1> DEFINE A == ToSet(alerts)
             S == ToSet(sorted)
             N == Len(sorted)
             none == [clusters |-> <<>>, end |-> None]
             step == [p \in Accs(S) \X (1..N) |-> Chain(p[1], sorted[p[2]])]
             Def(f) == [n \in 0..N |-> IF n = 0 THEN none ELSE Chain(f[n - 1], sorted[n])]
  <1>1. \A a \in A : a.started \in Int \cup {None}
    BY DEF StartsAreTimes
  <1>2. /\ sorted \in Seq(A)
        /\ \E x : Rearranges(x, sorted, alerts)
        /\ NeverFalls(sorted, EarlierIn(A))
    <2> HIDE DEF A
    <2>1. alerts \in Seq(A)
      BY DEF A
    <2>2. Ranks(EarlierIn(A), A)
      BY <1>1, EarlierRanks
    <2>3. sorted = Ordered(alerts, EarlierIn(A))
      BY DEF A
    <2> QED BY <2>1, <2>2, <2>3, OrderedRearranges
  <1>3. sorted \in Seq(S) /\ S \subseteq A
    <2> HIDE DEF A
    <2> QED BY <1>2, SequencesOfElements
  <1>4. \A a \in S : a.started \in Int \cup {None}
    <2> HIDE DEF A, S
    <2> QED BY <1>1, <1>3
  <1>5. Rises(sorted)
    <2> SUFFICES ASSUME NEW i \in 1..N, NEW j \in 1..N, i < j
                 PROVE  \/ sorted[i].started = None
                        \/ sorted[j].started # None /\ sorted[i].started <= sorted[j].started
      BY DEF Rises
    <2>1. sorted[i] \in A /\ sorted[j] \in A
      <3> HIDE DEF A
      <3> QED BY <1>2
    <2>2. ~Earlier(sorted[j], sorted[i])
      <3>1. <<sorted[j], sorted[i]>> \notin EarlierIn(A)
        BY <1>2 DEF NeverFalls
      <3> HIDE DEF A
      <3> QED BY <2>1, <3>1 DEF EarlierIn
    <2>3. /\ sorted[i].started \in Int \cup {None}
          /\ sorted[j].started \in Int \cup {None}
      <3> HIDE DEF A
      <3> QED BY <1>1, <2>1
    <2> QED BY <2>2, <2>3 DEF Earlier
  <1>6. N \in Nat /\ none \in Accs(S)
    <2>1. N \in Nat
      <3> HIDE DEF S
      <3> QED BY <1>3
    <2> QED BY <2>1 DEF Accs
  <1>7. ClusterByTime(alerts) =
            LET chained[n \in 0..N] == IF n = 0 THEN none ELSE Chain(chained[n - 1], sorted[n])
            IN  chained[N].clusters
    BY DEF ClusterByTime, SortedBy, EarlierIn
  <1>8. \A n \in 1..N : sorted[n] \in S
    <2> HIDE DEF S
    <2> QED BY <1>3
  <1> HIDE DEF S, none
  <1>9. step \in [Accs(S) \X (1..N) -> Accs(S)]
    <2>1. \A acc \in Accs(S), n \in 1..N : Chain(acc, sorted[n]) \in Accs(S)
      BY <1>4, <1>8, ChainIsAcc
    <2> HIDE DEF N
    <2> QED BY <2>1
  <1>10. PICK f \in [0..N -> Accs(S)] : Unfolds(f, N, none, step)
    <2> HIDE DEF step, N
    <2> QED BY <1>6, <1>9, Recursion
  <1>11. \A n \in 1..N : f[n - 1] \in Accs(S)
    <2>1. \A n \in 1..N : n - 1 \in 0..N
      BY <1>6
    <2> HIDE DEF N
    <2> QED BY <1>10, <2>1
  <1>12. f[0] = none /\ \A n \in 1..N : f[n] = Chain(f[n - 1], sorted[n])
    <2> HIDE DEF N
    <2> QED BY <1>10, <1>11 DEF Unfolds
  <1>13. f = Def(f)
    <2>1. \A n \in 0..N : f[n] = Def(f)[n]
      <3>1. \A n \in 0..N : n = 0 \/ n \in 1..N
        BY <1>6
      <3> HIDE DEF N
      <3> QED BY <1>12, <3>1
    <2>2. f = [n \in 0..N |-> f[n]] /\ Def(f) = [n \in 0..N |-> Def(f)[n]]
      BY <1>10
    <2> HIDE DEF Def, N
    <2> QED BY <2>1, <2>2
  <1> DEFINE chained == CHOOSE g : g = Def(g)
  <1>14. chained = Def(chained)
    <2> HIDE DEF Def
    <2> QED BY <1>13
  <1>15. ClusterByTime(alerts) = chained[N].clusters
    BY <1>7
  <1>16. chained[0] = none /\ \A n \in 1..N : chained[n] = Chain(chained[n - 1], sorted[n])
    <2> DEFINE d == Def(chained)
    <2>1. d[0] = none /\ \A n \in 1..N : d[n] = Chain(chained[n - 1], sorted[n])
      BY <1>6
    <2> HIDE DEF d, chained
    <2> QED BY <2>1, <1>14 DEF d
  <1> HIDE DEF chained, step
  <1> DEFINE T == {n \in 0..N : ChainedUpTo(chained[n].clusters, chained[n].end, sorted, n)}
  <1>17. 0 \in T
    <2>1. ChainedUpTo(<<>>, None, sorted, 0)
      <3>1. FlattenSeq(<<>>) = <<>> /\ SubSeq(sorted, 1, 0) = <<>>
        <4>1. FlattenSeq(<<>>) = <<>>
          BY DEF FlattenSeq
        <4>2. Len(SubSeq(sorted, 1, 0)) = 0 /\ SubSeq(sorted, 1, 0) \in Seq(S)
          BY <1>3
        <4> QED BY <4>1, <4>2
      <3>2. Len(<<>>) = 0 /\ 1..0 = {} /\ <<>> \in Seq(Seq(ToSet(sorted)))
        OBVIOUS
      <3> QED BY <3>1, <3>2, SMTT(30) DEF ChainedUpTo
    <2>2. chained[0].clusters = <<>> /\ chained[0].end = None
      BY <1>16 DEF none
    <2> QED BY <1>6, <2>1, <2>2
  <1>18. ASSUME NEW n \in 0..(N - 1), n \in T PROVE n + 1 \in T
    <2>1. n + 1 \in 1..N /\ n + 1 \in 0..N /\ (n + 1) - 1 = n
      BY <1>6
    <2> DEFINE acc == chained[n]
    <2>2. ChainedUpTo(acc.clusters, acc.end, sorted, (n + 1) - 1)
      BY <1>18, <2>1
    <2>3. chained[n + 1] = Chain(acc, sorted[n + 1])
      BY <1>16, <2>1
    <2>4. StartsAreTimes(sorted) /\ sorted \in Seq(ToSet(sorted))
      BY <1>3, <1>4 DEF StartsAreTimes, S
    <2> HIDE DEF acc, T
    <2>5. ChainedUpTo(chained[n + 1].clusters, chained[n + 1].end, sorted, n + 1)
      BY <1>5, <2>1, <2>2, <2>3, <2>4, OneMoreChained
    <2> QED BY <2>1, <2>5 DEF T
  <1> HIDE DEF T
  <1>19. N \in T
    <2>1. 0..N \subseteq T
      BY <1>6, <1>17, <1>18, UpTo
    <2> HIDE DEF N
    <2> QED BY <1>6, <2>1
  <1> QED BY <1>2, <1>15, <1>19 DEF T

-----------------------------------------------------------------------------
\* Correlation: the clusters of one service

LEMMA ListsOfLists ==
    ASSUME NEW S, NEW T, S \subseteq T, NEW C \in Seq(Seq(S))
    PROVE  C \in Seq(Seq(T))
  <1>1. \A c \in Seq(S) : c \in Seq(T)
    OBVIOUS
  <1>2. \A p \in 1..Len(C) : C[p] \in Seq(S)
    OBVIOUS
  <1>3. \A p \in 1..Len(C) : C[p] \in Seq(T)
    BY <1>1, <1>2
  <1> QED BY <1>3

OfGroup(alerts, g) == {a \in ToSet(alerts) : Group(a) = g}

\* The alerts of a service are all of those that are about it.
LEMMA AlertsOfGroup ==
    ASSUME NEW alerts, alerts \in Seq(ToSet(alerts)), NEW g
    PROVE  /\ AlertsOf(g, alerts) \in Seq(ToSet(AlertsOf(g, alerts)))
           /\ ToSet(AlertsOf(g, alerts)) \subseteq OfGroup(alerts, g)
           /\ \A a \in OfGroup(alerts, g) :
                 Cardinality(At(AlertsOf(g, alerts), {a})) = Cardinality(At(alerts, {a}))
  <1> DEFINE T == OfGroup(alerts, g)
             r == AlertsOf(g, alerts)
             K == At(alerts, T)
  <1>1. r = Those(alerts, T)
    BY DEF AlertsOf, Kept, OfGroup
  <1>2. Reads(r, alerts, K, Below)
    <2> HIDE DEF r, T
    <2> QED BY <1>1, ThoseRead
  <1>3. K \in SUBSET (1..Len(alerts))
    BY DEF At
  <1> HIDE DEF r, K
  <1>4. r \in Seq(ToSet(alerts)) /\ Shows(r, alerts, K)
    BY <1>2, <1>3, BelowIsOneWay, ReadingShape
  <1>5. r \in Seq(ToSet(r))
    BY <1>4, SequencesOfElements
  <1>6. ToSet(r) \subseteq T
    <2> HIDE DEF T
    <2> QED BY <1>4 DEF Shows, K, At
  <1>7. ASSUME NEW a \in T
        PROVE  Cardinality(At(r, {a})) = Cardinality(At(alerts, {a}))
    <2> HIDE DEF T
    <2>1. Reads(Those(r, {a}), alerts, Among(K, alerts, {a}), Below)
      BY <1>2, <1>3, BelowIsOneWay, ThoseOfReading
    <2>2. Among(K, alerts, {a}) = At(alerts, {a})
      BY <1>7 DEF Among, K, At
    <2>3. At(alerts, {a}) \in SUBSET (1..Len(alerts))
      BY DEF At
    <2>4. Len(Those(r, {a})) = Cardinality(At(alerts, {a}))
      BY <2>1, <2>2, <2>3, BelowIsOneWay, ReadingShape
    <2>5. Len(Those(r, {a})) = Cardinality(At(r, {a}))
      BY <1>5, CountThose
    <2> QED BY <2>4, <2>5
  <1> QED BY <1>5, <1>6, <1>7 DEF r

ClustersOf(g, alerts) == ClusterByTime(AlertsOf(g, alerts))

\* C are chains of alerts of the service g, one after another, and hold each of its
\* alerts as often as there is one.
ClustersAll(C, g, alerts) ==
    /\ C \in Seq(Seq(ToSet(alerts)))
    /\ \A p \in 1..Len(C) : /\ C[p] # <<>> /\ IsChain(C[p])
                            /\ \A a \in ToSet(C[p]) : Group(a) = g
    /\ \A p, q \in 1..Len(C) : p < q => Ahead(C[p], C[q])
    /\ \A a \in OfGroup(alerts, g) :
          IsFiniteSet(PlacesOf(a, C)) /\ Cardinality(PlacesOf(a, C)) = Cardinality(At(alerts, {a}))

\* The clusters of a service's alerts are those chains (_cluster_by_time).
LEMMA ClustersOfGroup ==
    ASSUME Window \in Int, NEW alerts, alerts \in Seq(ToSet(alerts)), StartsAreTimes(alerts), NEW g
    PROVE  ClustersAll(ClustersOf(g, alerts), g, alerts)
  <1> DEFINE r == AlertsOf(g, alerts)
             A == ToSet(r)
             T == OfGroup(alerts, g)
             sorted == Ordered(r, EarlierIn(A))
             N == Len(sorted)
             C == ClustersOf(g, alerts)
             S == ToSet(sorted)
  <1>1. r \in Seq(A) /\ A \subseteq T /\ T \subseteq ToSet(alerts)
    <2>1. T \subseteq ToSet(alerts)
      BY DEF OfGroup
    <2> QED BY <2>1, AlertsOfGroup
  <1>2. StartsAreTimes(r)
    <2> HIDE DEF A, T
    <2>1. \A a \in A : a.started \in Int \cup {None}
      BY <1>1 DEF StartsAreTimes
    <2> QED BY <2>1 DEF StartsAreTimes, A
  <1>3. /\ sorted \in Seq(A) /\ \E x : Rearranges(x, sorted, r)
        /\ \E end : ChainedUpTo(ClusterByTime(r), end, sorted, N)
    <2> HIDE DEF r, sorted
    <2>1. r \in Seq(ToSet(r)) /\ sorted = Ordered(r, EarlierIn(ToSet(r)))
      BY <1>1 DEF sorted
    <2> QED BY <1>2, <2>1, ClustersFound
  <1>4. C = ClusterByTime(r)
    BY DEF ClustersOf
  <1> HIDE DEF r, T, sorted, C
  <1>5. S \subseteq A /\ sorted \in Seq(S) /\ N \in Nat
    <2> HIDE DEF A
    <2> QED BY <1>3, SequencesOfElements
  <1>6. PICK end : ChainedUpTo(C, end, sorted, N)
    BY <1>3, <1>4
  <1>7. C \in Seq(Seq(S)) /\ FlattenSeq(C) = SubSeq(sorted, 1, N)
    BY <1>6 DEF ChainedUpTo
  <1> HIDE DEF A, S
  <1>8. C \in Seq(Seq(ToSet(alerts))) /\ C \in Seq(Seq(A))
    <2>1. S \subseteq ToSet(alerts)
      BY <1>1, <1>5
    <2> QED BY <1>5, <1>7, <2>1, ListsOfLists
  <1>9. \A p \in 1..Len(C) : /\ C[p] # <<>> /\ IsChain(C[p])
                             /\ \A a \in ToSet(C[p]) : Group(a) = g
    <2> TAKE p \in 1..Len(C)
    <2>1. /\ C[p] # <<>> /\ IsChain(C[p])
          /\ \A a \in ToSet(C[p]) : \E m \in 1..N : a = sorted[m]
      BY <1>6 DEF ChainedUpTo
    <2>2. \A m \in 1..N : sorted[m] \in A
      BY <1>3
    <2>3. \A a \in T : Group(a) = g
      BY DEF T, OfGroup
    <2> HIDE DEF N
    <2> QED BY <1>1, <2>1, <2>2, <2>3
  <1>10. \A p, q \in 1..Len(C) : p < q => Ahead(C[p], C[q])
    BY <1>6 DEF ChainedUpTo
  <1>11. FlattenSeq(C) = sorted
    <2>1. SubSeq(sorted, 1, N) = sorted
      BY <1>5
    <2> QED BY <1>7, <2>1
  <1>12. ASSUME NEW a \in T
         PROVE  /\ IsFiniteSet(PlacesOf(a, C))
                /\ Cardinality(PlacesOf(a, C)) = Cardinality(At(alerts, {a}))
    <2>1. IsFiniteSet(PlacesOf(a, C))
          /\ Cardinality(At(sorted, {a})) = Cardinality(PlacesOf(a, C))
      BY <1>8, <1>11, CountFlattened
    <2>2. Cardinality(At(sorted, {a})) = Cardinality(At(r, {a}))
      BY <1>1, <1>3, CountRearranged
    <2>3. Cardinality(At(r, {a})) = Cardinality(At(alerts, {a}))
      BY <1>12, AlertsOfGroup DEF r, T
    <2> QED BY <2>1, <2>2, <2>3
  <1>13. ClustersAll(C, g, alerts)
    BY <1>8, <1>9, <1>10, <1>12 DEF ClustersAll, T
  <1> QED BY <1>13 DEF C

-----------------------------------------------------------------------------
\* Correlation: the incidents

LEMMA RankIsNumber == \A severity : Rank(severity) \in Int
  <1> SUFFICES ASSUME NEW severity PROVE Rank(severity) \in Int
    OBVIOUS
  <1>1. \A s \in DOMAIN SEVERITY_RANK : SEVERITY_RANK[s] \in Int
    BY DEF SEVERITY_RANK
  <1> QED BY <1>1 DEF Rank

\* An incident is as severe as the most severe of its alerts.
LEMMA WorstOfAlerts ==
    ASSUME NEW S, NEW c \in Seq(S), c # <<>>, NEW g, NEW a \in ToSet(c)
    PROVE  Rank(Lower(a.severity)) <= Rank(BuildIncident(g, c).max_severity)
  <1> DEFINE n == Len(c)
             s == [i \in 1..n |-> Lower(c[i].severity)]
             e == [i \in 1..n |-> Rank(s[i])]
             First(i) == \A j \in DOMAIN s : Rank(s[j]) < Rank(s[i])
                                            \/ (Rank(s[j]) = Rank(s[i]) /\ i <= j)
             m == CHOOSE i \in DOMAIN s : First(i)
  <1>1. n \in Nat /\ n > 0 /\ DOMAIN c = 1..n /\ DOMAIN s = 1..n
    OBVIOUS
  <1>2. BuildIncident(g, c).max_severity = s[m]
    <2>1. Mapped(c, LAMBDA b : Lower(b.severity)) = s
      BY <1>1 DEF Mapped
    <2>2. BuildIncident(g, c).max_severity
            = FirstMax(Mapped(c, LAMBDA b : Lower(b.severity)), Rank)
      BY DEF BuildIncident
    <2> HIDE DEF s
    <2> QED BY <2>1, <2>2 DEF FirstMax
  <1>3. PICK i \in 1..n : Tops(i, e, n)
    <2>1. \A i \in 1..n : e[i] \in Int
      BY RankIsNumber
    <2> HIDE DEF e, n, s
    <2> QED BY <1>1, <2>1, LargestExists
  <1>4. First(i)
    <2>1. \A j \in 1..n : e[j] = Rank(s[j])
      OBVIOUS
    <2> HIDE DEF e, s
    <2> QED BY <1>1, <1>3, <2>1 DEF Tops
  <1>5. m \in DOMAIN s /\ First(m)
    <2> HIDE DEF First
    <2> QED BY <1>1, <1>4
  <1> HIDE DEF m
  <1>6. PICK k \in 1..n : a = c[k]
    BY <1>1 DEF ToSet
  <1>7. s[k] = Lower(a.severity)
    BY <1>6
  <1> HIDE DEF s
  <1>8. Rank(s[k]) <= Rank(s[m])
    <2>1. Rank(s[k]) \in Int /\ Rank(s[m]) \in Int
      BY RankIsNumber
    <2> QED BY <1>1, <1>5, <2>1
  <1> QED BY <1>2, <1>7, <1>8

WorseIn(S) == {p \in S \X S : Worse(p[1], p[2])}

\* Being worse is an order of the incidents.
LEMMA WorseRanks ==
    ASSUME NEW S, \A i \in S : Len(i.alerts) \in Nat
    PROVE  Ranks(WorseIn(S), S)
  <1> SUFFICES ASSUME NEW i \in S, NEW j \in S, NEW k \in S
               PROVE  /\ Worse(i, j) => ~Worse(j, i)
                      /\ Worse(i, k) => Worse(i, j) \/ Worse(j, k)
    BY DEF Ranks, WorseIn
  <1>1. /\ Rank(i.max_severity) \in Int /\ Rank(j.max_severity) \in Int
        /\ Rank(k.max_severity) \in Int
    BY RankIsNumber
  <1>2. Len(i.alerts) \in Nat /\ Len(j.alerts) \in Nat /\ Len(k.alerts) \in Nat
    OBVIOUS
  <1> QED BY <1>1, <1>2 DEF Worse

\* The incidents are those of the clusters, each at one place of theirs.
Laid(incidents, at, G, C) ==
    /\ OneToOne(at, 1..Len(incidents), PlacesUpTo(C, Len(C)))
    /\ \A n \in 1..Len(incidents) :
          incidents[n] = BuildIncident(G[at[n][1]], C[at[n][1]][at[n][2]])

AllClusters(C, G, alerts) ==
    /\ C = [i \in 1..Len(G) |-> ClustersOf(G[i], alerts)]
    /\ \A i \in 1..Len(G) : ClustersAll(C[i], G[i], alerts)

\* Joining and sorting the clusters' incidents leaves each one at one place.
LEMMA IncidentsLaid ==
    ASSUME NEW answer, NEW alerts, alerts = ActiveAlerts(answer), NEW G, G = Groups(alerts),
           Len(G) \in Nat, DOMAIN G = 1..Len(G), NEW C, AllClusters(C, G, alerts)
    PROVE  /\ DOMAIN CorrelateAlerts(answer) = 1..Len(CorrelateAlerts(answer))
           /\ Len(CorrelateAlerts(answer)) \in Nat
           /\ \E at : Laid(CorrelateAlerts(answer), at, G, C)
  <1> DEFINE A == ToSet(alerts)
             I == {BuildIncident(p[1], p[2]) : p \in ToSet(G) \X Seq(A)}
             P == [i \in 1..Len(G) |-> [c \in 1..Len(C[i]) |-> BuildIncident(G[i], C[i][c])]]
             U == FlattenSeq(P)
             V == ToSet(U)
             r == CorrelateAlerts(answer)
             Q == PlacesUpTo(C, Len(C))
  <1>1. \A i \in 1..Len(G) : /\ C[i] = ClustersOf(G[i], alerts) /\ C[i] \in Seq(Seq(A))
                             /\ Len(C[i]) \in Nat /\ DOMAIN C[i] = 1..Len(C[i])
    <2>1. \A i \in 1..Len(G) : C[i] = ClustersOf(G[i], alerts)
      BY DEF AllClusters
    <2>2. \A i \in 1..Len(G) : C[i] \in Seq(Seq(A))
      BY DEF AllClusters, ClustersAll
    <2> HIDE DEF A
    <2> QED BY <2>1, <2>2
  <1>2. Len(C) = Len(G)
    <2>1. C = [i \in 1..Len(G) |-> C[i]]
      BY DEF AllClusters
    <2> QED BY <2>1, FunctionIsList
  <1>3. r = Ordered(U, WorseIn(V))
    <2>1. \A i \in 1..Len(G) :
            IncidentsOf(G[i], alerts) = [c \in 1..Len(C[i]) |-> BuildIncident(G[i], C[i][c])]
      BY <1>1 DEF IncidentsOf, ClustersOf, Mapped
    <2>2. [i \in DOMAIN G |-> IncidentsOf(G[i], alerts)] = P
      BY <2>1
    <2>3. [i \in DOMAIN Groups(ActiveAlerts(answer)) |->
              IncidentsOf(Groups(ActiveAlerts(answer))[i], ActiveAlerts(answer))]
            = [i \in DOMAIN G |-> IncidentsOf(G[i], alerts)]
      OBVIOUS
    <2> DEFINE T == [i \in DOMAIN Groups(ActiveAlerts(answer)) |->
                       IncidentsOf(Groups(ActiveAlerts(answer))[i], ActiveAlerts(answer))]
    <2>4. CorrelateAlerts(answer) = Ordered(FlattenSeq(T), WorseIn(ToSet(FlattenSeq(T))))
      BY DEF CorrelateAlerts, SortedBy, WorseIn, Mapped
    <2>5. T = P
      BY <2>2, <2>3
    <2> HIDE DEF P, T
    <2> QED BY <2>4, <2>5
  <1>4. P \in Seq(Seq(I)) /\ Len(P) = Len(G)
    <2> DEFINE row(i) == [c \in 1..Len(C[i]) |-> BuildIncident(G[i], C[i][c])]
    <2>1. ASSUME NEW i \in 1..Len(G) PROVE row(i) \in Seq(I)
      <3>1. \A c \in 1..Len(C[i]) : C[i][c] \in Seq(A)
        <4> HIDE DEF A
        <4> QED BY <1>1
      <3>2. G[i] \in ToSet(G)
        BY DEF ToSet
      <3>3. \A c \in 1..Len(C[i]) : <<G[i], C[i][c]>> \in ToSet(G) \X Seq(A)
        <4> HIDE DEF A
        <4> QED BY <3>1, <3>2
      <3>4. \A c \in 1..Len(C[i]) : BuildIncident(G[i], C[i][c]) \in I
        <4> HIDE DEF A
        <4> TAKE c \in 1..Len(C[i])
        <4> DEFINE p == <<G[i], C[i][c]>>
        <4>1. p \in ToSet(G) \X Seq(A) /\ p[1] = G[i] /\ p[2] = C[i][c]
          BY <3>3
        <4> HIDE DEF p
        <4> QED BY <4>1
      <3> HIDE DEF I
      <3> QED BY <1>1, <3>4
    <2>2. P = [i \in 1..Len(G) |-> row(i)]
      OBVIOUS
    <2> HIDE DEF P, row, I
    <2> QED BY <2>1, <2>2
  <1>5. \A i \in I : Len(i.alerts) \in Nat
    BY DEF BuildIncident
  <1>6. PlacesUpTo(P, Len(P)) = Q
    <2>1. \A i \in 1..Len(G) : Len(P[i]) = Len(C[i])
      <3> TAKE i \in 1..Len(G)
      <3>1. P[i] = [c \in 1..Len(C[i]) |-> BuildIncident(G[i], C[i][c])]
        OBVIOUS
      <3> HIDE DEF P
      <3> QED BY <1>1, <3>1
    <2> HIDE DEF P
    <2> QED BY <1>2, <1>4, <2>1 DEF PlacesUpTo
  <1>7. \A i \in 1..Len(G) : \A c \in 1..Len(C[i]) : P[i][c] = BuildIncident(G[i], C[i][c])
    OBVIOUS
  <1> HIDE DEF P, I, r
  <1>8. U \in Seq(I) /\ \E loc : Locates(loc, U, P, Len(P))
    BY <1>4, FlattenPlaces
  <1> HIDE DEF U
  <1>9. PICK loc : Locates(loc, U, P, Len(P))
    BY <1>8
  <1>10. U \in Seq(V) /\ V \subseteq I /\ Len(U) \in Nat
    BY <1>8, SequencesOfElements
  <1> HIDE DEF V
  <1>11. Ranks(WorseIn(V), V)
    <2>1. \A i \in V : Len(i.alerts) \in Nat
      BY <1>5, <1>10
    <2> QED BY <2>1, WorseRanks
  <1>12. r \in Seq(V) /\ \E x : Rearranges(x, r, U)
    BY <1>3, <1>10, <1>11, OrderedRearranges
  <1>13. PICK x : Rearranges(x, r, U)
    BY <1>12
  <1>14. /\ x \in [1..Len(U) -> 1..Len(U)]
         /\ \A y \in 1..Len(U) : \E i \in 1..Len(U) : x[i] = y
         /\ \A i, j \in 1..Len(U) : x[i] = x[j] => i = j
         /\ Len(r) = Len(U)
         /\ \A i \in 1..Len(U) : r[i] = U[x[i]]
    BY <1>13 DEF Rearranges, OneToOne
  <1>15. /\ loc \in [1..Len(U) -> Q]
         /\ \A p \in Q : \E i \in 1..Len(U) : loc[i] = p
         /\ \A i, j \in 1..Len(U) : loc[i] = loc[j] => i = j
         /\ \A i \in 1..Len(U) : U[i] = P[loc[i][1]][loc[i][2]]
    BY <1>6, <1>9 DEF Locates
  <1>16. \A p \in Q : p[1] \in 1..Len(G) /\ p[2] \in 1..Len(C[p[1]])
    BY <1>2 DEF PlacesUpTo
  <1> HIDE DEF Q
  <1> DEFINE at == [n \in 1..Len(U) |-> loc[x[n]]]
  <1>17. OneToOne(at, 1..Len(U), Q)
    <2>1. at \in [1..Len(U) -> Q]
      BY <1>14, <1>15
    <2>2. \A p \in Q : \E n \in 1..Len(U) : at[n] = p
      BY <1>14, <1>15, SMTT(30)
    <2>3. \A n, m \in 1..Len(U) : at[n] = at[m] => n = m
      <3> SUFFICES ASSUME NEW n \in 1..Len(U), NEW m \in 1..Len(U), at[n] = at[m]
                   PROVE  n = m
        OBVIOUS
      <3>1. at[n] = loc[x[n]] /\ at[m] = loc[x[m]]
        OBVIOUS
      <3>2. x[n] \in 1..Len(U) /\ x[m] \in 1..Len(U)
        BY <1>14
      <3> HIDE DEF at
      <3>3. loc[x[n]] = loc[x[m]]
        BY <3>1
      <3>4. x[n] = x[m]
        BY <1>15, <3>2, <3>3
      <3> QED BY <1>14, <3>4
    <2> HIDE DEF at
    <2> QED BY <2>1, <2>2, <2>3 DEF OneToOne
  <1>18. \A n \in 1..Len(U) : r[n] = BuildIncident(G[at[n][1]], C[at[n][1]][at[n][2]])
    <2> TAKE n \in 1..Len(U)
    <2>1. x[n] \in 1..Len(U) /\ at[n] = loc[x[n]]
      BY <1>14
    <2>2. r[n] = P[at[n][1]][at[n][2]] /\ at[n] \in Q
      BY <1>14, <1>15, <2>1
    <2> HIDE DEF at
    <2> QED BY <1>7, <1>16, <2>2
  <1> HIDE DEF at
  <1>19. Laid(r, at, G, C)
    BY <1>14, <1>17, <1>18 DEF Laid, Q
  <1>20. DOMAIN r = 1..Len(r) /\ Len(r) \in Nat
    BY <1>12
  <1> QED BY <1>19, <1>20 DEF r

\* An incident is the cluster its place names, with the service of that.
LEMMA IncidentAt ==
    ASSUME NEW r, NEW at, NEW G, Len(G) \in Nat, NEW C, NEW alerts, Laid(r, at, G, C),
           AllClusters(C, G, alerts), NEW n \in 1..Len(r)
    PROVE  /\ at[n] \in Nat \X Nat /\ at[n][1] \in 1..Len(G)
           /\ at[n][2] \in 1..Len(C[at[n][1]]) /\ at[n] \in PlacesUpTo(C, Len(C))
           /\ r[n] = BuildIncident(G[at[n][1]], C[at[n][1]][at[n][2]])
           /\ r[n].service_name = G[at[n][1]] /\ r[n].alerts = C[at[n][1]][at[n][2]]
  <1>1. Len(C) = Len(G)
    <2>1. C = [i \in 1..Len(G) |-> C[i]]
      BY DEF AllClusters
    <2> QED BY <2>1, FunctionIsList
  <1>2. at[n] \in PlacesUpTo(C, Len(C))
    BY DEF Laid, OneToOne
  <1>3. at[n] \in Nat \X Nat /\ at[n][1] \in 1..Len(G) /\ at[n][2] \in 1..Len(C[at[n][1]])
    BY <1>1, <1>2 DEF PlacesUpTo
  <1>4. r[n] = BuildIncident(G[at[n][1]], C[at[n][1]][at[n][2]])
    BY DEF Laid
  <1>5. \A g, c : BuildIncident(g, c).service_name = g /\ BuildIncident(g, c).alerts = c
    BY DEF BuildIncident
  <1> HIDE DEF Laid, AllClusters
  <1> QED BY <1>2, <1>3, <1>4, <1>5

\* Each incident is one service's chain of alerts, as severe as the most severe of them.
LEMMA IncidentIsChain ==
    ASSUME NEW r, NEW at, NEW G, Len(G) \in Nat, NEW C, NEW alerts, Laid(r, at, G, C),
           AllClusters(C, G, alerts), NEW n \in 1..Len(r)
    PROVE  /\ r[n].alerts \in Seq(ToSet(alerts)) /\ IsChain(r[n].alerts)
           /\ \A a \in ToSet(r[n].alerts) :
                 Group(a) = r[n].service_name /\ Rank(Lower(a.severity)) <= Rank(r[n].max_severity)
  <1> DEFINE i == at[n][1]
             k == at[n][2]
             c == C[i][k]
  <1>1. /\ i \in 1..Len(G) /\ k \in 1..Len(C[i]) /\ r[n] = BuildIncident(G[i], c)
        /\ r[n].service_name = G[i] /\ r[n].alerts = c
    BY IncidentAt
  <1> HIDE DEF i, k
  <1>2. ClustersAll(C[i], G[i], alerts)
    BY <1>1 DEF AllClusters
  <1>3. /\ C[i] \in Seq(Seq(ToSet(alerts))) /\ c # <<>> /\ IsChain(c)
        /\ \A a \in ToSet(c) : Group(a) = G[i]
    BY <1>1, <1>2 DEF ClustersAll
  <1>4. c \in Seq(ToSet(alerts))
    BY <1>1, <1>3
  <1> HIDE DEF c
  <1>5. \A a \in ToSet(c) : Rank(Lower(a.severity)) <= Rank(BuildIncident(G[i], c).max_severity)
    BY <1>3, <1>4, WorstOfAlerts
  <1> QED BY <1>1, <1>3, <1>4, <1>5

\* Two incidents of a service are more than a window apart.
LEMMA IncidentsApart ==
    ASSUME NEW r, NEW at, NEW G, Len(G) \in Nat, NEW C, NEW alerts, Laid(r, at, G, C),
           AllClusters(C, G, alerts), \A i, j \in 1..Len(G) : G[i] = G[j] => i = j,
           NEW n \in 1..Len(r), NEW m \in 1..Len(r), n # m, r[n].service_name = r[m].service_name
    PROVE  Apart(r[n].alerts, r[m].alerts)
  <1> DEFINE i == at[n][1]
             k == at[n][2]
             l == at[m][2]
  <1>1. /\ at[n] \in Nat \X Nat /\ i \in 1..Len(G) /\ k \in 1..Len(C[i])
        /\ r[n].service_name = G[i] /\ r[n].alerts = C[i][k]
    BY IncidentAt
  <1>2. /\ at[m] \in Nat \X Nat /\ at[m][1] \in 1..Len(G) /\ l \in 1..Len(C[at[m][1]])
        /\ r[m].service_name = G[at[m][1]] /\ r[m].alerts = C[at[m][1]][l]
    BY IncidentAt
  <1>3. at[m][1] = i
    BY <1>1, <1>2
  <1>4. k # l
    <2>1. at[n] # at[m]
      BY DEF Laid, OneToOne
    <2> QED BY <1>1, <1>2, <1>3, <2>1, SMTT(30)
  <1>5. ClustersAll(C[i], G[i], alerts)
    BY <1>1 DEF AllClusters
  <1>6. \A p, q \in 1..Len(C[i]) : p < q => Ahead(C[i][p], C[i][q])
    BY <1>5 DEF ClustersAll
  <1>7. k \in Nat /\ l \in Nat /\ l \in 1..Len(C[i]) /\ r[m].alerts = C[i][l]
    BY <1>1, <1>2, <1>3
  <1> HIDE DEF i, k, l
  <1>8. k < l \/ l < k
    BY <1>4, <1>7
  <1>9. Ahead(r[n].alerts, r[m].alerts) \/ Ahead(r[m].alerts, r[n].alerts)
    BY <1>1, <1>6, <1>7, <1>8
  <1> QED BY <1>9 DEF Ahead, Apart

\* The incidents hold an alert as often as there is one.
LEMMA IncidentsHold ==
    ASSUME NEW r, NEW at, NEW G, Len(G) \in Nat, NEW C, NEW alerts, Laid(r, at, G, C),
           AllClusters(C, G, alerts), \A i, j \in 1..Len(G) : G[i] = G[j] => i = j,
           Len(r) \in Nat, NEW L, L = [n \in 1..Len(r) |-> r[n].alerts],
           NEW a \in ToSet(alerts), NEW i \in 1..Len(G), G[i] = Group(a)
    PROVE  Cardinality(PlacesOf(a, L)) = Cardinality(At(alerts, {a}))
  <1> DEFINE A == PlacesOf(a, L)
             B == PlacesOf(a, C[i])
             h == [p \in A |-> <<at[p[1]][2], p[2]>>]
  <1>1. L \in Seq(Seq(ToSet(alerts))) /\ Len(L) = Len(r)
    <2>1. \A n \in 1..Len(r) : r[n].alerts \in Seq(ToSet(alerts))
      BY IncidentIsChain
    <2> QED BY <2>1
  <1>2. \A n \in 1..Len(r) :
          /\ at[n] \in Nat \X Nat /\ at[n][1] \in 1..Len(G) /\ at[n][2] \in 1..Len(C[at[n][1]])
          /\ r[n].alerts = C[at[n][1]][at[n][2]] /\ r[n].service_name = G[at[n][1]]
    BY IncidentAt
  <1>3. \A n \in 1..Len(r) : L[n] = C[at[n][1]][at[n][2]]
    BY <1>2
  <1>4. \A p : p \in A <=> /\ p \in (1..Len(r)) \X Nat /\ p[2] \in 1..Len(L[p[1]])
                           /\ L[p[1]][p[2]] = a
    BY <1>1 DEF PlacesOf, PlacesUpTo
  <1>5. \A p : p \in B <=> /\ p \in (1..Len(C[i])) \X Nat /\ p[2] \in 1..Len(C[i][p[1]])
                           /\ C[i][p[1]][p[2]] = a
    BY DEF PlacesOf, PlacesUpTo
  <1>6. IsFiniteSet(A)
    BY <1>1, CountFlattened
  <1> HIDE DEF A, B
  <1>7. \A p \in A : at[p[1]][1] = i
    <2> TAKE p \in A
    <2>1. p[1] \in 1..Len(r) /\ p[2] \in 1..Len(L[p[1]]) /\ L[p[1]][p[2]] = a
      BY <1>4, SMTT(30)
    <2>2. a \in ToSet(L[p[1]])
      BY <2>1, <1>1 DEF ToSet
    <2>3. L[p[1]] = r[p[1]].alerts
      BY <2>1
    <2>4. Group(a) = r[p[1]].service_name
      BY <2>1, <2>2, <2>3, IncidentIsChain
    <2> QED BY <1>2, <2>1, <2>4, ZenonT(60)
  <1>8. \A p \in A : h[p] \in B
    <2> TAKE p \in A
    <2>1. p[1] \in 1..Len(r) /\ p[2] \in Nat /\ p[2] \in 1..Len(L[p[1]]) /\ L[p[1]][p[2]] = a
      BY <1>4, SMTT(30)
    <2>2. at[p[1]][2] \in 1..Len(C[i]) /\ L[p[1]] = C[i][at[p[1]][2]]
      BY <1>2, <1>3, <1>7, <2>1
    <2> DEFINE q == <<at[p[1]][2], p[2]>>
    <2>3. h[p] = q /\ q[1] = at[p[1]][2] /\ q[2] = p[2]
      OBVIOUS
    <2>4. q \in (1..Len(C[i])) \X Nat
      BY <2>1, <2>2
    <2> HIDE DEF q, h
    <2> QED BY <1>5, <2>1, <2>2, <2>3, <2>4
  <1>9. \A q \in B : \E p \in A : h[p] = q
    <2> TAKE q \in B
    <2>1. /\ q \in (1..Len(C[i])) \X Nat /\ q[1] \in 1..Len(C[i]) /\ q[2] \in Nat
          /\ q[2] \in 1..Len(C[i][q[1]]) /\ C[i][q[1]][q[2]] = a /\ q = <<q[1], q[2]>>
      BY <1>5
    <2> DEFINE c == <<i, q[1]>>
    <2>2. c \in PlacesUpTo(C, Len(C)) /\ c[1] = i /\ c[2] = q[1]
      <3>1. Len(C) = Len(G)
        <4>1. C = [j \in 1..Len(G) |-> C[j]]
          BY DEF AllClusters
        <4> QED BY <4>1, FunctionIsList
      <3> QED BY <2>1, <3>1 DEF PlacesUpTo
    <2> HIDE DEF c
    <2>3. PICK n \in 1..Len(r) : at[n] = c
      BY <2>2 DEF Laid, OneToOne
    <2> DEFINE p == <<n, q[2]>>
    <2>4. p[1] = n /\ p[2] = q[2] /\ p \in (1..Len(r)) \X Nat
      BY <2>1
    <2> HIDE DEF p
    <2>5. L[n] = C[i][q[1]]
      BY <1>3, <2>2, <2>3
    <2>6. p \in A
      BY <1>4, <2>1, <2>4, <2>5
    <2>7. h[p] = <<at[n][2], q[2]>>
      BY <2>4, <2>6
    <2> HIDE DEF h
    <2>8. h[p] = q
      BY <2>1, <2>2, <2>3, <2>7
    <2> QED BY <2>6, <2>8
  <1>10. \A p, q \in A : h[p] = h[q] => p = q
    <2> SUFFICES ASSUME NEW p \in A, NEW q \in A, h[p] = h[q] PROVE p = q
      OBVIOUS
    <2>1. at[p[1]][2] = at[q[1]][2] /\ p[2] = q[2]
      OBVIOUS
    <2>2. /\ p[1] \in 1..Len(r) /\ q[1] \in 1..Len(r)
          /\ p = <<p[1], p[2]>> /\ q = <<q[1], q[2]>>
      BY <1>4
    <2> HIDE DEF h
    <2>3. at[p[1]] = at[q[1]]
      <3>1. at[p[1]] \in Nat \X Nat /\ at[q[1]] \in Nat \X Nat
        BY <1>2, <2>2
      <3> QED BY <1>7, <2>1, <3>1, SMTT(30)
    <2>4. p[1] = q[1]
      BY <2>2, <2>3 DEF Laid, OneToOne
    <2> QED BY <2>1, <2>2, <2>4, Zenon
  <1>11. h \in [A -> B]
    <2>1. h = [p \in A |-> h[p]]
      OBVIOUS
    <2> HIDE DEF h
    <2> QED BY <1>8, <2>1
  <1> HIDE DEF h
  <1>12. OneToOne(h, A, B)
    BY <1>9, <1>10, <1>11 DEF OneToOne
  <1>13. Cardinality(A) = Cardinality(B)
    BY <1>6, <1>12, SameSize
  <1>14. Cardinality(B) = Cardinality(At(alerts, {a}))
    <2>1. ClustersAll(C[i], G[i], alerts)
      BY DEF AllClusters
    <2>2. a \in OfGroup(alerts, G[i])
      BY DEF OfGroup
    <2> QED BY <2>1, <2>2 DEF ClustersAll, B
  <1> QED BY <1>13, <1>14 DEF A

\* The incidents of any list of dated alerts split it.
LEMMA IncidentsPartition ==
    ASSUME Window \in Int, NEW answer, NEW alerts, alerts = ActiveAlerts(answer),
           alerts \in Seq(ToSet(alerts)), StartsAreTimes(alerts)
    PROVE  Partitions(CorrelateAlerts(answer), alerts)
  <1> DEFINE S == ToSet(alerts)
             G == Groups(alerts)
             C == [i \in 1..Len(G) |-> ClustersOf(G[i], alerts)]
             r == CorrelateAlerts(answer)
             L == [n \in 1..Len(r) |-> r[n].alerts]
             members == FlattenSeq(L)
  <1>1. KeysUpTo(G, alerts, Len(alerts))
    BY GroupsListed
  <1>2. /\ Len(G) \in Nat /\ DOMAIN G = 1..Len(G)
        /\ \A i, j \in 1..Len(G) : G[i] = G[j] => i = j
    BY <1>1 DEF KeysUpTo
  <1>3. \A a \in S : \E i \in 1..Len(G) : G[i] = Group(a)
    <2> TAKE a \in S
    <2>1. PICK k \in 1..Len(alerts) : a = alerts[k]
      BY DEF ToSet
    <2> HIDE DEF G
    <2> QED BY <1>1, <2>1 DEF KeysUpTo
  <1> HIDE DEF G
  <1>4. AllClusters(C, G, alerts)
    <2>1. \A i \in 1..Len(G) : ClustersAll(ClustersOf(G[i], alerts), G[i], alerts)
      BY ClustersOfGroup
    <2> QED BY <2>1 DEF AllClusters
  <1> HIDE DEF C
  <1>5. /\ DOMAIN r = 1..Len(r) /\ Len(r) \in Nat
        /\ \E at : Laid(r, at, G, C)
    BY <1>2, <1>4, IncidentsLaid DEF G
  <1>6. Mapped(r, LAMBDA i : i.alerts) = L
    BY <1>5 DEF Mapped
  <1> HIDE DEF r
  <1>7. PICK at : Laid(r, at, G, C)
    BY <1>5
  <1>8. \A n \in 1..Len(r) :
          /\ r[n].alerts \in Seq(S) /\ IsChain(r[n].alerts)
          /\ \A a \in ToSet(r[n].alerts) :
                Group(a) = r[n].service_name /\ Rank(Lower(a.severity)) <= Rank(r[n].max_severity)
    BY <1>2, <1>4, <1>7, IncidentIsChain
  <1>9. \A n, m \in 1..Len(r) :
          n # m /\ r[n].service_name = r[m].service_name => Apart(r[n].alerts, r[m].alerts)
    BY <1>2, <1>4, <1>7, IncidentsApart
  <1>10. L \in Seq(Seq(S)) /\ Len(L) = Len(r)
    <2> HIDE DEF S
    <2> QED BY <1>5, <1>8
  <1>11. \A a \in S : Cardinality(PlacesOf(a, L)) = Cardinality(At(alerts, {a}))
    <2> TAKE a \in S
    <2>1. PICK i \in 1..Len(G) : G[i] = Group(a)
      BY <1>3
    <2> QED BY <1>2, <1>4, <1>5, <1>7, <2>1, IncidentsHold
  <1> HIDE DEF L
  <1>12. members \in Seq(S)
    <2> HIDE DEF S
    <2> QED BY <1>10, JoinedIsList
  <1>13. \A a \in S : Occurrences(a, members) = Occurrences(a, alerts)
    <2> TAKE a \in S
    <2>1. Cardinality(At(members, {a})) = Cardinality(PlacesOf(a, L))
      <3> HIDE DEF S
      <3> QED BY <1>10, CountFlattened
    <2>2. members \in Seq(ToSet(members))
      <3> HIDE DEF S, members
      <3> QED BY <1>12, SequencesOfElements
    <2> HIDE DEF members
    <2>3. Occurrences(a, members) = Cardinality(At(members, {a}))
      BY <2>2, CountOne DEF Occurrences
    <2>4. Occurrences(a, alerts) = Cardinality(At(alerts, {a}))
      BY CountOne DEF Occurrences
    <2> QED BY <1>11, <2>1, <2>3, <2>4
  <1>14. S \cup ToSet(members) = S
    <2> HIDE DEF S, members
    <2> QED BY <1>12, SequencesOfElements
  <1> HIDE DEF members
  <1> DEFINE all == FlattenSeq(Mapped(r, LAMBDA i : i.alerts))
  <1>15. all = members
    BY <1>6 DEF members
  <1>16. \A a \in ToSet(alerts) \cup ToSet(all) : Occurrences(a, all) = Occurrences(a, alerts)
    <2> HIDE DEF all
    <2> QED BY <1>13, <1>14, <1>15
  <1> HIDE DEF S
  <1>17. Partitions(r, alerts)
    BY <1>5, <1>8, <1>9, <1>16 DEF Partitions
  <1> QED BY <1>17 DEF r

\* Reading the alerts keeps when they started.
LEMMA ActiveStay ==
    ASSUME NEW answer, answer \in Seq(ToSet(answer)),
           \A a \in ToSet(answer) :
              /\ a = [name |-> a.name, severity |-> a.severity, labels |-> a.labels,
                      started |-> a.started]
              /\ a.started \in Int \cup {None}
    PROVE  /\ ActiveAlerts(answer) \in Seq(ToSet(ActiveAlerts(answer)))
           /\ StartsAreTimes(ActiveAlerts(answer))
  <1> DEFINE read(a) == [a EXCEPT !.severity = IF a.severity = None THEN "unknown" ELSE a.severity]
             r == [i \in 1..Len(answer) |-> read(answer[i])]
  <1>1. ActiveAlerts(answer) = r
    BY DEF ActiveAlerts, Mapped
  <1>2. Len(answer) \in Nat /\ r = [i \in 1..Len(answer) |-> r[i]]
    OBVIOUS
  <1>3. \A i \in 1..Len(answer) : answer[i] \in ToSet(answer)
    BY DEF ToSet
  <1>4. \A a \in ToSet(answer) : read(a).started = a.started
    <2> TAKE a \in ToSet(answer)
    <2>1. a = [name |-> a.name, severity |-> a.severity, labels |-> a.labels,
               started |-> a.started]
      OBVIOUS
    <2> QED BY <2>1
  <1>5. \A i \in 1..Len(answer) : r[i] = read(answer[i])
    OBVIOUS
  <1> HIDE DEF r, read
  <1>6. r \in Seq(ToSet(r)) /\ DOMAIN r = 1..Len(answer)
    BY <1>2, FunctionIsList
  <1>7. StartsAreTimes(r)
    <2>1. \A i \in 1..Len(answer) : r[i].started \in Int \cup {None}
      BY <1>3, <1>4, <1>5
    <2> QED BY <1>6, <2>1 DEF StartsAreTimes, ToSet
  <1> QED BY <1>1, <1>6, <1>7

=============================================================================
