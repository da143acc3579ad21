--------------------------- MODULE IncidentHistory ---------------------------
(***************************************************************************)
(* What is read from the incident registry and the playbooks: the history  *)
(* of a service, the incidents and playbooks most like a description, the  *)
(* key figures of the Operations Hub.                                      *)
(*                                                                         *)
(*   ai_platform/tools/incident_store.py     query_history                 *)
(*   ai_platform/tools/incident_search.py, semantic_search.py              *)
(*   ai_platform/tools/knowledge_base.py                                   *)
(*   ai_platform/webui/server.py             operations_hub                *)
(*                                                                         *)
(* Time is counted in ticks, DayLength of them a calendar day.             *)
(***************************************************************************)
EXTENDS PythonLists

CONSTANTS
    NoService,      \* a record or a filter without a service
    Parts,          \* service -> the filters that occur in its name, case ignored
    DayLength

ASSUME DaysLast == DayLength \in Nat \ {0}

Newest(r, s) == r.created > s.created

\* created_at is written by the program, so it parses.
Since(records, cutoff) == Kept(records, LAMBDA r : r.created >= cutoff)

\* Mutant: in the order of the dict.
ListedAsStored(records) == records

\* list()
Listed(records) == SortedBy(records, Newest)

QueryHistory(records, now, service, window, limit) ==
    LET recent == Since(records, now - window)
        about  == Kept(recent, LAMBDA r :
                      service = NoService \/ (r.service # NoService /\ service \in Parts[r.service]))
    IN  Take(SortedBy(about, Newest), limit)

-----------------------------------------------------------------------------
\* rank_by_similarity(): the indexes of the documents that score at least `floor`,
\* best first.  A vocabulary of stop words only ranks nothing.
RankBySimilarity(score, floor, top_k, usable) ==
    LET matches == Kept([i \in DOMAIN score |-> [index |-> i, score |-> score[i]]],
                             LAMBDA m : m.score >= floor)
        Better(m, k) == m.score > k.score
    IN  IF usable THEN Take(SortedBy(matches, Better), top_k) ELSE <<>>

\* Mutant: a rank is taken for a place in the list before the filter.
SearchUnfiltered(documents, scoreOf, floor, top_k, usable) ==
    LET indexed == Kept(documents, LAMBDA d : d.text)
        ranked  == RankBySimilarity(Mapped(indexed, LAMBDA d : scoreOf[d.id]), floor, top_k, usable)
    IN  Mapped(ranked, LAMBDA m : [id |-> documents[m.index].id, similarity |-> m.score])

\* Only what has text is indexed: a rank is a place in `indexed`, not in `documents`.
Search(documents, scoreOf, floor, top_k, usable) ==
    LET indexed == Kept(documents, LAMBDA d : d.text)
        ranked  == RankBySimilarity(Mapped(indexed, LAMBDA d : scoreOf[d.id]), floor, top_k, usable)
    IN  IF indexed = <<>> THEN <<>>
        ELSE Mapped(ranked, LAMBDA m : [id |-> indexed[m.index].id, similarity |-> m.score])

\* load_knowledge_base(): no README, nothing empty
Playbooks(files) == Kept(files, LAMBDA f : ~f.readme /\ f.text)

\* The matches carry their own document's score, best first, and nothing left out
\* is indexed and better than what is shown (search_similar_incidents,
\* search_knowledge_base: the index mapping through two filtered lists).
BestMatches(matches, documents, scoreOf, floor, top_k) ==
    LET candidates == {d \in ToSet(documents) : d.text /\ scoreOf[d.id] >= floor}
        shown      == {m.id : m \in ToSet(matches)}
    IN  /\ \A m \in ToSet(matches) : m.similarity = scoreOf[m.id]
        /\ shown \subseteq {d.id : d \in candidates}
        /\ Cardinality(shown) = Len(matches)
        /\ Len(matches) = IF Cardinality(candidates) < top_k THEN Cardinality(candidates) ELSE top_k
        /\ \A d \in candidates : d.id \notin shown =>
              \A m \in ToSet(matches) : m.similarity >= scoreOf[d.id]

-----------------------------------------------------------------------------
Day(t) == t \div DayLength

Resolved(r) == r.status \in {"completed", "resolved"}

Bucket(r) == IF Resolved(r) THEN "resolved"
             ELSE IF r.status \in {"error", "awaiting_approval"} THEN r.status
             ELSE "investigating"

\* Twice the median of some numbers
TwiceMedian(numbers) ==
    LET s == SortedBy(numbers, LAMBDA d, e : d < e)
        n == Len(s)
    IN  s[(n + 1) \div 2] + s[(n + 2) \div 2]

OperationsHub(records, now, range_days) ==
    LET listed   == Since(Listed(records), now - range_days * DayLength)
        resolved == Kept(listed, Resolved)
        took     == Kept(Mapped(resolved, LAMBDA r : r.updated - r.created), LAMBDA d : d >= 0)
        days     == (Day(now) - range_days + 1)..Day(now)
    IN  [total    |-> Len(listed),
         resolved |-> Len(resolved),
         pending  |-> Len(Kept(listed, LAMBDA r : r.status = "awaiting_approval")),
         median   |-> IF took = <<>> THEN -1 ELSE TwiceMedian(took),
         daily    |-> [day \in days |->
                         [b \in {"resolved", "investigating", "awaiting_approval", "error"} |->
                             Len(Kept(listed, LAMBDA r : Day(r.created) = day /\ Bucket(r) = b))]],
         recent   |-> Take(listed, 5)]

\* The figures and the chart of one answer agree: what the chart lacks of the total
\* are the incidents of the calendar day the window begins in, every bar's part of
\* the resolved and pending figures included, and the figures count what the
\* history of the same window holds (operations_hub, query_history).
FiguresAgree(hub, records, now, range_days) ==
    LET first    == Day(now) - range_days
        Bar(b)   == Total([k \in 1..range_days |-> hub.daily[first + k][b]])
        history  == QueryHistory(records, now, NoService, range_days * DayLength, Len(records))
        uncharted == Kept(history, LAMBDA r : Day(r.created) = first)
        Late(b)  == Len(Kept(uncharted, LAMBDA r : Bucket(r) = b))
    IN  /\ hub.total = Len(history)
        /\ hub.total = Len(uncharted) + Bar("resolved") + Bar("error")
                        + Bar("awaiting_approval") + Bar("investigating")
        /\ hub.resolved = Bar("resolved") + Late("resolved")
        /\ hub.pending = Bar("awaiting_approval") + Late("awaiting_approval")
        /\ hub.recent = Take(history, 5)
=============================================================================
