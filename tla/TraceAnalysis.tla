---------------------------- MODULE TraceAnalysis ----------------------------
(***************************************************************************)
(* What is made of the traces Jaeger returns: the slow spans of a service  *)
(* and the critical path of a trace.                                       *)
(*                                                                         *)
(*   ai_platform/tools/trace_agent.py                                      *)
(*                                                                         *)
(* A trace is [id, spans], a span [id, parents, start, duration]: parents  *)
(* are its CHILD_OF references, in order.  Span ids are unique in a trace. *)
(***************************************************************************)
EXTENDS PythonLists

CONSTANTS
    NoParent,   \* no CHILD_OF reference inside the trace
    Endless     \* what a walk that never returns returns

EndTime(span) == span.start + span.duration

LatestEnding(spans) == FirstMax(spans, EndTime)

\* What Jaeger sends as the spans of one trace
IsTrace(spans) ==
    /\ spans \in Seq(ToSet(spans))
    /\ \A i, j \in 1..Len(spans) : spans[i].id = spans[j].id => i = j
    /\ \A s \in ToSet(spans) :
          /\ s.id # NoParent
          /\ s.parents \in Seq(ToSet(s.parents))
          /\ s.start \in Int /\ s.duration \in Int
    /\ Endless \notin Seq({s.id : s \in ToSet(spans)})

SlowSpans(traces, threshold, limit) ==
    LET SlowOf(t) == Mapped(Kept(t.spans, LAMBDA s : s.duration >= threshold),
                            LAMBDA s : [trace_id |-> t.id, span_id |-> s.id,
                                        duration |-> s.duration])
        Longer(a, b) == a.duration > b.duration
    IN  Take(SortedBy(FlattenSeq(Mapped(traces, SlowOf)), Longer), limit)

-----------------------------------------------------------------------------
\* A reference to a span that is not in the trace does not count.
ParentOf(span, spans) ==
    LET ids    == {s.id : s \in ToSet(spans)}
        inside == Kept(span.parents, LAMBDA p : p \in ids)
    IN  IF inside = <<>> THEN NoParent ELSE inside[1]

\* Mutant: the trace's first root is taken for its only one.
FirstRoot(spans) ==
    LET roots == Kept(spans, LAMBDA s : ParentOf(s, spans) = NoParent)
    IN  IF roots = <<>> THEN <<spans[1]>> ELSE <<roots[1]>>

Roots(spans) ==
    LET roots == Kept(spans, LAMBDA s : ParentOf(s, spans) = NoParent)
    IN  IF roots = <<>> THEN <<spans[1]>> ELSE roots

\* The child a round of the loop goes on to: the one that finishes latest
NextOn(spans) ==
    [id \in {s.id : s \in ToSet(spans)} |->
        LET kids == Kept(spans, LAMBDA s : ParentOf(s, spans) = id)
        IN  IF kids = <<>> THEN NoParent ELSE LatestEnding(kids).id]

\* The span of each round; still at one after as many rounds as there are spans, the
\* walk goes round.
CriticalPath(spans) ==
    LET onto == NextOn(spans)
        at[n \in 0..Len(spans)] ==
            IF n = 0 THEN LatestEnding(Roots(spans)).id
            ELSE LET before == at[n - 1]
                 IN  IF before = NoParent THEN NoParent ELSE onto[before]
    IN  IF at[Len(spans)] # NoParent THEN Endless
        ELSE Kept([n \in 1..Len(spans) |-> at[n - 1]], LAMBDA id : id # NoParent)

\* get_critical_path(), of a trace that may be unknown
PathOf(spans) == IF spans = <<>> THEN <<>> ELSE CriticalPath(spans)

\* get_trace_summary() fetches the trace, and fetches it again for the path.
SummaryPath(first, second) == IF first = <<>> THEN <<>> ELSE PathOf(second)

-----------------------------------------------------------------------------
\* What the path promises.

SpanOf(id, spans) == CHOOSE s \in ToSet(spans) : s.id = id

Parents(spans) == [id \in {s.id : s \in ToSet(spans)} |-> ParentOf(SpanOf(id, spans), spans)]

\* The critical path of a trace that has a root exists, starts at a root, goes from
\* parent to child to a span without children, and every other child of a span on
\* it, and every other root, ended no later than the one taken (get_critical_path).
IsCriticalPath(path, spans) ==
    LET up         == Parents(spans)
        Latest(id) == \A s \in ToSet(spans) :
                         up[s.id] = up[id] => EndTime(s) <= EndTime(SpanOf(id, spans))
    IN  /\ path # Endless
        /\ up[path[1]] = NoParent
        /\ \A i \in 1..(Len(path) - 1) : up[path[i + 1]] = path[i]
        /\ \A i \in DOMAIN path : Latest(path[i])
        /\ \A s \in ToSet(spans) : up[s.id] # Last(path)
=============================================================================
