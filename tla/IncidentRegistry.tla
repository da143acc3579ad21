-------------------------- MODULE IncidentRegistry --------------------------
(***************************************************************************)
(* What ai_platform/tools/incident_store.py promises its callers: a table  *)
(* of incidents keyed by fingerprint whose operations are atomic and whose *)
(* content survives the process.  A crash is therefore no step of it.      *)
(***************************************************************************)
CONSTANTS
    Fingerprints,   \* keys of the table
    Threads,        \* conversation ids
    None            \* Python's None and SQL's NULL

VARIABLE table

\* The columns the code tells apart; texts are reduced to present or absent.
Row ==
    [thread  : Threads,
     status  : {"investigating", "awaiting_approval", "completed", "error", "resolved"},
     content : {None, "report"},
     pending : {None, "action"},
     error   : {None, "failure"}]

NewRow(t) ==
    [thread |-> t, status |-> "investigating", content |-> None,
     pending |-> None, error |-> None]

\* An attribute and the value it gets.
FieldWrite ==
    { <<"status", "resolved">>, <<"status", "error">>, <<"status", "completed">>,
      <<"status", "awaiting_approval">>, <<"error", "failure">>, <<"content", "report">>,
      <<"content", None>>, <<"pending", "action">>, <<"pending", None>> }

\* The keyword arguments of the calls of update(), in the order they are set.
FieldWrites ==
    { << <<"status", "resolved">> >>,
      << <<"status", "error">>, <<"error", "failure">> >>,
      << <<"status", "completed">>, <<"content", "report">>, <<"pending", None>> >>,
      << <<"status", "awaiting_approval">>, <<"content", None>>,
         <<"pending", "action">> >> }

\* The row after one write, and after all of a call's (no call sets a field twice).
Set(row, write) == [row EXCEPT ![write[1]] = write[2]]

Written(row, writes) ==
    [column \in DOMAIN row |->
        IF \E i \in DOMAIN writes : writes[i][1] = column
        THEN writes[CHOOSE i \in DOMAIN writes : writes[i][1] = column][2]
        ELSE row[column]]

Init == table \in [Fingerprints -> Row \cup {None}]

Create(f) == \E t \in Threads : table' = [table EXCEPT ![f] = NewRow(t)]

Update(f) ==
    /\ table[f] # None
    /\ \E w \in FieldWrites : table' = [table EXCEPT ![f] = Written(@, w)]

Next == \E f \in Fingerprints : Create(f) \/ Update(f)

Spec == Init /\ [][Next]_table
=============================================================================
