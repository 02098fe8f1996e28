----------------------------- MODULE FluxTables -----------------------------
(***************************************************************************)
(* Reference meaning of the Flux transformations the pushdown rules        *)
(* replace: range, filter, group, window and the aggregates and selectors. *)
(* A stream of tables is a record [cols, rows]: the group-key columns and   *)
(* the set of rows of all its tables; a table is the rows sharing the      *)
(* values of the key columns.  A column a row lacks (a tag its series does *)
(* not have) is null.                                                      *)
(*                                                                         *)
(* Times are integers; a mean is kept exactly as Scale * sum \div count    *)
(* with Scale a multiple of every count that occurs.  Selectors break ties *)
(* by the earlier _time.                                                   *)
(***************************************************************************)
EXTENDS Integers, Sequences, SequencesExt, FiniteSets

CONSTANTS
    FieldKeyTagKey, MeasurementTagKey, NoExpr, ObjectName,
    Tags,           \* tag keys a series may carry
    Start, Stop,    \* the range() bounds, [Start, Stop)
    Scale           \* fixed-point scale of mean values

INSTANCE PredicateSemantics

T(x)   == [type |-> "time", v |-> x]
Num(x) == [type |-> "number", v |-> x]

\* The group key of a table read from storage: the series key and the
\* range bounds.
SeriesKey == {MeasurementKey, FieldKey, "_start", "_stop"} \union Tags

KeyOf(r, cols) == [c \in cols \cap DOMAIN r |-> r[c]]

TablesOf(s) ==
    {{r \in s.rows : KeyOf(r, s.cols) = k} : k \in {KeyOf(r, s.cols) : r \in s.rows}}

\* range(start, stop) over the points of a bucket.
RangeOp(points) ==
    [cols |-> SeriesKey,
     rows |-> {r @@ ("_start" :> T(Start) @@ "_stop" :> T(Stop)) :
                 r \in {p \in points : Start <= p["_time"].v /\ p["_time"].v < Stop}}]

FilterOp(e, s) == [s EXCEPT !.rows = {r \in @ : EvalExpr(e, r)}]

\* group(columns, mode): by the listed columns, or by every other column.
GroupOp(mode, keys, s) ==
    [s EXCEPT !.cols = IF mode = "by" THEN keys
                       ELSE UNION {DOMAIN r : r \in s.rows} \ keys]

\* window(every): tumbling windows aligned to the epoch, clipped to the
\* range bounds, replacing _start and _stop.
WindowOf(t, every) ==
    LET lo == (t \div every) * every
    IN  <<IF lo < Start THEN Start ELSE lo,
          IF lo + every > Stop THEN Stop ELSE lo + every>>

WindowOp(every, s) ==
    [cols |-> s.cols \union {"_start", "_stop"},
     rows |-> {[r EXCEPT !["_start"] = T(WindowOf(r["_time"].v, every)[1]),
                         !["_stop"]  = T(WindowOf(r["_time"].v, every)[2])] :
                 r \in s.rows}]

\* Selector order: by value (or by time), earlier time first on a tie.
Earlier(r, q) == r["_time"].v <= q["_time"].v
ValueLeq(r, q) == r["_value"].v < q["_value"].v \/ (r["_value"].v = q["_value"].v /\ Earlier(r, q))

\* The one row an aggregate or selector makes of a table: aggregates keep
\* the key columns and the new _value, selectors keep the selected row.
AggRow(fn, tbl, cols) ==
    LET key   == KeyOf(CHOOSE r \in tbl : TRUE, cols)
        n     == Cardinality(tbl)
        total == MapThenSumSet(LAMBDA r : r["_value"].v, tbl)
        Pick(Leq(_, _)) == CHOOSE r \in tbl : \A q \in tbl : Leq(r, q)
    IN  CASE fn = "count" -> key @@ ("_value" :> Num(n))
          [] fn = "sum"   -> key @@ ("_value" :> Num(total))
          [] fn = "mean"  -> key @@ ("_value" :> Num((Scale * total) \div n))
          [] fn = "min"   -> Pick(ValueLeq)
          [] fn = "max"   -> Pick(LAMBDA r, q : ValueLeq(q, r))
          [] fn = "first" -> Pick(Earlier)
          [] fn = "last"  -> Pick(LAMBDA r, q : Earlier(q, r))

AggOp(fn, s) == [s EXCEPT !.rows = {AggRow(fn, tbl, s.cols) : tbl \in TablesOf(s)}]

=============================================================================
