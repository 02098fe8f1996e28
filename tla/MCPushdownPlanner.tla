------------------------- MODULE MCPushdownPlanner -------------------------
(***************************************************************************)
(* Bounded inputs for PushdownPlanner.  One bucket of five points in the   *)
(* range [0, 4): three of host "a", one of host "b" and one without a host *)
(* tag; strings are sequences of character codes ("a" = <<3>>).  Filters   *)
(* cover pushable, unpushable and partly pushable bodies; plans are        *)
(* from |> range followed by up to two filters or groups, an optional      *)
(* window and an optional aggregate.                                       *)
(***************************************************************************)
EXTENDS Integers, Sequences, SequencesExt

CONSTANTS FieldKeyTagKey, MeasurementTagKey, NoExpr, NoPredicate,
          InitialPlans, FilterTargets, Capabilities

E(t, op, l, r, v) == [type |-> t, op |-> op, left |-> l, right |-> r, value |-> v]
Leaf(t, v)        == E(t, "", NoExpr, NoExpr, v)
Bin(op, l, r)     == E("Binary", op, l, r, 0)
Log(op, l, r)     == E("Logical", op, l, r, 0)
Ref(k)            == Leaf("Member", <<"r", k>>)
Str(s)            == Leaf("String", s)

HostA == <<3>>
HostB == <<4>>

Point(host, v, t) ==
    [_measurement |-> [type |-> "string", v |-> <<1>>],
     _field       |-> [type |-> "string", v |-> <<2>>],
     _value       |-> [type |-> "number", v |-> v],
     _time        |-> [type |-> "time", v |-> t]]
    @@ (IF host = <<>> THEN <<>> ELSE ("host" :> [type |-> "string", v |-> host]))

Points == {Point(HostA, 1, 0), Point(HostA, 3, 1), Point(HostA, 2, 2),
           Point(HostB, 2, 1), Point(<<>>, 4, 3)}

MCBuckets  == "my-bucket" :> 1
MCDecodeID == "0000000000000001" :> 1
MCData     == 1 :> Points

\* r.host == "a"; exists r.host; r.host == ""; r._value == 2; r._value < 3
HostIsA    == Bin("==", Ref("host"), Str(HostA))
HostExists == Leaf("Exists", <<"r", "host">>)
HostEmpty  == Bin("==", Ref("host"), Str(<<>>))
ValueIs2   == Bin("==", Ref("_value"), Leaf("Integer", 2))
ValueLt3   == Bin("<", Ref("_value"), Leaf("Integer", 3))
\* r.host != "a"
HostNotA   == Bin("!=", Ref("host"), Str(HostA))

Filter(e) == [kind |-> "filter", fn |-> e]
Group(m, ks) == [kind |-> "group", mode |-> m, keys |-> ks]
Window2 == [kind |-> "window", every |-> 2, period |-> 2, offset |-> 0,
            timeColumn |-> "_time", startColumn |-> "_start", stopColumn |-> "_stop",
            createEmpty |-> FALSE]
Agg(fn) == [kind |-> "agg", fn |-> fn, column |-> "_value"]
From(name, id) == [kind |-> "from", bucket |-> [name |-> name, id |-> id]]
RangeNode == [kind |-> "range"]

Filters ==
    {Filter(e) : e \in {HostIsA, HostExists, HostEmpty, ValueIs2, ValueLt3,
                        Log("and", HostIsA, ValueLt3), Log("or", HostIsA, ValueLt3)}}
Groups == {Group("by", {}), Group("by", {"host"}), Group("except", {"host"})}
Aggs   == {Agg(fn) : fn \in {"count", "sum", "mean", "min", "max", "first", "last"}}

Source(name, id) == <<From(name, id), RangeNode>>

\* Plans over the named bucket, plus the bucket references that fail.
PassPlans ==
    {Source("my-bucket", "") \o pre \o mid \o post :
        pre \in BoundedSeq(Filters \union Groups, 2),
        mid \in {<<>>, <<Window2>>},
        post \in {<<>>} \union {<<a>> : a \in Aggs}}
    \union {Source(n, id) \o <<Filter(HostIsA), Agg("count")>> :
              <<n, id>> \in {<<"", "0000000000000001">>, <<"nope", "">>,
                             <<"", "zz">>, <<"", "">>}}

\* A filter after a pushed aggregate or group.
AfterAggregatePlans ==
    {Source("my-bucket", "") \o pre \o <<Agg(fn), Filter(f)>> :
        pre \in {<<>>, <<Window2>>, <<Group("by", {})>>},
        fn \in {"count", "sum", "min"}, f \in {HostIsA, ValueIs2}}

\* A tag inequality, with a series lacking the tag.
TagInequalityPlans ==
    {Source("my-bucket", "") \o <<Filter(HostNotA)>> \o post :
        post \in {<<>>, <<Agg("count")>>}}

ReadKinds == {"ReadRange", "ReadGroup", "ReadWindowAggregate"}

VARIABLES plan, orig

INSTANCE PushdownPlanner
    WITH ObjectName <- "r", Tags <- {"host"}, Start <- 0, Stop <- 4, Scale <- 60,
         Buckets <- MCBuckets, DecodeID <- MCDecodeID, Data <- MCData,
         MaxDuration <- 1000

=============================================================================
