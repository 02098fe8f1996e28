----------------------- MODULE MCPredicateTranslation -----------------------
(***************************************************************************)
(* Bounded inputs for PredicateTranslation.  Strings are sequences of     *)
(* character codes: "a" = <<1>>, "ab" = <<1, 2>>, "" = <<>>.              *)
(***************************************************************************)
EXTENDS Integers, Sequences

CONSTANTS FieldKeyTagKey, MeasurementTagKey, NoExpr

E(t, op, l, r, v) == [type |-> t, op |-> op, left |-> l, right |-> r, value |-> v]
Leaf(t, v)        == E(t, "", NoExpr, NoExpr, v)
Bin(op, l, r)     == E("Binary", op, l, r, 0)
Log(op, l, r)     == E("Logical", op, l, r, 0)
Ref(obj, k)       == Leaf("Member", <<obj, k>>)

R == "r"
TagRefs  == {Ref(R, "_measurement"), Ref(R, "_field"), Ref(R, "host"), Ref("s", "host")}
StrLits  == {Leaf("String", <<1>>), Leaf("String", <<>>)}
Regex    == Leaf("Regexp", {<<1>>, <<1, 2>>})           \* /^a/ over the universe
NumLits  == {Leaf("Integer", 1), Leaf("Float", 2)}
Value    == Ref(R, "_value")

Comparisons ==
    {Bin(op, t, s) : op \in {"==", "!=", "<", "startswith"}, t \in TagRefs, s \in StrLits}
    \union {Bin(op, t, Regex) : op \in {"=~", "!~"}, t \in TagRefs \ {Ref("s", "host")}}
    \union {Bin(op, Value, n) : op \in {"==", "!=", "<", "<=", ">", ">="}, n \in NumLits}
    \union {Bin("==", Leaf("String", <<1>>), Ref(R, "host")),
            Bin("==", Ref(R, "host"), Ref(R, "_measurement")),
            Bin("==", Ref(R, "host"), Leaf("Duration", 0)),
            Bin("<", Value, Leaf("DateTime", 0)),
            Bin("+", Ref(R, "host"), Leaf("String", <<1>>)),
            Bin("==", Ref(R, "host"), Leaf("Call", 0)),
            Bin("+", Ref("s", "host"), Leaf("Duration", 0))}

Few == {Bin("==", Ref(R, "_measurement"), Leaf("String", <<1>>)),
        Bin("startswith", Ref(R, "host"), Leaf("String", <<1>>)),
        Bin(">", Value, Leaf("Integer", 1)),
        Bin("==", Ref("s", "host"), Leaf("String", <<>>)),
        Bin("+", Ref(R, "host"), Leaf("Duration", 0))}

MCExprs ==
    Comparisons
    \union {Log(op, a, b) : op \in {"and", "or"}, a, b \in Comparisons}
    \union {Log(op1, a, Log(op2, b, c)) : op1, op2 \in {"and", "or"}, a, b, c \in Few}

MCMergeAtoms ==
    {Bin("==", Ref(R, "_measurement"), Leaf("String", <<1>>)),
     Bin("==", Ref(R, "_field"), Leaf("String", <<1, 2>>)),
     Bin("<", Value, Leaf("Integer", 1))}

MCRows ==
    {[_measurement |-> [type |-> "string", v |-> m],
      _field       |-> [type |-> "string", v |-> f],
      host         |-> [type |-> "string", v |-> h],
      _value       |-> [type |-> "number", v |-> x]] :
        m \in {<<1>>, <<2>>}, f \in {<<1>>, <<1, 2>>}, h \in {<<>>, <<1, 2>>}, x \in 0..2}

VARIABLES call, result

INSTANCE PredicateTranslation
    WITH ObjectName <- R, Exprs <- MCExprs, MergeAtoms <- MCMergeAtoms,
         MaxMerge <- 3, Rows <- MCRows

=============================================================================
