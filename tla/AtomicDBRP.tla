------------------------------ MODULE AtomicDBRP ------------------------------
(***************************************************************************)
(* What the DBRP mapping service promises its callers: a map from         *)
(* (cluster, database, retention policy) to a mapping in which every call *)
(* takes effect at once.  Create adds a mapping, repeats an equal one and *)
(* refuses a different one under the same triple with a conflict; Delete *)
(* removes the triple; FindBy, FindMany and Find read the map.            *)
(***************************************************************************)
EXTENDS FiniteSets

CONSTANTS Procs, Mappings, Queries, Filters, Nil, NoMapping

VARIABLES store, ret

Triple(m) == <<m.cluster, m.database, m.rp>>

Lookup(t) == IF t \in DOMAIN store THEN store[t] ELSE NoMapping

MatchesFilter(f, m) ==
    /\ f.cluster \in {Nil, m.cluster}
    /\ f.database \in {Nil, m.database}
    /\ f.rp \in {Nil, m.rp}
    /\ f.default \in {Nil, m.default}

\* The mappings a filter selects; with cluster, db and rp given, the one
\* mapping of that triple.
Selected(f) ==
    IF f.cluster # Nil /\ f.database # Nil /\ f.rp # Nil
    THEN {m \in {Lookup(<<f.cluster, f.database, f.rp>>)} : m # NoMapping}
    ELSE {store[t] : t \in {t \in DOMAIN store : MatchesFilter(f, store[t])}}

Reply(p, r) == ret' = [ret EXCEPT ![p] = r]

Init ==
    /\ store = [t \in {} |-> NoMapping]
    /\ ret = [p \in Procs |-> [op |-> "none"]]

ACreate(p, m) ==
    LET t == Triple(m) IN
    IF Lookup(t) \in {NoMapping, m}
    THEN /\ store' = [x \in DOMAIN store \union {t} |-> IF x = t THEN m ELSE store[x]]
         /\ Reply(p, [op |-> "Create", m |-> m, err |-> "nil"])
    ELSE /\ Reply(p, [op |-> "Create", m |-> m, err |-> "conflict"])
         /\ UNCHANGED store

ADelete(p, q) ==
    /\ store' = [x \in DOMAIN store \ {q} |-> store[x]]
    /\ Reply(p, [op |-> "Delete", q |-> q, err |-> "nil"])

AFindBy(p, q) ==
    /\ Reply(p, [op |-> "FindBy", q |-> q, m |-> Lookup(q)])
    /\ UNCHANGED store

AFindMany(p, f) ==
    LET all == f.cluster # Nil /\ f.database # Nil /\ f.rp # Nil
        sel == Selected(f)
    IN  /\ Reply(p, [op |-> "FindMany", filter |-> f,
                     err |-> IF all /\ sel = {} THEN "not found" ELSE "nil",
                     mappings |-> sel, n |-> Cardinality(sel)])
        /\ UNCHANGED store

AFind(p, f) ==
    /\ \/ /\ f.cluster = Nil /\ f.database = Nil /\ f.rp = Nil
          /\ Reply(p, [op |-> "Find", filter |-> f, err |-> "invalid", m |-> NoMapping])
       \/ /\ ~(f.cluster = Nil /\ f.database = Nil /\ f.rp = Nil)
          /\ Selected(f) = {}
          /\ Reply(p, [op |-> "Find", filter |-> f, err |-> "not found", m |-> NoMapping])
       \/ /\ ~(f.cluster = Nil /\ f.database = Nil /\ f.rp = Nil)
          /\ \E m \in Selected(f) :
                Reply(p, [op |-> "Find", filter |-> f, err |-> "nil", m |-> m])
    /\ UNCHANGED store

Next ==
    \E p \in Procs :
        \/ \E m \in Mappings : ACreate(p, m)
        \/ \E q \in Queries : ADelete(p, q) \/ AFindBy(p, q)
        \/ \E f \in Filters : AFindMany(p, f) \/ AFind(p, f)

Spec == Init /\ [][Next]_<<store, ret>>

=============================================================================
