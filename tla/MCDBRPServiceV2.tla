------------------------- MODULE MCDBRPServiceV2 --------------------------
(***************************************************************************)
(* Bounded inputs for DBRPServiceV2: two orgs sharing database names, ids *)
(* 1..3 so one database can hold three mappings, and filters by org, by   *)
(* database and default, and by retention policy.                         *)
(***************************************************************************)
EXTENDS DBRPServiceV2

F(org, db, rp, def) ==
    [id |-> Nil, org |-> org, bucket |-> Nil, db |-> db, rp |-> rp, default |-> def]

MCFilters ==
    {F(Nil, Nil, Nil, Nil), F("o1", Nil, Nil, Nil), F("o1", "d1", Nil, TRUE),
     F(Nil, Nil, "r1", TRUE)}

=============================================================================
