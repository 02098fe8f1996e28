--------------------- MODULE MCDBRPMappingService ---------------------
(***************************************************************************)
(* Bounded inputs for DBRPMappingService.  Names are segment sequences:  *)
(* A = "a", B = "b", AA = "a/a", Empty = "".  Mappings differ in database *)
(* and in the Default flag, so two different mappings share each key.     *)
(***************************************************************************)
EXTENDS DBRPMappingService

A == <<"a">>
B == <<"b">>
AA == <<"a", "a">>
Empty == <<>>

Mapping(c, d, r, def) ==
    [cluster |-> c, database |-> d, rp |-> r, default |-> def, bucket |-> "bucket1"]

ValidMappings == {Mapping(A, d, A, def) : d \in {A, B}, def \in BOOLEAN}
InvalidMappings == {Mapping(A, Empty, A, TRUE), Mapping(A, AA, A, TRUE)}
AllMappings == ValidMappings \union InvalidMappings

PlainQueries == {<<A, A, A>>, <<A, B, A>>}
\* path.Join("a/a", "a", "") = path.Join("a", "a", "a")
CollidingQueries == PlainQueries \union {<<AA, A, Empty>>}

Filter(c, d, r, def) == [cluster |-> c, database |-> d, rp |-> r, default |-> def]
MCFilters ==
    {Filter(Nil, A, Nil, Nil), Filter(Nil, A, Nil, TRUE), Filter(A, Nil, A, FALSE),
     Filter(A, B, A, Nil), Filter(Nil, Nil, Nil, TRUE)}

=============================================================================
