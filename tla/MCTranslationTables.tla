------------------------ MODULE MCTranslationTables ------------------------
(***************************************************************************)
(* Two threads; an information file with two schemas, s1 with a table and  *)
(* s2 without; one with a single schema, whose table is not where its name *)
(* says; one that cannot be read; an in-memory table; the default table.   *)
(***************************************************************************)
EXTENDS TranslationTables, TLC

CONSTANTS t1, t2, default, memory, there, missing, s1, s2, s3, two, one, bad

MCThread == {t1, t2}
MCTable == {default, memory, there, missing}
MCSchema == {s1, s2, s3}
MCInfo == {two, one, bad}
MCFirstSchema == two :> s1 @@ one :> s3 @@ bad :> s1
MCLastSchema == two :> s2 @@ one :> s3 @@ bad :> s1
MCTablesOf == two :> <<there>> @@ one :> <<missing>> @@ bad :> <<>>
=============================================================================
