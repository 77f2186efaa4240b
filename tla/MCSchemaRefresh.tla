-------------------------- MODULE MCSchemaRefresh --------------------------
(* One relation with a column, a table that becomes a view; one schema,     *)
(* which is listed, and the scopes above and below it, which are refreshed. *)
EXTENDS SchemaRefresh

MCListed == {SchemaPath}
MCRefreshed == Scopes \ MCListed
MCChanges == {<<"table", "view">>}
MCUnanswered == {Root}
=============================================================================
