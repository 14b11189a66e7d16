--------------------------- MODULE MCLegacyClient ---------------------------
(* A small instance of LegacyClient: two operations, one that decodes its *)
(* answer with `?` and create_vertex_from_type, which unwraps it; two      *)
(* calls and one server crash.                                            *)
EXTENDS LegacyClient

MCCallOps == {CreateEdge, CreateVertexFromType}
=============================================================================
