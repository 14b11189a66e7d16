--------------------------- MODULE MCVertexMapper ---------------------------
(* A small instance of VertexMapper: five ids of two types, a filter on    *)
(* one type, pages of two vertices, the pool of two threads that          *)
(* max(num_workers, 2) gives for num_workers = 1, and two concurrent      *)
(* writes by other writers.                                               *)
EXTENDS VertexMapper

MCVType == [v \in Ids |-> IF v = 2 THEN "b" ELSE "a"]
=============================================================================
