------------------------- MODULE MCStreamingClient -------------------------
(* A small instance of StreamingClient: two tasks sharing the client, a    *)
(* query, a call whose answer is converted, and execute_plugin.            *)
EXTENDS StreamingClient

CONSTANTS t1, t2

MCTasks == {t1, t2}
MCCallOps == {Get, CreateVertexFromType, ExecutePlugin}
=============================================================================
