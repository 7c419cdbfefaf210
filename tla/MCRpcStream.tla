----------------------------- MODULE MCRpcStream -----------------------------
(* The calls of the two users: a client that uploads while the server reads or *)
(* gives up early, a server that answers, and a client that gives up.          *)
EXTENDS RpcStream

MCScripts == {
    [client |-> <<"write", "write", "done", "finish">>, server |-> <<"read", "read", "finish">>],
    [client |-> <<"read", "finish">>, server |-> <<"write", "write", "done">>],
    [client |-> <<"write", "release">>, server |-> <<"read", "finish">>]}

\* The first message pauses the server, the second the client.
MCReadMax == [client |-> 0, server |-> 0]

=============================================================================
