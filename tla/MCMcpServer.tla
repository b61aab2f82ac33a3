----------------------------- MODULE MCMcpServer -----------------------------
(* McpServer for TLC: every kind of tool, a line that does not parse, one    *)
(* that is blank, and requests without an id.                                   *)
EXTENDS McpServer
Base == [method |-> "blank", id |-> TRUE, valid |-> TRUE, version |-> "absent", tool |-> "page"]
Call(tool) == [Base EXCEPT !.method = "call", !.tool = tool]
MCLines ==
    {Base, Call("inspect"), [Call("verdict") EXCEPT !.id = FALSE], Call("listing"), Call("query"),
     Call("history"), Call("page"), [Call("page") EXCEPT !.valid = FALSE],
     [Base EXCEPT !.method = "get"], [Base EXCEPT !.method = "list"],
     [Base EXCEPT !.method = "garbage"], [Base EXCEPT !.method = "unknown", !.id = FALSE],
     [Base EXCEPT !.method = "initialize", !.version = "2025-06-18"]}
MCInputs == {"stdin", "closer", "plain"}
MCProtocols == {"2025-06-18"}
=============================================================================
