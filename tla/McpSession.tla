------------------------------ MODULE McpSession ------------------------------
(***************************************************************************)
(* What an MCP session promises its client, whatever goes on inside: lines  *)
(* are taken in the order they were written, each owed answer is given      *)
(* once and before the next line is taken, the local store changes only     *)
(* for the line being handled, and the session ends only for a cause and    *)
(* with at most one line unanswered.  McpServer implements it.              *)
(***************************************************************************)
EXTENDS Naturals, Sequences

CONSTANTS Lines,      \* what a client may write
          MaxLines    \* bound: how many lines it writes

VARIABLES sent,       \* the lines written
          seen,       \* how many were taken and dealt with
          answers,    \* the answers given
          changed,    \* lines for which the store was written
          cause,      \* hang-up, cancellation, lost output or fault
          over        \* no further line is taken
sessionVars == <<sent, seen, answers, changed, cause, over>>

(* The answers a line may get.  Methods that only read are one: "list".     *)
Valid(l) == l.method \in {"call", "get"} /\ l.valid
Promised(l) ==
    {kind \in {"result", "toolError", "rpcError"} :
        \/ kind = "result" /\ (l.method \in {"initialize", "list"} \/ Valid(l))
        \/ kind = "toolError" /\ l.method = "call" /\ l.valid
        \/ kind = "rpcError" /\ \/ l.method \in {"garbage", "get"}
                                \/ l.method = "call" /\ ~l.valid
                                \/ l.method = "unknown" /\ l.id}
MayChange(l) == l.method = "call" /\ l.valid /\ l.tool \in {"inspect", "verdict"}

SessionInit ==
    sent = <<>> /\ seen = 0 /\ answers = <<>> /\ changed = {} /\ cause = FALSE /\ over = FALSE

ClientWrites ==
    /\ Len(sent) < MaxLines
    /\ \E l \in Lines : sent' = Append(sent, l)
    /\ cause' \in {cause, TRUE}
    /\ UNCHANGED <<seen, answers, changed, over>>
CauseArises == cause' = TRUE /\ UNCHANGED <<sent, seen, answers, changed, over>>
StoreChanges ==
    /\ ~over /\ seen < Len(sent) /\ MayChange(sent[seen + 1])
    /\ changed' = changed \union {seen + 1}
    /\ UNCHANGED <<sent, seen, answers, cause, over>>
HandleLine ==
    /\ ~over /\ seen < Len(sent) /\ seen' = seen + 1
    /\ LET promised == Promised(sent[seen + 1])
       IN  IF promised = {} THEN UNCHANGED answers
           ELSE \E kind \in promised : answers' = Append(answers, [line |-> seen + 1, kind |-> kind])
    /\ UNCHANGED <<sent, changed, cause, over>>
EndSession ==
    /\ ~over /\ cause' /\ over'
    /\ seen' \in {seen, seen + 1} /\ seen' <= Len(sent)
    /\ UNCHANGED <<sent, answers, changed>>

SessionNext == ClientWrites \/ CauseArises \/ StoreChanges \/ HandleLine \/ EndSession
SessionSpec == SessionInit /\ [][SessionNext]_sessionVars
=============================================================================
