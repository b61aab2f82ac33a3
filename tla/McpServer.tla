------------------------------- MODULE McpServer -------------------------------
(***************************************************************************)
(* pgbot mcp: serveMCP of cmd/pgbot around the loop of internal/mcp, the    *)
(* tools it dispatches, and the callback that closes the input when the     *)
(* command is cancelled.                                                    *)
(*                                                                          *)
(* The client, at the other end of two pipes, writes lines, may leave the   *)
(* last one without its newline, stops reading for a while, or goes away.   *)
(* Connecting, collecting and writing the store either work or fail; their  *)
(* contexts have a deadline, so none takes for ever.                        *)
(***************************************************************************)
EXTENDS Naturals, Sequences, FiniteSets

CONSTANTS Lines,       \* what the client may write
          Inputs,      \* kinds of input: "stdin", "closer", "plain"
          Protocols,   \* revisions the server implements
          MaxLines     \* bound: how many lines the client writes

VARIABLES
    input,        \* the kind of input of this call
    sent,         \* the lines the client wrote
    cut,          \* the last of them has no newline
    hungUp,       \* the client closed its end
    out,          \* the client's end of the output: open, stalled, closed
    fetched,      \* lines in the bufio.Reader, taken ones included
    taken,        \* lines taken out of it
    cancelled,    \* ctx.Err() is set
    callback,     \* the AfterFunc: none, armed, running, done, stopped
    closed,       \* the input was closed (for stdin: its wakeup descriptor)
    pc,           \* where serveMCP and Serve are
    cur,          \* the line being handled, or 0
    readErr,      \* what ReadBytes returned with it
    stage,        \* where a tool is
    proto,        \* the revision negotiated
    buffer,       \* the answer written to the bufio.Writer
    received,     \* the answers the client got in full
    changed,      \* lines for which the store was written
    err           \* what serveMCP will return
client == <<sent, cut, hungUp, out>>
loop == <<cur, readErr, stage, proto, buffer>>
vars == <<input, client, fetched, taken, cancelled, callback, closed, pc, loop, received, changed, err>>

NoCall == "none"
Closes == input # "plain"
Line == sent[cur]
Ended == {"release", "returned"}
-----------------------------------------------------------------------------
Init ==
    /\ input \in Inputs
    /\ sent = <<>> /\ cut = FALSE /\ hungUp = FALSE /\ out = "open"
    /\ fetched = 0 /\ taken = 0
    /\ cancelled = FALSE /\ callback = "none" /\ closed = FALSE
    /\ pc = "prepare" /\ cur = 0 /\ readErr = "nil" /\ stage = NoCall
    /\ proto = "default" /\ buffer = <<>> /\ received = <<>> /\ changed = {} /\ err = "nil"

(* The client and the user.                                                 *)
ClientSends ==
    /\ ~hungUp /\ Len(sent) < MaxLines
    /\ \E l \in Lines : sent' = Append(sent, l)
    /\ UNCHANGED <<input, cut, hungUp, out, fetched, taken, cancelled, callback, closed, pc, loop,
                   received, changed, err>>
HangsUp ==
    /\ ~hungUp /\ hungUp' = TRUE
    /\ \/ UNCHANGED <<sent, cut>>
       \/ Len(sent) < MaxLines /\ cut' = TRUE /\ \E l \in Lines : sent' = Append(sent, l)
    /\ UNCHANGED <<input, out, fetched, taken, cancelled, callback, closed, pc, loop,
                   received, changed, err>>
OutputBecomes(from, to) ==
    /\ out \in from /\ out' = to
    /\ UNCHANGED <<input, sent, cut, hungUp, fetched, taken, cancelled, callback, closed, pc, loop,
                   received, changed, err>>
Stalls == OutputBecomes({"open"}, "stalled")
Resumes == OutputBecomes({"stalled"}, "open")
StopsReading == OutputBecomes({"open", "stalled"}, "closed")
Cancel ==
    /\ ~cancelled /\ cancelled' = TRUE
    /\ UNCHANGED <<input, client, fetched, taken, callback, closed, pc, loop, received, changed, err>>

(* context.AfterFunc: some time after ctx is done, unless stopped first.    *)
CallbackStarts ==
    /\ cancelled /\ callback = "armed" /\ callback' = "running"
    /\ UNCHANGED <<input, client, fetched, taken, cancelled, closed, pc, loop, received, changed, err>>
CallbackCloses ==
    /\ callback = "running" /\ callback' = "done" /\ closed' = TRUE
    /\ UNCHANGED <<input, client, fetched, taken, cancelled, pc, loop, received, changed, err>>
-----------------------------------------------------------------------------
Prepare ==
    /\ pc = "prepare"
    /\ \/ input = "stdin" /\ pc' = "returned" /\ err' = "pipe" /\ UNCHANGED callback
       \/ pc' = "check" /\ callback' = (IF Closes THEN "armed" ELSE "none") /\ UNCHANGED err
    /\ UNCHANGED <<input, client, fetched, taken, cancelled, closed, loop, received, changed>>

Ends(e) == pc' = "stop" /\ err' = e /\ UNCHANGED cur

CheckContext ==
    /\ pc = "check"
    /\ IF cancelled THEN Ends("cancelled") ELSE pc' = "read" /\ UNCHANGED <<err, cur>>
    /\ UNCHANGED <<input, client, fetched, taken, cancelled, callback, closed, readErr, stage, proto,
                   buffer, received, changed>>

(* ReadBytes.  Whole lines in the buffer come first; Fill asks the input,   *)
(* which is closed, or has bytes, or is at its end, or fails; else the read *)
(* blocks for as long as none of these comes (poll without a timeout).      *)
(* What is left of a line without newline comes with the error.             *)
Buffered == taken < fetched /\ ~(cut /\ taken + 1 = Len(sent))
Take(e) ==
    /\ readErr' = e /\ pc' = "checkAgain"
    /\ IF taken < fetched THEN taken' = taken + 1 /\ cur' = taken + 1 ELSE UNCHANGED <<taken, cur>>
    /\ UNCHANGED <<input, client, fetched, cancelled, callback, closed, stage, proto, buffer,
                   received, changed, err>>
TakeLine == pc = "read" /\ Buffered /\ Take("nil")
Fill ==
    /\ pc = "read" /\ ~Buffered /\ ~closed
    /\ \E n \in fetched + 1 .. Len(sent) : fetched' = n
    /\ UNCHANGED <<input, client, taken, cancelled, callback, closed, pc, loop, received, changed, err>>
(* A slip of ReadEnds: an end of file discards what was read with it.       *)
ReadEndsEmpty ==
    /\ pc = "read" /\ ~Buffered
    /\ \/ closed /\ Take("closed")
       \/ /\ ~closed /\ hungUp /\ fetched = Len(sent)
          /\ readErr' = "eof" /\ pc' = "checkAgain" /\ taken' = fetched
          /\ UNCHANGED <<input, client, fetched, cancelled, callback, closed, cur, stage, proto,
                         buffer, received, changed, err>>
(* Another slip: poll does not watch the wakeup descriptor.                 *)
ReadEndsUnwoken == pc = "read" /\ ~Buffered /\ hungUp /\ fetched = Len(sent) /\ Take("eof")

ReadEnds ==
    /\ pc = "read" /\ ~Buffered
    /\ \/ closed /\ Take("closed")
       \/ ~closed /\ hungUp /\ fetched = Len(sent) /\ Take("eof")
(* The descriptor breaks: nothing says that it ever does.                   *)
ReadFaults == pc = "read" /\ ~Buffered /\ Take("fault")

(* The line read is dropped when the context was cancelled meanwhile.       *)
NextRead == IF readErr = "nil" THEN pc' = "check" /\ UNCHANGED err
            ELSE pc' = "stop" /\ err' = (IF readErr = "eof" THEN "nil" ELSE readErr)
CheckAgain ==
    /\ pc = "checkAgain"
    /\ IF cancelled THEN Ends("cancelled")
       ELSE IF cur # 0 /\ Line.method # "blank" THEN pc' = "dispatch" /\ UNCHANGED <<err, cur>>
       ELSE NextRead /\ cur' = 0
    /\ UNCHANGED <<input, client, fetched, taken, cancelled, callback, closed, readErr, stage, proto,
                   buffer, received, changed>>
-----------------------------------------------------------------------------
(* dispatch.  A known method is answered with or without an id.             *)
Write(kind) == buffer' = <<[line |-> cur, kind |-> kind]>>
Answer(kind) == Write(kind) /\ pc' = "flush" /\ UNCHANGED <<stage, proto>>
Negotiated(version) == IF version \in Protocols THEN version ELSE "default"

Initialize ==
    /\ Line.method = "initialize" /\ pc' = "flush" /\ Write("result")
    /\ proto' = IF Line.version = "absent" THEN proto ELSE Negotiated(Line.version)
    /\ UNCHANGED stage
Descriptors == Line.method = "list" /\ Answer("result")
Unparsed == Line.method = "garbage" /\ Answer("rpcError")
BadParams == Line.method \in {"call", "get"} /\ ~Line.valid /\ Answer("rpcError")
(* getPrompt, readResource: a failure is an RPC error.                      *)
GetOrRead == Line.method = "get" /\ Line.valid /\ \E kind \in {"result", "rpcError"} : Answer(kind)
Unknown ==
    /\ Line.method \in {"unknown", "notification"}
    /\ IF Line.method = "unknown" /\ Line.id THEN Answer("rpcError")
       ELSE pc' = "flush" /\ UNCHANGED <<buffer, stage, proto>>
FirstStage(tool) ==
    CASE tool \in {"inspect", "listing", "query"} -> "connect"
      [] tool \in {"history", "verdict"}          -> "store"
CallTool ==
    /\ Line.method = "call" /\ Line.valid
    /\ \/ Answer("toolError")     \* its own arguments are refused
       \/ Line.tool = "page" /\ Answer("result")
       \/ /\ Line.tool # "page" /\ pc' = "tool" /\ stage' = FirstStage(Line.tool)
          /\ UNCHANGED <<buffer, proto>>
Dispatch ==
    /\ pc = "dispatch"
    /\ Initialize \/ Descriptors \/ Unparsed \/ BadParams \/ GetOrRead \/ Unknown \/ CallTool
    /\ UNCHANGED <<input, client, fetched, taken, cancelled, callback, closed, cur, readErr,
                   received, changed, err>>

(* The tools.  A run is kept before its findings are computed, and one     *)
(* that cannot be kept is answered all the same; a verdict that cannot is   *)
(* an error.                                                                *)
ToolAnswers(kind) == Write(kind) /\ pc' = "flush" /\ stage' = NoCall /\ UNCHANGED <<proto, changed>>
Fails == ToolAnswers("toolError")
Succeeds == ToolAnswers("result")
GoesTo(s) == stage' = s /\ UNCHANGED <<pc, buffer, proto>>
Changes == changed' = changed \union {cur}
Gathers(next) ==
    \/ stage = "connect" /\ GoesTo("collect") /\ UNCHANGED changed
    \/ stage = "collect" /\ GoesTo(next) /\ UNCHANGED changed
    \/ stage = "compute" /\ Succeeds
    \/ stage \in {"connect", "collect", "compute"} /\ Fails
Inspect ==
    /\ Line.tool = "inspect"
    /\ Gathers("store") \/ (stage = "store" /\ GoesTo("compute") /\ (Changes \/ UNCHANGED changed))
Listing == Line.tool = "listing" /\ Gathers("compute")
ReadOnlyQuery ==
    /\ Line.tool = "query"
    /\ \/ stage = "connect" /\ GoesTo("query") /\ UNCHANGED changed
       \/ stage = "query" /\ Succeeds
       \/ Fails
ReadHistory == Line.tool = "history" /\ (Fails \/ Succeeds)
RecordVerdict ==
    /\ Line.tool = "verdict"
    /\ Fails \/ (Write("result") /\ pc' = "flush" /\ stage' = NoCall /\ UNCHANGED proto /\ Changes)
ToolStep ==
    /\ pc = "tool"
    /\ Inspect \/ Listing \/ ReadOnlyQuery \/ ReadHistory \/ RecordVerdict
    /\ UNCHANGED <<input, client, fetched, taken, cancelled, callback, closed, cur, readErr,
                   received, err>>

(* w.Flush: it blocks while the client does not read, and what the client   *)
(* got of an answer when it went away is no answer.                         *)
(* Slip: the error of a flush is not looked at.                             *)
FlushUnchecked ==
    /\ pc = "flush" /\ buffer # <<>> => out # "stalled"
    /\ buffer' = <<>> /\ received' = IF out = "open" THEN received \o buffer ELSE received
    /\ NextRead /\ cur' = 0
    /\ UNCHANGED <<input, client, fetched, taken, cancelled, callback, closed, readErr, stage, proto,
                   changed>>

Flush ==
    /\ pc = "flush" /\ buffer' = <<>>
    /\ IF buffer = <<>> THEN NextRead /\ cur' = 0 /\ UNCHANGED received
       ELSE \/ out = "open" /\ received' = received \o buffer /\ NextRead /\ cur' = 0
            \/ out = "closed" /\ Ends("output") /\ UNCHANGED received
    /\ UNCHANGED <<input, client, fetched, taken, cancelled, callback, closed, readErr, stage, proto,
                   changed>>
-----------------------------------------------------------------------------
(* Serve has returned: the callback is stopped or waited for, and the error *)
(* of the context is the one returned.                                      *)
Result == IF cancelled THEN "cancelled" ELSE err
(* A slip of StopClose: it does not wait for a callback that has started.   *)
StopCloseUnjoined ==
    /\ pc = "stop" /\ pc' = "release" /\ err' = Result /\ cur' = 0
    /\ callback' = IF callback = "armed" THEN "stopped" ELSE callback
    /\ UNCHANGED <<input, client, fetched, taken, cancelled, closed, readErr, stage, proto, buffer,
                   received, changed>>

StopClose ==
    /\ pc = "stop" /\ pc' = "release" /\ err' = Result /\ cur' = 0
    /\ \/ callback = "armed" /\ callback' = "stopped"
       \/ callback \in {"none", "done"} /\ UNCHANGED callback
    /\ UNCHANGED <<input, client, fetched, taken, cancelled, closed, readErr, stage, proto, buffer,
                   received, changed>>
Release ==
    /\ pc = "release" /\ pc' = "returned"
    /\ closed' = (closed \/ input = "stdin")
    /\ UNCHANGED <<input, client, fetched, taken, cancelled, callback, loop, received, changed, err>>

ServerStep == Prepare \/ CheckContext \/ TakeLine \/ Fill \/ ReadEnds \/ CheckAgain \/ Dispatch
              \/ ToolStep \/ StopClose \/ Release
CallbackStep == CallbackStarts \/ CallbackCloses
Next == ClientSends \/ HangsUp \/ Stalls \/ Resumes \/ StopsReading \/ Cancel
        \/ CallbackStep \/ ServerStep \/ ReadFaults \/ Flush

(* Every step of the server ends but a read, which ends only for a reason;  *)
(* its tools have deadlines, the runtime starts the callback, and a client  *)
(* that is there reads again some time.                                     *)
Fairness == WF_vars(ServerStep) /\ WF_vars(CallbackStep) /\ WF_vars(Resumes) /\ SF_vars(Flush)
Spec == Init /\ [][Next]_vars /\ Fairness
-----------------------------------------------------------------------------
(* serveMCP keeps the promise of McpSession: whatever the client, the tools *)
(* and a cancellation do, lines are dealt with one at a time and in order,  *)
(* each is answered at most once, a tool that fails never ends the session, *)
(* and no tool runs once an answer was lost (Serve).                        *)
Handled == IF cur = 0 THEN taken ELSE cur - 1
Session == INSTANCE McpSession WITH
    seen <- Handled,
    answers <- received,
    cause <- hungUp \/ cancelled \/ out = "closed" \/ readErr = "fault" \/ err # "nil",
    over <- pc \in Ended
RefinesSession == Session!SessionSpec

(* When serveMCP returns nil the client had closed the input and has the    *)
(* answer to every line it wrote, one without a newline included.           *)
Owed == {n \in 1 .. Len(sent) : Session!Promised(sent[n]) # {}}
CleanEndAnsweredAll ==
    pc = "returned" /\ err = "nil" => hungUp /\ {received[i].line : i \in DOMAIN received} = Owed

(* After serveMCP returned nothing of it is left: no callback that could    *)
(* close an input its caller uses again, no tool, no answer (serveMCP).     *)
ReturnedIsQuiet ==
    [][pc = "returned" => UNCHANGED <<callback, closed, received, changed, pc, err>>]_vars

(* A cancelled command returns, also when no line ever comes and the read   *)
(* is blocked for ever: nothing but the callback, which closes an input     *)
(* that can be closed, can then end it.                                     *)
CancelReturns == (cancelled /\ Closes) ~> (pc = "returned")
=============================================================================
