--------------------------- MODULE McpServer_proofs ---------------------------
(***************************************************************************)
(* Once serveMCP has returned nothing of it is left, and its every step is  *)
(* one of the session McpSession promises or none, for every client, input  *)
(* and set of protocols.  The first rests on the callback: past stopClose   *)
(* it is neither armed nor running.  The second rests on an invariant of    *)
(* the loop: what is taken, at hand, written, and where errors come from.   *)
(***************************************************************************)
EXTENDS McpServer, TLAPS

CallbackJoined ==
    /\ pc \in Ended => callback \notin {"armed", "running"}
    /\ pc = "prepare" => callback = "none"

LEMMA CallbackJoinedInit == Init => CallbackJoined
  BY DEF Init, CallbackJoined, Ended

(* Steps of the server: each starts at a place that is no end.              *)
LEMMA CallbackJoinedServer ==
  ASSUME CallbackJoined, ServerStep \/ ReadFaults \/ Flush
  PROVE  CallbackJoined' /\ pc # "returned"
<1>1. CASE Prepare
  BY <1>1 DEF Prepare, CallbackJoined, Ended
<1>2. CASE CheckContext
  BY <1>2 DEF CheckContext, Ends, CallbackJoined, Ended
<1>3. CASE TakeLine
  BY <1>3 DEF TakeLine, Take, CallbackJoined, Ended
<1>4. CASE Fill
  BY <1>4 DEF Fill, CallbackJoined, Ended
<1>5. CASE ReadEnds \/ ReadFaults
  BY <1>5 DEF ReadEnds, ReadFaults, Take, CallbackJoined, Ended
<1>6. CASE CheckAgain
  BY <1>6 DEF CheckAgain, Ends, NextRead, CallbackJoined, Ended
<1>7. CASE Dispatch
  BY <1>7 DEF Dispatch, Initialize, Descriptors, Unparsed, BadParams, GetOrRead, Unknown, CallTool,
              Answer, CallbackJoined, Ended
<1>8. CASE ToolStep
  BY <1>8 DEF ToolStep, Inspect, Listing, ReadOnlyQuery, ReadHistory, RecordVerdict, Gathers, GoesTo,
              Fails, Succeeds, ToolAnswers, CallbackJoined, Ended
<1>9. CASE Flush
  BY <1>9 DEF Flush, Ends, NextRead, CallbackJoined, Ended
<1>10. CASE StopClose
  BY <1>10 DEF StopClose, CallbackJoined, Ended
<1>11. CASE Release
  BY <1>11 DEF Release, CallbackJoined, Ended
<1> QED
  BY <1>1, <1>2, <1>3, <1>4, <1>5, <1>6, <1>7, <1>8, <1>9, <1>10, <1>11 DEF ServerStep

(* Steps of the client, of the user and of the callback leave pc alone, and *)
(* only those of the callback touch it, or the input.                       *)
LEMMA CallbackJoinedOthers ==
  ASSUME CallbackJoined,
         ClientSends \/ HangsUp \/ Stalls \/ Resumes \/ StopsReading \/ Cancel \/ CallbackStep
  PROVE  /\ CallbackJoined'
         /\ UNCHANGED <<pc, received, changed, err>>
         /\ UNCHANGED <<callback, closed>> \/ pc \notin Ended
<1>1. CASE ClientSends \/ HangsUp \/ Cancel
  BY <1>1 DEF ClientSends, HangsUp, Cancel, CallbackJoined, Ended
<1>2. CASE Stalls \/ Resumes \/ StopsReading
  BY <1>2 DEF Stalls, Resumes, StopsReading, OutputBecomes, CallbackJoined, Ended
<1>3. CASE CallbackStep
  BY <1>3 DEF CallbackStep, CallbackStarts, CallbackCloses, CallbackJoined, Ended
<1> QED
  BY <1>1, <1>2, <1>3

LEMMA CallbackJoinedNext == CallbackJoined /\ [Next]_vars => CallbackJoined'
<1> SUFFICES ASSUME CallbackJoined, [Next]_vars
             PROVE  CallbackJoined'
  OBVIOUS
<1>1. CASE Next
  BY <1>1, CallbackJoinedServer, CallbackJoinedOthers DEF Next
<1>2. CASE UNCHANGED vars
  BY <1>2 DEF vars, CallbackJoined, Ended
<1> QED
  BY <1>1, <1>2

(* After stopClose no cancellation can close the input: the callback has    *)
(* been stopped or joined (serveMCP).                                       *)
THEOREM CallbackIsJoined == Spec => []CallbackJoined
  BY CallbackJoinedInit, CallbackJoinedNext, PTL DEF Spec

(* After serveMCP returned nothing of it acts any more: its result, the     *)
(* answers, the store and the input stay as they are (serveMCP).            *)
THEOREM ServerReturnedIsQuiet == Spec => ReturnedIsQuiet
<1>1. CallbackJoined /\ [Next]_vars
        => [pc = "returned" => UNCHANGED <<callback, closed, received, changed, pc, err>>]_vars
  <2> SUFFICES ASSUME CallbackJoined, Next, pc = "returned"
               PROVE  UNCHANGED <<callback, closed, received, changed, pc, err>>
    OBVIOUS
  <2>1. ~(ServerStep \/ ReadFaults \/ Flush)
    BY CallbackJoinedServer
  <2> QED
    BY <2>1, CallbackJoinedOthers DEF Next, Ended
<1> QED
  BY <1>1, CallbackIsJoined, PTL DEF Spec, ReturnedIsQuiet
-----------------------------------------------------------------------------
(* The refinement.  Invariants of the loop: what was taken, the line at     *)
(* hand, the answer written for it, and where its errors come from.         *)
InHand == {"dispatch", "tool", "flush"}
Given == [line : Nat, kind : {"result", "toolError", "rpcError"}]
Count ==
    /\ sent \in Seq(Lines) /\ fetched \in Nat /\ taken \in Nat /\ cur \in Nat
    /\ taken <= fetched /\ fetched <= Len(sent)
Answered == received \in Seq(Given)
AtHand ==
    /\ cur # 0 => cur = taken /\ pc \in InHand \union {"checkAgain", "stop"}
    /\ pc \in InHand => cur # 0
Written ==
    /\ pc # "flush" => buffer = <<>>
    /\ pc = "tool" => Line.method = "call" /\ Line.valid
    /\ pc = "flush" =>
        \/ buffer = <<>> /\ Session!Promised(Line) = {}
        \/ \E kind \in Session!Promised(Line) : buffer = <<[line |-> cur, kind |-> kind]>>
Errors ==
    /\ readErr \in {"nil", "eof", "closed", "fault"}
    /\ pc \in {"prepare", "check", "read"} => readErr = "nil"
    /\ pc \notin {"stop"} \union Ended => err = "nil"
    /\ pc = "stop" /\ err = "nil" => readErr = "eof"
Reasons ==
    /\ callback \in {"running", "done"} => cancelled
    /\ closed /\ pc # "returned" => cancelled
    /\ readErr = "closed" => cancelled
    /\ readErr = "eof" => hungUp
    /\ pc = "stop" /\ err = "output" => out = "closed"
LoopInv == Count /\ Answered /\ AtHand /\ Written /\ Errors /\ Reasons

LEMMA LoopInvInit == Init => LoopInv
  BY DEF Init, LoopInv, Count, Answered, AtHand, Written, Errors, Reasons, InHand, Ended

(* What the client and the user do leaves the loop where it is; a line      *)
(* written is written at the end.                                           *)
LEMMA LineStays ==
  ASSUME Count, NEW l \in Lines, sent' = Append(sent, l), cur' = cur, cur # 0, cur <= Len(sent)
  PROVE  Line' = Line
  BY DEF Count, Line

LEMMA LoopInvClient ==
  ASSUME LoopInv, ClientSends \/ HangsUp
  PROVE  LoopInv'
<1> USE DEF LoopInv
<1>1. /\ UNCHANGED <<fetched, taken, cur, pc, buffer, readErr, err, callback, closed, cancelled, out,
                    received>>
      /\ hungUp => hungUp'
      /\ sent' = sent \/ \E l \in Lines : sent' = Append(sent, l)
  BY DEF ClientSends, HangsUp, loop
<1>2. Count' /\ Answered'
  BY <1>1 DEF Count, Answered
<1>3. AtHand' /\ Errors' /\ Reasons'
  BY <1>1 DEF AtHand, Errors, Reasons, InHand, Ended
<1>4. Written'
  <2>1. pc \in InHand => Line' = Line
    BY <1>1, LineStays DEF AtHand, Count, Line
  <2> QED
    BY <1>1, <2>1 DEF Written, InHand, Session!Promised, Session!Valid
<1> QED
  BY <1>2, <1>3, <1>4

LEMMA LoopInvOutside ==
  ASSUME LoopInv, Stalls \/ Resumes \/ StopsReading \/ Cancel \/ CallbackStep
  PROVE  LoopInv'
<1>1. /\ UNCHANGED <<sent, fetched, taken, cur, pc, buffer, readErr, err, hungUp, received>>
      /\ cancelled => cancelled'
      /\ out = "closed" => out' = "closed"
      /\ callback' \in {"running", "done"} => cancelled'
      /\ closed' => closed \/ cancelled
  BY DEF LoopInv, Reasons, Stalls, Resumes, StopsReading, OutputBecomes, Cancel, CallbackStep,
         CallbackStarts, CallbackCloses, loop, client
<1> QED
  BY <1>1 DEF LoopInv, Count, Answered, AtHand, Written, Errors, Reasons, InHand, Ended, Line,
              Session!Promised, Session!Valid

(* Reading: up to the dispatch of a line.                                   *)
LEMMA LoopInvReads ==
  ASSUME LoopInv, Prepare \/ CheckContext \/ TakeLine \/ Fill \/ ReadEnds \/ ReadFaults \/ CheckAgain
  PROVE  LoopInv'
<1> USE DEF LoopInv, client, loop
<1>1. CASE Prepare
  BY <1>1 DEF Prepare, Count, Answered, AtHand, Written, Errors, Reasons, InHand, Ended, Line
<1>2. CASE CheckContext
  BY <1>2 DEF CheckContext, Ends, Count, Answered, AtHand, Written, Errors, Reasons, InHand, Ended, Line
<1>3. CASE TakeLine
  BY <1>3 DEF TakeLine, Take, Count, Answered, AtHand, Written, Errors, Reasons, InHand, Ended, Line
<1>4. CASE Fill
  BY <1>4 DEF Fill, Count, Answered, AtHand, Written, Errors, Reasons, InHand, Ended, Line
<1>5. CASE ReadEnds \/ ReadFaults
  BY <1>5 DEF ReadEnds, ReadFaults, Take, Count, Answered, AtHand, Written, Errors, Reasons, InHand, Ended, Line
<1>6. CASE CheckAgain
  BY <1>6 DEF CheckAgain, Ends, NextRead, Count, Answered, AtHand, Written, Errors, Reasons, InHand, Ended, Line
<1> QED
  BY <1>1, <1>2, <1>3, <1>4, <1>5, <1>6

(* What is written for a line is an answer it was promised, and a line that *)
(* is promised none gets none.                                              *)
LEMMA LoopInvDispatch ==
  ASSUME LoopInv, Dispatch
  PROVE  LoopInv'
<1>1. /\ UNCHANGED <<sent, fetched, taken, cur, callback, closed, cancelled, hungUp, out, readErr, err,
                    received>>
      /\ pc = "dispatch"
  BY DEF Dispatch, client
<1>2. pc' \in {"tool", "flush"} /\ Written'
  <2> USE <1>1 DEF Write, Answer, Line, Written, Session!Promised, Session!Valid
  <2>1. CASE Initialize
    BY <2>1 DEF Initialize
  <2>2. CASE Descriptors
    BY <2>2 DEF Descriptors
  <2>3. CASE Unparsed
    BY <2>3 DEF Unparsed
  <2>4. CASE BadParams
    BY <2>4 DEF BadParams
  <2>5. CASE GetOrRead
    BY <2>5 DEF GetOrRead
  <2>6. CASE Unknown /\ Line.method = "unknown" /\ Line.id
    BY <2>6 DEF Unknown
  <2>7. CASE Unknown /\ ~(Line.method = "unknown" /\ Line.id)
    <3>1. pc' = "flush" /\ buffer' = <<>>
      BY <2>7 DEF Unknown, LoopInv
    <3>2. Session!Promised(Line) = {}
      BY <2>7 DEF Unknown
    <3> QED
      BY <3>1, <3>2
  <2>8. CASE CallTool
    BY <2>8 DEF CallTool, LoopInv
  <2> QED
    BY <2>1, <2>2, <2>3, <2>4, <2>5, <2>6, <2>7, <2>8 DEF Dispatch
<1> QED
  BY <1>1, <1>2 DEF LoopInv, Count, Answered, AtHand, Errors, Reasons, InHand, Ended

LEMMA LoopInvTool ==
  ASSUME LoopInv, ToolStep
  PROVE  LoopInv'
<1>1. /\ UNCHANGED <<sent, fetched, taken, cur, callback, closed, cancelled, hungUp, out, readErr, err,
                    received>>
      /\ pc = "tool"
  BY DEF ToolStep, client
<1>2. pc' \in {"tool", "flush"} /\ Written'
  BY <1>1 DEF ToolStep, Inspect, Listing, ReadOnlyQuery, ReadHistory, RecordVerdict, Gathers, GoesTo,
              Fails, Succeeds, ToolAnswers, Write, Line, LoopInv, Written, Session!Promised, Session!Valid
<1> QED
  BY <1>1, <1>2 DEF LoopInv, Count, Answered, AtHand, Errors, Reasons, InHand, Ended

(* A flush gives the client the answer at hand, or nothing.                 *)
LEMMA FlushGrows ==
  ASSUME LoopInv, Flush, buffer # <<>>, out = "open"
  PROVE  \E kind \in Session!Promised(Line) :
            /\ [line |-> cur, kind |-> kind] \in Given
            /\ received' = Append(received, [line |-> cur, kind |-> kind])
<1>1. PICK kind \in Session!Promised(Line) : buffer = <<[line |-> cur, kind |-> kind]>>
  BY DEF LoopInv, Written, Flush
<1>2. [line |-> cur, kind |-> kind] \in Given
  BY DEF LoopInv, Count, Given, Session!Promised
<1>3. received' = received \o <<[line |-> cur, kind |-> kind]>>
  BY <1>1 DEF Flush
<1>4. received' = Append(received, [line |-> cur, kind |-> kind])
  BY <1>2, <1>3 DEF LoopInv, Answered
<1> QED
  BY <1>2, <1>4

LEMMA FlushGives ==
  ASSUME LoopInv, Flush
  PROVE  \/ received' = received
         \/ \E kind \in Session!Promised(Line) :
               /\ [line |-> cur, kind |-> kind] \in Given
               /\ received' = Append(received, [line |-> cur, kind |-> kind])
<1>1. CASE buffer = <<>> \/ out # "open"
  BY <1>1 DEF Flush
<1> QED
  BY <1>1, FlushGrows

LEMMA LoopInvEnds ==
  ASSUME LoopInv, Flush \/ StopClose \/ Release
  PROVE  LoopInv'
<1> USE DEF LoopInv, client, loop
<1>1. CASE Flush
  <2>1. Answered'
    <3>1. CASE received' = received
      BY <3>1 DEF Answered
    <3>2. CASE \E kind \in Session!Promised(Line) :
                 /\ [line |-> cur, kind |-> kind] \in Given
                 /\ received' = Append(received, [line |-> cur, kind |-> kind])
      <4>1. PICK kind : /\ [line |-> cur, kind |-> kind] \in Given
                        /\ received' = Append(received, [line |-> cur, kind |-> kind])
        BY <3>2
      <4> QED
        BY <4>1 DEF Answered
    <3> QED
      BY <1>1, <3>1, <3>2, FlushGives
  <2> QED
    BY <1>1, <2>1 DEF Flush, Ends, NextRead, Count, AtHand, Written, Errors, Reasons, InHand, Ended,
                      Line
<1>2. CASE StopClose
  BY <1>2 DEF StopClose, Result, Count, Answered, AtHand, Written, Errors, Reasons, InHand, Ended, Line
<1>3. CASE Release
  BY <1>3 DEF Release, Count, Answered, AtHand, Written, Errors, Reasons, InHand, Ended, Line
<1> QED
  BY <1>1, <1>2, <1>3

LEMMA LoopInvNext == LoopInv /\ [Next]_vars => LoopInv'
<1> SUFFICES ASSUME LoopInv, [Next]_vars
             PROVE  LoopInv'
  OBVIOUS
<1>1. CASE Next
  BY <1>1, LoopInvClient, LoopInvOutside, LoopInvReads, LoopInvDispatch, LoopInvTool, LoopInvEnds
     DEF Next, ServerStep
<1>2. CASE UNCHANGED vars
  BY <1>2 DEF vars, client, loop, LoopInv, Count, Answered, AtHand, Written, Errors, Reasons, InHand, Ended,
              Line, Session!Promised, Session!Valid
<1> QED
  BY <1>1, <1>2

(* Every step is one of the abstract session's, or none of them.            *)
AbstractStep == [Session!SessionNext]_(Session!sessionVars)

LEMMA InitMaps == Init => Session!SessionInit
  BY DEF Init, Session!SessionInit, Handled, Ended

LEMMA OutsideMaps ==
  ASSUME LoopInv, ClientSends \/ HangsUp \/ Stalls \/ Resumes \/ StopsReading \/ Cancel \/ CallbackStep
  PROVE  AbstractStep
<1>1. UNCHANGED <<Handled, received, changed, pc>>
  BY DEF ClientSends, HangsUp, Stalls, Resumes, StopsReading, OutputBecomes, Cancel, CallbackStep,
         CallbackStarts, CallbackCloses, Handled, loop
<1>2. CASE ClientSends
  BY <1>1, <1>2 DEF ClientSends, loop, AbstractStep, Session!SessionNext, Session!ClientWrites
<1>3. CASE HangsUp
  BY <1>1, <1>3 DEF HangsUp, loop, AbstractStep, Session!SessionNext, Session!ClientWrites, Session!CauseArises
<1>4. CASE Stalls \/ Resumes \/ StopsReading \/ Cancel \/ CallbackStep
  BY <1>1, <1>4 DEF Stalls, Resumes, StopsReading, OutputBecomes, Cancel, CallbackStep,
         CallbackStarts, CallbackCloses, loop, client, AbstractStep, Session!SessionNext, Session!CauseArises,
         Session!sessionVars
<1> QED
  BY <1>2, <1>3, <1>4

LEMMA ReadsMap ==
  ASSUME LoopInv, Prepare \/ CheckContext \/ TakeLine \/ Fill \/ ReadEnds \/ ReadFaults \/ CheckAgain
  PROVE  AbstractStep
<1> USE DEF LoopInv, Count, Answered, AtHand, Errors, Reasons, InHand, Ended, Handled, client, loop,
            AbstractStep, Session!SessionNext, Session!sessionVars
<1>1. CASE Prepare
  BY <1>1 DEF Prepare, Session!EndSession
<1>2. CASE CheckContext
  BY <1>2 DEF CheckContext, Ends
<1>3. CASE TakeLine
  BY <1>3 DEF TakeLine, Take
<1>4. CASE Fill
  BY <1>4 DEF Fill
<1>5. CASE ReadEnds \/ ReadFaults
  BY <1>5 DEF ReadEnds, ReadFaults, Take, Session!CauseArises
<1>6. CASE CheckAgain
  BY <1>6 DEF CheckAgain, Ends, NextRead, Line, Session!HandleLine, Session!Promised, Session!Valid
<1> QED
  BY <1>1, <1>2, <1>3, <1>4, <1>5, <1>6

LEMMA HandlingMaps ==
  ASSUME LoopInv, Dispatch \/ ToolStep \/ Flush
  PROVE  AbstractStep
<1> USE DEF LoopInv, AtHand, InHand
<1>1. CASE Dispatch
  BY <1>1, LoopInvDispatch
     DEF Dispatch, Count, Errors, Ended, Handled, client, AbstractStep, Session!sessionVars
<1>2. CASE ToolStep
  <2>1. /\ UNCHANGED <<sent, hungUp, cancelled, out, readErr, err, taken, cur, received>>
        /\ pc = "tool" /\ pc' \in {"tool", "flush"} /\ Line.method = "call" /\ Line.valid
    BY <1>2, LoopInvTool DEF ToolStep, client, Written, Inspect, Listing, ReadOnlyQuery, ReadHistory,
       RecordVerdict, Gathers, GoesTo, Fails, Succeeds, ToolAnswers
  <2>2. \/ UNCHANGED changed
        \/ Line.tool \in {"inspect", "verdict"} /\ changed' = changed \union {cur}
    BY <1>2 DEF ToolStep, Inspect, Listing, ReadOnlyQuery, ReadHistory, RecordVerdict, Gathers, GoesTo,
                Fails, Succeeds, ToolAnswers, Changes
  <2>3. UNCHANGED <<Handled, pc \in Ended>> /\ ~(pc \in Ended)
    BY <2>1 DEF Handled, Ended
  <2>4. Handled + 1 = cur /\ Handled < Len(sent) /\ sent[Handled + 1] = Line
    BY <2>1 DEF Handled, Count, Line
  <2>5. CASE UNCHANGED changed
    BY <2>1, <2>3, <2>5 DEF AbstractStep, Session!sessionVars
  <2>6. CASE Line.tool \in {"inspect", "verdict"} /\ changed' = changed \union {cur}
    BY <2>1, <2>3, <2>4, <2>6 DEF AbstractStep, Session!SessionNext, Session!StoreChanges, Session!MayChange
  <2> QED
    BY <2>2, <2>5, <2>6
<1>3. CASE Flush
  <2>1. /\ UNCHANGED <<sent, changed, hungUp, cancelled, out, readErr, taken>>
        /\ pc = "flush" /\ cur # 0
        /\ ~(pc \in Ended) /\ ~(pc' \in Ended) /\ err = "nil"
    BY <1>3 DEF Flush, client, Ends, NextRead, Ended, Errors
  <2>2. /\ UNCHANGED <<sent, changed, pc \in Ended>>
        /\ cur' = 0 => Handled' = Handled + 1
        /\ cur' = cur => UNCHANGED Handled
        /\ Handled + 1 = cur /\ Handled < Len(sent) /\ sent[Handled + 1] = Line
    BY <2>1 DEF Handled, Count, Line
  <2>3. CASE buffer # <<>> /\ out # "open"
    <3>1. out = "closed" /\ cur' = cur /\ received' = received /\ err' = "output"
      BY <1>3, <2>3 DEF Flush, Ends
    <3> QED
      BY <2>1, <2>2, <3>1 DEF AbstractStep, Session!sessionVars
  <2>4. CASE buffer = <<>> \/ out = "open"
    <3>1. NextRead /\ cur' = 0
      BY <1>3, <2>4, <2>1 DEF Flush
    <3>2. UNCHANGED (hungUp \/ cancelled \/ out = "closed" \/ readErr = "fault" \/ err # "nil")
      BY <2>1, <3>1 DEF NextRead, Errors, Reasons
    <3>3. IF Session!Promised(Line) = {} THEN UNCHANGED received
          ELSE \E kind \in Session!Promised(Line) :
                 received' = Append(received, [line |-> cur, kind |-> kind])
      <4>1. CASE buffer = <<>>
        BY <1>3, <2>1, <4>1 DEF Flush, Written
      <4>2. CASE buffer # <<>>
        BY <1>3, <2>1, <2>4, <4>2, FlushGrows DEF Written
      <4> QED
        BY <4>1, <4>2
    <3>4. Session!HandleLine
      BY <2>1, <2>2, <3>1, <3>2, <3>3 DEF Session!HandleLine
    <3> QED
      BY <3>4 DEF AbstractStep, Session!SessionNext
  <2> QED
    BY <2>3, <2>4
<1> QED
  BY <1>1, <1>2, <1>3

LEMMA EndsMap ==
  ASSUME LoopInv, StopClose \/ Release
  PROVE  AbstractStep
<1> USE DEF LoopInv, Count, Answered, AtHand, Errors, Reasons, InHand, Ended, Handled, client, loop,
            AbstractStep, Session!SessionNext, Session!sessionVars
<1>1. CASE StopClose
  BY <1>1 DEF StopClose, Result, Session!EndSession
<1>2. CASE Release
  BY <1>2 DEF Release
<1> QED
  BY <1>1, <1>2

(* serveMCP implements McpSession, for every client and input.              *)
THEOREM ServerRefinesSession == Spec => RefinesSession
<1>1. LoopInv /\ [Next]_vars => AbstractStep
  <2> SUFFICES ASSUME LoopInv, [Next]_vars
               PROVE  AbstractStep
    OBVIOUS
  <2>1. CASE Next
    BY <2>1, OutsideMaps, ReadsMap, HandlingMaps, EndsMap DEF Next, ServerStep
  <2>2. CASE UNCHANGED vars
    BY <2>2 DEF vars, client, loop, Handled, AbstractStep, Session!sessionVars
  <2> QED
    BY <2>1, <2>2
<1> QED
  BY <1>1, InitMaps, LoopInvInit, LoopInvNext, PTL DEF Spec, RefinesSession, Session!SessionSpec,
     AbstractStep
-----------------------------------------------------------------------------
(* A session that ends well answered everything.  As long as there is no    *)
(* error the answers given are those of the lines dealt with, and the end   *)
(* of the input is seen only once every line was taken.                     *)
LinesAnswered == {received[i].line : i \in DOMAIN received}
OwedUpTo(k) == {n \in 1 .. k : Session!Promised(sent[n]) # {}}
Settled ==
    /\ readErr = "eof" => hungUp /\ taken = Len(sent)
    /\ pc \in {"stop"} \union Ended /\ err = "nil" => readErr = "eof" /\ cur = 0
    /\ err = "nil" => LinesAnswered = OwedUpTo(Handled)

LEMMA SettledInit == Init => Settled
  BY DEF Init, Settled, LinesAnswered, OwedUpTo, Handled, Ended

(* What is owed for the lines dealt with depends on those lines only.       *)
LEMMA OwedStays ==
  ASSUME LoopInv, sent' = sent \/ \E l \in Lines : sent' = Append(sent, l), UNCHANGED Handled
  PROVE  OwedUpTo(Handled)' = OwedUpTo(Handled)
<1>1. Handled \in Nat /\ Handled <= Len(sent)
  BY DEF LoopInv, Count, AtHand, Handled
<1>2. \A n \in 1 .. Handled : sent'[n] = sent[n]
  BY <1>1 DEF LoopInv, Count
<1> QED
  BY <1>1, <1>2 DEF OwedUpTo, Session!Promised, Session!Valid

LEMMA SettledOutside ==
  ASSUME LoopInv, Settled,
         ClientSends \/ HangsUp \/ Stalls \/ Resumes \/ StopsReading \/ Cancel \/ CallbackStep
  PROVE  Settled'
<1>1. /\ UNCHANGED <<taken, cur, pc, readErr, err, received>>
      /\ hungUp => hungUp' /\ sent' = sent
      /\ sent' = sent \/ \E l \in Lines : sent' = Append(sent, l)
  BY DEF ClientSends, HangsUp, Stalls, Resumes, StopsReading, OutputBecomes, Cancel, CallbackStep,
         CallbackStarts, CallbackCloses, loop, client
<1>2. UNCHANGED <<Handled, LinesAnswered>>
  BY <1>1 DEF Handled, LinesAnswered
<1> QED
  BY <1>1, <1>2, OwedStays DEF Settled, Ended

LEMMA SettledReads ==
  ASSUME LoopInv, Settled, Prepare \/ CheckContext \/ TakeLine \/ Fill \/ ReadEnds \/ ReadFaults
  PROVE  Settled'
<1>1. UNCHANGED <<sent, received, hungUp>> /\ err = "nil" /\ cur = 0 /\ readErr = "nil"
  BY DEF Prepare, CheckContext, TakeLine, Fill, ReadEnds, ReadFaults, Take, client, LoopInv, Errors, AtHand, InHand, Ended
<1>2. UNCHANGED Handled
  BY <1>1 DEF Prepare, CheckContext, TakeLine, Fill, ReadEnds, ReadFaults, Take, Ends, Handled, loop, LoopInv, Count
<1>3. err' = "nil" => LinesAnswered' = OwedUpTo(Handled)'
  <2>1. OwedUpTo(Handled)' = OwedUpTo(Handled)
    BY <1>1, <1>2, OwedStays
  <2> QED
    BY <1>1, <2>1 DEF LinesAnswered, Settled
<1>4. pc' \in {"stop"} \union Ended => err' # "nil"
  BY DEF Prepare, CheckContext, TakeLine, Fill, ReadEnds, ReadFaults, Take, Ends, Ended
<1>5. readErr' = "eof" => hungUp' /\ taken' = Len(sent')
  <2>1. CASE Prepare \/ CheckContext \/ TakeLine \/ Fill
    BY <1>1, <2>1 DEF Prepare, CheckContext, TakeLine, Fill, Take, loop
  <2>2. CASE ReadEnds \/ ReadFaults
    BY <1>1, <2>2 DEF ReadEnds, ReadFaults, Take, Buffered, LoopInv, Count
  <2> QED
    BY <2>1, <2>2
<1> QED
  BY <1>3, <1>4, <1>5 DEF Settled

(* A line that is dropped or blank, or the end of the input.                *)
LEMMA SettledCheckAgain ==
  ASSUME LoopInv, Settled, CheckAgain
  PROVE  Settled'
<1>1. /\ UNCHANGED <<sent, received, hungUp, taken, readErr>> /\ err = "nil" /\ pc = "checkAgain"
  BY DEF CheckAgain, client, LoopInv, Errors, Ended
<1>2. CASE cancelled
  BY <1>1, <1>2 DEF CheckAgain, Ends, Settled
<1>3. CASE ~cancelled /\ cur # 0 /\ Line.method # "blank"
  <2>1. UNCHANGED <<err, cur>> /\ pc' = "dispatch"
    BY <1>3 DEF CheckAgain
  <2>2. UNCHANGED Handled
    BY <1>1, <2>1 DEF Handled
  <2> QED
    BY <1>1, <2>1, <2>2, OwedStays DEF Settled, LinesAnswered, Ended
<1>4. CASE ~cancelled /\ ~(cur # 0 /\ Line.method # "blank")
  <2>1. NextRead /\ cur' = 0
    BY <1>4 DEF CheckAgain
  <2>2. Handled' = taken
    BY <1>1, <2>1 DEF Handled
  <2>3. OwedUpTo(taken) = OwedUpTo(Handled)
    <3>1. CASE cur = 0
      BY <3>1 DEF Handled
    <3>2. CASE cur # 0
      <4>1. cur = taken /\ taken \in Nat /\ Handled = taken - 1 /\ Session!Promised(sent[taken]) = {}
        BY <1>4, <3>2 DEF LoopInv, AtHand, Count, Handled, Line, Session!Promised, Session!Valid
      <4>2. \A n \in 1 .. taken : n \in 1 .. Handled \/ n = taken
        BY <4>1
      <4>3. 1 .. Handled \subseteq 1 .. taken
        BY <4>1
      <4> QED
        BY <4>1, <4>2, <4>3 DEF OwedUpTo
    <3> QED
      BY <3>1, <3>2
  <2>4. OwedUpTo(Handled)' = OwedUpTo(taken)
    BY <1>1, <2>2 DEF OwedUpTo, Session!Promised, Session!Valid
  <2>5. LinesAnswered' = OwedUpTo(Handled)'
    BY <1>1, <2>3, <2>4 DEF LinesAnswered, Settled
  <2> QED
    BY <1>1, <2>1, <2>5 DEF Settled, NextRead, Ended, LoopInv, Errors
<1> QED
  BY <1>2, <1>3, <1>4

LEMMA SettledHandling ==
  ASSUME LoopInv, Settled, Dispatch \/ ToolStep
  PROVE  Settled'
<1>1. UNCHANGED <<sent, received, hungUp, taken, readErr, err, cur>>
  BY DEF Dispatch, ToolStep, client
<1>2. pc' \in {"tool", "flush"}
  BY DEF Dispatch, Initialize, Descriptors, Unparsed, BadParams, GetOrRead, Unknown, CallTool, Answer,
         ToolStep, Inspect, Listing, ReadOnlyQuery, ReadHistory, RecordVerdict, Gathers, GoesTo,
         Fails, Succeeds, ToolAnswers
<1>3. UNCHANGED Handled
  BY <1>1 DEF Handled
<1> QED
  BY <1>1, <1>2, <1>3, OwedStays DEF Settled, LinesAnswered, Ended

LEMMA SettledFlush ==
  ASSUME LoopInv, Settled, Flush
  PROVE  Settled'
<1>1. /\ UNCHANGED <<sent, hungUp, taken, readErr>> /\ err = "nil" /\ pc = "flush"
      /\ cur = taken /\ taken \in Nat \ {0} /\ Handled = taken - 1
  BY DEF Flush, client, LoopInv, Errors, AtHand, InHand, Ended, Count, Handled
<1>2. CASE buffer # <<>> /\ out # "open"
  BY <1>1, <1>2 DEF Flush, Ends, Settled
<1>3. CASE buffer = <<>> \/ out = "open"
  <2>1. NextRead /\ cur' = 0
    BY <1>3 DEF Flush
  <2>2. Handled' = taken
    BY <1>1, <2>1 DEF Handled
  <2>3. OwedUpTo(Handled)' = OwedUpTo(taken)
    BY <1>1, <2>2 DEF OwedUpTo, Session!Promised, Session!Valid
  <2>4. \A n : n \in 1 .. taken <=> n \in 1 .. Handled \/ n = taken
    BY <1>1
  <2>5. LinesAnswered' = OwedUpTo(taken)
    <3>1. CASE buffer = <<>>
      <4>1. UNCHANGED received /\ Session!Promised(sent[taken]) = {}
        BY <1>1, <3>1 DEF Flush, LoopInv, Written, Line
      <4>2. OwedUpTo(taken) = OwedUpTo(Handled)
        BY <2>4, <4>1 DEF OwedUpTo
      <4> QED
        BY <1>1, <4>1, <4>2 DEF LinesAnswered, Settled
    <3>2. CASE buffer # <<>>
      <4>1. PICK kind \in Session!Promised(Line) :
               /\ [line |-> cur, kind |-> kind] \in Given
               /\ received' = Append(received, [line |-> cur, kind |-> kind])
        BY <1>3, <3>2, FlushGrows
      <4>2. LinesAnswered' = LinesAnswered \union {taken}
        <5>1. /\ received \in Seq(Given) /\ Len(received') = Len(received) + 1 /\ Len(received) \in Nat
              /\ DOMAIN received' = 1 .. Len(received) + 1 /\ DOMAIN received = 1 .. Len(received)
              /\ \A i \in 1 .. Len(received) : received'[i] = received[i]
              /\ received'[Len(received) + 1].line = taken
          BY <1>1, <4>1 DEF LoopInv, Answered
        <5> QED
          BY <5>1 DEF LinesAnswered
      <4>3. OwedUpTo(taken) = OwedUpTo(Handled) \union {taken}
        BY <1>1, <2>4, <4>1 DEF OwedUpTo, Line
      <4> QED
        BY <1>1, <4>2, <4>3 DEF Settled
    <3> QED
      BY <3>1, <3>2
  <2> QED
    BY <1>1, <2>1, <2>3, <2>5 DEF Settled, NextRead, Ended, LoopInv, Errors
<1> QED
  BY <1>2, <1>3

LEMMA SettledEnds ==
  ASSUME LoopInv, Settled, StopClose \/ Release
  PROVE  Settled'
<1>1. /\ UNCHANGED <<sent, received, hungUp, taken, readErr>>
      /\ pc \in {"stop"} \union Ended /\ (err' = "nil" => err = "nil") /\ (cur = 0 => cur' = 0)
  BY DEF StopClose, Release, Result, client, loop, Ended
<1>2. err' = "nil" => UNCHANGED Handled
  BY <1>1 DEF Handled, Settled
<1> QED
  BY <1>1, <1>2, OwedStays DEF Settled, LinesAnswered, Ended

LEMMA SettledNext == LoopInv /\ Settled /\ [Next]_vars => Settled'
<1> SUFFICES ASSUME LoopInv, Settled, [Next]_vars
             PROVE  Settled'
  OBVIOUS
<1>1. CASE Next
  BY <1>1, SettledOutside, SettledReads, SettledCheckAgain, SettledHandling, SettledFlush, SettledEnds
     DEF Next, ServerStep
<1>2. CASE UNCHANGED vars
  <2>1. UNCHANGED <<sent, received, hungUp, taken, readErr, err, cur, pc, Handled>>
    BY <1>2 DEF vars, client, loop, Handled
  <2> QED
    BY <2>1, OwedStays DEF Settled, LinesAnswered, Ended
<1> QED
  BY <1>1, <1>2

(* When serveMCP returns nil the client had closed its end and has the      *)
(* answer to every line it wrote that is owed one, and no other.            *)
THEOREM CleanEndAnswersAll == Spec => []CleanEndAnsweredAll
<1>1. LoopInv /\ Settled => CleanEndAnsweredAll
  <2> SUFFICES ASSUME LoopInv, Settled, pc = "returned", err = "nil"
               PROVE  hungUp /\ {received[i].line : i \in DOMAIN received} = Owed
    BY DEF CleanEndAnsweredAll
  <2>1. hungUp /\ Handled = Len(sent) /\ LinesAnswered = OwedUpTo(Handled)
    BY DEF Settled, Ended, Handled
  <2> QED
    BY <2>1 DEF LinesAnswered, OwedUpTo, Owed
<1> QED
  BY <1>1, LoopInvInit, LoopInvNext, SettledInit, SettledNext, PTL DEF Spec
=============================================================================
