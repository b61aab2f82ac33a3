------------------------------- MODULE LogTail -------------------------------
(***************************************************************************)
(* `pgbot logs --live`: Follow (internal/pglog/tail.go) over the SQL       *)
(* source, with the stderr parser.  PostgreSQL appends whole entries to    *)
(* the current log file and rotates it, to a new name or truncating a name *)
(* used before; Follow polls: pg_current_logfile names the file,           *)
(* pg_ls_logdir gives its size, pg_read_binary_file the bytes, three       *)
(* queries between which the server goes on.                               *)
(*                                                                         *)
(* An entry is written in pieces: the first half of its first line, the    *)
(* second half, and a continuation line (DETAIL).  A read is capped        *)
(* (maxReadChunk), so it can end in the middle of a line or of an entry.   *)
(***************************************************************************)
EXTENDS Naturals, Sequences, SequencesExt

CONSTANTS
    Names,         \* log file names
    First,         \* the name of the first file
    MaxRead,       \* maxReadChunk, in pieces
    MaxEntries,    \* bound on the entries the server writes
    MaxRotations   \* bound on rotations

ASSUME LogAssumption ==
    /\ First \in Names
    /\ MaxRead \in Nat \ {0} /\ MaxEntries \in Nat /\ MaxRotations \in Nat

VARIABLES
    files,    \* each name's content and its generation (history)
    current,  \* pg_current_logfile()
    written,  \* entries written so far
    poll,     \* where the poll is
    stat,     \* the name pg_current_logfile() gave this poll
    pos,      \* TailPos: file, size at the last look, offset; generation (history)
    carry,    \* Parser.carry: pieces of an incomplete line
    pending,  \* Parser.pending: pieces of the entry still absorbing lines
    out,      \* the entries emitted
    got,      \* history: the pieces emitted since the file was opened
    slipped   \* history: a truncated file had grown past the offset unnoticed

tailVars == <<files, current, written, poll, stat, pos, carry, pending, out, got, slipped>>

Pieces(i) == [k \in 1 .. 3 |->
    [entry |-> i, part |-> <<"prefix", "message", "detail">>[k]]]

(* A slip of EndsLine: a line is taken as complete without its newline.     *)
EndsAnyway(p) == TRUE
EndsLine(p) == p.part # "prefix"

Size(n) == Len(files[n].data)

(* A slip of Quiet: a silent poll is not noticed.                           *)
NeverQuiet(size, offset) == FALSE
(* No bytes have come since the last read.                                  *)
Quiet(size, offset) == size = offset
-----------------------------------------------------------------------------
(* The parser's state, and the entries a chunk completed.                   *)
State(c, p, done) == [carry |-> c, pending |-> p, done |-> done]

(* feedStderr on one complete line: a line with a severity of its own       *)
(* completes the pending entry and starts a new one; a continuation extends *)
(* the pending entry or, with none, is skipped.                             *)
FeedLine(s, line) ==
    IF line[Len(line)].part = "message"
      THEN State(<<>>, line, IF s.pending = <<>> THEN s.done ELSE Append(s.done, s.pending))
      ELSE State(<<>>, IF s.pending = <<>> THEN <<>> ELSE s.pending \o line, s.done)

(* Parse: what follows the last newline is carried to the next chunk.       *)
Feed(s, p) ==
    IF EndsLine(p)
      THEN FeedLine(s, Append(s.carry, p))
      ELSE State(Append(s.carry, p), s.pending, s.done)

(* A slip of Parse: the carry of the last chunk is dropped.                 *)
ParseNoCarry(c, p, chunk) == FoldLeft(Feed, State(<<>>, p, <<>>), chunk)
Parse(c, p, chunk) == FoldLeft(Feed, State(c, p, <<>>), chunk)

(* Flush: the pending entry; an incomplete line is not flushed.             *)
Flush(p) == IF p = <<>> THEN <<>> ELSE <<p>>

Emit(entries) ==
    /\ out' = out \o entries
    /\ got' = got \o FlattenSeq(entries)
-----------------------------------------------------------------------------
(* LastN has shown the newest entries and handed over the end of the file.  *)
TailInit ==
    \E k \in 0 .. 1 :
        LET data == FlattenSeq([i \in 1 .. k |-> Pieces(i)])
        IN  /\ files = [n \in Names |-> [gen |-> 0, data |-> IF n = First THEN data ELSE <<>>]]
            /\ current = First
            /\ written = k
            /\ poll = "wait" /\ stat = First
            /\ pos = [name |-> First, size |-> Len(data), offset |-> Len(data), gen |-> 0]
            /\ carry = <<>> /\ pending = <<>> /\ out = <<>>
            /\ got = data
            /\ slipped = FALSE

Follower == <<poll, stat, pos, carry, pending, out, got, slipped>>
Server == <<files, current, written>>

(* The server writes a message and its DETAIL in one write.                 *)
Write ==
    /\ written < MaxEntries
    /\ written' = written + 1
    /\ files' = [files EXCEPT ![current].data = @ \o Pieces(written + 1)]
    /\ UNCHANGED <<current, Follower>>

Generation == CHOOSE g \in {files[n].gen : n \in Names} : \A n \in Names : files[n].gen <= g

(* Rotation: another file, empty or truncated, or the same one truncated.   *)
Rotate ==
    /\ Generation < MaxRotations
    /\ \E n \in Names :
        /\ files' = [files EXCEPT ![n] = [gen |-> Generation + 1, data |-> <<>>]]
        /\ current' = n
    /\ UNCHANGED <<written, Follower>>

(* A tick: Stat's first query.                                              *)
StatName ==
    /\ poll = "wait"
    /\ stat' = current
    /\ poll' = "size"
    /\ UNCHANGED <<Server, pos, carry, pending, out, got, slipped>>

(* Stat's second query.  A new name or a size below the offset means        *)
(* rotation: flush and start at the beginning of the current file; no new   *)
(* bytes mean that the pending entry is complete.                           *)
StatSize ==
    /\ poll = "size"
    /\ LET size == Size(stat)
           rotated == stat # pos.name \/ size < pos.offset
           quiet == Quiet(size, IF rotated THEN 0 ELSE pos.offset)
       IN  /\ pos' = IF rotated
                       THEN [name |-> stat, size |-> size, offset |-> 0, gen |-> files[stat].gen]
                       ELSE [pos EXCEPT !.size = size]
           /\ IF rotated
                THEN /\ out' = out \o Flush(pending)
                     /\ carry' = <<>> /\ got' = <<>>
                ELSE /\ Emit(IF quiet THEN Flush(pending) ELSE <<>>)
                     /\ UNCHANGED carry
           /\ pending' = IF rotated \/ quiet THEN <<>> ELSE pending
           /\ slipped' = (slipped \/ (~rotated /\ files[stat].gen # pos.gen))
           /\ poll' = IF quiet THEN "wait" ELSE "read"
    /\ UNCHANGED <<Server, stat>>

(* ReadAt: at most maxReadChunk of what Stat promised, less if the file was *)
(* truncated since; the offset moves by what was read.                      *)
Read ==
    /\ poll = "read"
    /\ LET data == files[pos.name].data
           want == IF pos.size - pos.offset < MaxRead THEN pos.size - pos.offset ELSE MaxRead
           chunk == SubSeq(data, pos.offset + 1,
                           IF pos.offset + want < Len(data) THEN pos.offset + want ELSE Len(data))
           s == Parse(carry, pending, chunk)
       IN  /\ pos' = [pos EXCEPT !.offset = @ + Len(chunk)]
           /\ carry' = s.carry /\ pending' = s.pending
           /\ Emit(s.done)
           /\ slipped' = (slipped \/ (chunk # <<>> /\ files[pos.name].gen # pos.gen))
    /\ poll' = "wait"
    /\ UNCHANGED <<Server, stat>>

(* A query fails (the file is gone, a connection blip): poll again.         *)
QueryFails ==
    /\ poll' = "wait"
    /\ UNCHANGED <<Server, stat, pos, carry, pending, out, got, slipped>>
PollFails == poll # "wait" /\ QueryFails

TailNext == Write \/ Rotate \/ StatName \/ StatSize \/ Read \/ PollFails

(* The ticker keeps ticking, and queries do not fail for ever.              *)
TailSpec == TailInit /\ [][TailNext]_tailVars /\ WF_tailVars(StatName) /\ SF_tailVars(StatSize) /\ SF_tailVars(Read)
-----------------------------------------------------------------------------
(* Within one file nothing is lost, repeated, reordered or mixed, however   *)
(* reads cut lines and entries and whichever polls fail: what was emitted,  *)
(* the pending entry and the carried bytes are the file up to the offset.   *)
ConsumedIsAccounted ==
    ~slipped /\ files[pos.name].gen = pos.gen =>
        got \o pending \o carry = SubSeq(files[pos.name].data, 1, pos.offset)

(* An entry is emitted only when complete, with its continuation lines,     *)
(* except at a rotation.                                                    *)
EmittedWhole ==
    [][~slipped' /\ pos'.gen = pos.gen =>
          \A k \in Len(out) + 1 .. Len(out') : out'[k] = Pieces(out'[k][1].entry)]_tailVars

(* A pending entry is emitted in the end: it does not wait for the next     *)
(* one to be written.                                                       *)
PendingIsEmitted == pending # <<>> ~> pending = <<>>

=============================================================================
