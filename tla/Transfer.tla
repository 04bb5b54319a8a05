------------------------------ MODULE Transfer ------------------------------
(***************************************************************************)
(* One download of `net.transfer` (exec/effects.rs, exec/chunked.rs): the  *)
(* opening range request that decides the route, the single stream, the    *)
(* parallel ranges with their retries and shared byte count, the           *)
(* destination file with its partial-file guard, and the progress reports. *)
(*                                                                         *)
(* Bytes are counted, not carried: the file is the set of offsets that     *)
(* hold the supplier's byte.  The supplier is honest about lengths (HTTP   *)
(* framing) and may break off, refuse or stall at any point; a stall is a  *)
(* break, by the client's read timeout.                                    *)
(***************************************************************************)
EXTENDS Integers, FiniteSets

CONSTANTS
  ChunkSize,     \* CHUNK_SIZE, in bytes
  Concurrency,   \* CONCURRENCY
  MaxAttempts,   \* MAX_ATTEMPTS per range
  Sizes,         \* the entities a supplier may hold, by length
  Pieces         \* bound: the lengths body pieces arrive in

MinTotal == 2 * ChunkSize

ASSUME TransferAssumption ==
  /\ ChunkSize \in Nat \ {0}
  /\ Concurrency \in Nat \ {0}
  /\ MaxAttempts \in Nat \ {0}
  /\ Sizes \subseteq Nat
  /\ Pieces \subseteq Nat \ {0}

VARIABLES
  supplier,  \* the entity's size, whether ranges are served, whether totalled
  phase,     \* where the transfer is
  body,      \* how many bytes the answer to the opening request carries
  file,      \* the destination
  armed,     \* whether dropping the guard removes the destination
  task,      \* the range downloads, by their first byte
  written,   \* the counter the ranges share (the stream's own total)
  pending,   \* what the stream has handed to tokio and the file not yet got
  said       \* the last progress report

vars == <<supplier, phase, body, file, armed, task, written, pending, said>>

-----------------------------------------------------------------------------
(* Data *)

Size == supplier.size

Smaller(a, b) == IF a < b THEN a ELSE b

\* The opening range is chunk zero; the others start at every ChunkSize.
Starts == {o \in 0 .. Size - 1 : o % ChunkSize = 0}

EndOf(o) == Smaller(o + ChunkSize - 1, Size - 1)

LengthOf(o) == EndOf(o) - o + 1

NoFile == [kind |-> "absent", held |-> {}, length |-> 0]

NoReport == [written |-> 0, finished |-> FALSE]

\* `attempt` counts the requests a range has made of its own; chunk zero
\* starts by draining the answer to the opening request, which is none.
Fresh == [at |-> 0, attempt |-> 0, is |-> "waiting"]

Whole == file.kind = "new" /\ file.held = 0 .. Size - 1 /\ file.length = Size

InFlight == {o \in DOMAIN task : task[o].is \notin {"waiting", "joined"}}

Active == phase \in {"opening", "creating", "streaming", "ranging"}

\* The guard goes out of scope: an armed one takes the destination with it.
Dropped == IF armed THEN NoFile ELSE file

Init ==
  /\ supplier \in [size : Sizes, ranges : BOOLEAN, totalled : BOOLEAN]
  /\ phase = "opening"
  /\ body = 0
  /\ file \in {NoFile, [NoFile EXCEPT !.kind = "old"]}
  /\ armed = FALSE
  /\ task = << >>
  /\ written = 0
  /\ pending = 0
  /\ said = NoReport

-----------------------------------------------------------------------------
(* download: the opening request and the choice of a route                  *)

\* A supplier that serves ranges answers 206 with the opening range, any
\* other 200 with everything.  An empty entity has no opening range: 416.
Answered ==
  /\ phase = "opening"
  /\ supplier.ranges => Size > 0
  /\ phase' = "creating"
  /\ body' = IF supplier.ranges THEN Smaller(ChunkSize, Size) ELSE Size
  /\ UNCHANGED <<supplier, file, armed, task, written, pending, said>>

\* No connection, or a status outside 200..299: nothing was created.
Refused ==
  /\ phase = "opening"
  /\ phase' = "failed"
  /\ UNCHANGED <<supplier, body, file, armed, task, written, pending, said>>

Ranged == supplier.ranges /\ supplier.totalled /\ Size >= MinTotal

\* The parent directory or the file cannot be created.
CreateFails ==
  /\ phase = "creating"
  /\ phase' = "failed"
  /\ UNCHANGED <<supplier, body, file, armed, task, written, pending, said>>

CreateStreamed ==
  /\ phase = "creating"
  /\ ~Ranged
  /\ phase' = "streaming"
  /\ file' = [NoFile EXCEPT !.kind = "new"]
  /\ armed' = TRUE
  /\ UNCHANGED <<supplier, body, task, written, pending, said>>

\* The ranges started before the first join, chunk zero among them.
FirstSeats == {o \in Starts : o < Concurrency * ChunkSize}

\* Created, sized to its full length, and every seat taken.
CreateRanged ==
  /\ phase = "creating"
  /\ Ranged
  /\ phase' = "ranging"
  /\ file' = [kind |-> "new", held |-> {}, length |-> Size]
  /\ armed' = TRUE
  /\ task' = [o \in Starts |->
               [Fresh EXCEPT !.is = IF o = 0 THEN "reading"
                                    ELSE IF o \in FirstSeats THEN "asking"
                                    ELSE "waiting"]]
  /\ UNCHANGED <<supplier, body, written, pending, said>>

\* set_len fails: the guard was armed just before.
SizingFails ==
  /\ phase = "creating"
  /\ Ranged
  /\ phase' = "failed"
  /\ file' = NoFile
  /\ UNCHANGED <<supplier, body, armed, task, written, pending, said>>

-----------------------------------------------------------------------------
(* stream_to_file                                                           *)

\* tokio::fs::File::write_all returns with the piece in its buffer; the write
\* itself ends before the next one begins.
StreamPiece ==
  /\ phase = "streaming"
  /\ pending = 0
  /\ \E n \in Pieces :
       /\ written + n <= body
       /\ written' = written + n
       /\ pending' = n
       /\ said' = [written |-> written + n, finished |-> FALSE]
  /\ UNCHANGED <<supplier, phase, body, file, armed, task>>

StreamWritten ==
  /\ phase = "streaming"
  /\ pending > 0
  /\ file' = [file EXCEPT !.held = @ \cup (written - pending .. written - 1),
                          !.length = written]
  /\ pending' = 0
  /\ UNCHANGED <<supplier, phase, body, armed, task, written, said>>

\* The body ended and the flush, which waits for the last write, succeeded.
StreamEnds ==
  /\ phase = "streaming"
  /\ written = body /\ pending = 0
  /\ phase' = "done"
  /\ armed' = FALSE
  /\ said' = [written |-> written, finished |-> TRUE]
  /\ UNCHANGED <<supplier, body, file, task, written, pending>>

\* A write, a flush or a read of the body failed.
StreamBreaks ==
  /\ phase = "streaming"
  /\ phase' = "failed"
  /\ file' = Dropped
  /\ UNCHANGED <<supplier, body, armed, task, written, pending, said>>

-----------------------------------------------------------------------------
(* chunked::download                                                        *)

Moved(o, is, attempt, at) ==
  task' = [task EXCEPT ![o] = [at |-> at, attempt |-> attempt, is |-> is]]

Spent(attempt) == attempt = MaxAttempts

AfterFailure(attempt) == IF Spent(attempt) THEN "broken" ELSE "asking"

\* Mutant: a request is not counted as an attempt.
SameAttempt(o) == task[o].attempt

NextAttempt(o) == task[o].attempt + 1

\* attempt_chunk: its request is answered 206.
RangeAnswered(o) ==
  /\ phase = "ranging"
  /\ task[o].is = "asking"
  /\ Moved(o, "reading", NextAttempt(o), 0)
  /\ UNCHANGED <<supplier, phase, body, file, armed, written, pending, said>>

\* No connection, or any other status, 200 included.
RangeRefused(o) ==
  /\ phase = "ranging"
  /\ task[o].is = "asking"
  /\ Moved(o, AfterFailure(NextAttempt(o)), NextAttempt(o), 0)
  /\ UNCHANGED <<supplier, phase, body, file, armed, written, pending, said>>

\* Mutant: a piece is written at its place in the range, not in the file.
OffsetInRange(o) == task[o].at

\* Where the next piece of a range belongs in the file.
Offset(o) == o + task[o].at

\* drain: one piece, written at its own offset and then counted.
RangePiece(o) ==
  /\ phase = "ranging"
  /\ task[o].is = "reading"
  /\ \E n \in Pieces :
       /\ task[o].at + n <= LengthOf(o)
       /\ file' = [file EXCEPT !.held = @ \cup (Offset(o) .. Offset(o) + n - 1)]
       /\ written' = written + n
       /\ Moved(o, "reading", task[o].attempt, task[o].at + n)
  /\ UNCHANGED <<supplier, phase, body, armed, said, pending>>

\* Mutant: a failed attempt keeps what it counted.
NothingReturned(o) == written

\* A failed attempt gives back what it counted.
Returned(o) == written - task[o].at

\* Mutant: a broken opening answer is not asked for again.
OpeningBreaksAll(o) ==
  IF task[o].attempt = 0 THEN "broken" ELSE AfterFailure(task[o].attempt)

\* The body broke off or ended early.  A broken opening answer leaves chunk
\* zero all its attempts.
Retried(o) == AfterFailure(task[o].attempt)

RangeBreaks(o) ==
  /\ phase = "ranging"
  /\ task[o].is = "reading"
  /\ written' = Returned(o)
  /\ Moved(o, Retried(o), task[o].attempt, 0)
  /\ UNCHANGED <<supplier, phase, body, file, armed, said, pending>>

RangeLands(o) ==
  /\ phase = "ranging"
  /\ task[o].is = "reading"
  /\ task[o].at = LengthOf(o)
  /\ Moved(o, "landed", task[o].attempt, task[o].at)
  /\ UNCHANGED <<supplier, phase, body, file, armed, written, pending, said>>

Waiting == {o \in DOMAIN task : task[o].is = "waiting"}

\* A range that landed gives its seat to the next one.
JoinLanded(o) ==
  /\ phase = "ranging"
  /\ task[o].is = "landed"
  /\ task' = [u \in DOMAIN task |->
               IF u = o THEN [task[o] EXCEPT !.is = "joined"]
               ELSE IF u \in Waiting /\ \A v \in Waiting : u <= v
                 THEN [Fresh EXCEPT !.is = "asking"]
               ELSE task[u]]
  /\ UNCHANGED <<supplier, phase, body, file, armed, written, pending, said>>

\* The first range out of attempts ends the transfer and aborts the others.
JoinBroken(o) ==
  /\ phase = "ranging"
  /\ task[o].is = "broken"
  /\ phase' = "failed"
  /\ file' = Dropped
  /\ UNCHANGED <<supplier, body, armed, task, written, pending, said>>

\* The one-second ticker.
Tick ==
  /\ phase = "ranging"
  /\ said' = [written |-> written, finished |-> FALSE]
  /\ UNCHANGED <<supplier, phase, body, file, armed, task, written, pending>>

AllJoined == \A o \in DOMAIN task : task[o].is = "joined"

\* Every range landed; the count is compared with the declared total all the
\* same.
RangesEnd ==
  /\ phase = "ranging"
  /\ AllJoined
  /\ IF written = Size
       THEN /\ phase' = "done"
            /\ armed' = FALSE
            /\ said' = [written |-> written, finished |-> TRUE]
            /\ UNCHANGED file
       ELSE /\ phase' = "failed"
            /\ file' = Dropped
            /\ UNCHANGED <<armed, said, pending>>
  /\ UNCHANGED <<supplier, body, task, written, pending>>

-----------------------------------------------------------------------------

\* The step's future is dropped: only the guard runs.
Cancel ==
  /\ Active
  /\ phase' = "cancelled"
  /\ file' = Dropped
  /\ UNCHANGED <<supplier, body, armed, task, written, pending, said>>

\* The provisioner's process dies: not even the guard runs.
Killed ==
  /\ Active
  /\ phase' = "killed"
  /\ UNCHANGED <<supplier, body, file, armed, task, written, pending, said>>

Open == Answered \/ Refused \/ CreateFails

Streamed == \/ CreateStreamed \/ StreamPiece \/ StreamWritten
            \/ StreamEnds \/ StreamBreaks

RangeStep(o) ==
  \/ RangeAnswered(o) \/ RangeRefused(o) \/ RangePiece(o) \/ RangeBreaks(o)
  \/ RangeLands(o) \/ JoinLanded(o) \/ JoinBroken(o)

InRanges ==
  \/ CreateRanged \/ SizingFails
  \/ \E o \in DOMAIN task : RangeStep(o)
  \/ RangesEnd

Proceed == Open \/ Streamed \/ InRanges

Next == Proceed \/ Tick \/ Cancel \/ Killed

Spec == Init /\ [][Next]_vars

\* Every request has a connect error or a read timeout, and the runtime
\* polls what is ready.
FairSpec == Spec /\ WF_vars(Proceed)

-----------------------------------------------------------------------------
(* Properties                                                               *)

Phases == {"opening", "creating", "streaming", "ranging",
           "done", "failed", "cancelled", "killed"}

\* The file, the counter and the range tasks have the shape the code gives
\* them (TransferProgress, PartialFile, download).
TypeOK ==
  /\ supplier \in [size : Sizes, ranges : BOOLEAN, totalled : BOOLEAN]
  /\ phase \in Phases
  /\ body \in 0 .. Size
  /\ file.kind \in {"absent", "old", "new"}
  /\ file.held \subseteq 0 .. Size - 1
  /\ file.length \in 0 .. Size
  /\ armed \in BOOLEAN
  /\ DOMAIN task \subseteq Starts
  /\ \A o \in DOMAIN task :
       /\ task[o].at \in 0 .. LengthOf(o)
       /\ task[o].attempt \in 0 .. MaxAttempts
       /\ task[o].is \in {"waiting", "asking", "reading", "landed", "broken",
                          "joined"}
  /\ written \in 0 .. Size
  /\ pending \in 0 .. written
  /\ said.written \in 0 .. Size /\ said.finished \in BOOLEAN

\* A 206 that download writes down as if it were the whole body: the total is
\* unknown, or past the first chunk and below MinTotal.
Truncating == supplier.ranges /\ Size > ChunkSize /\ ~Ranged

\* A transfer that reports success left every byte of the entity, in a file of
\* its length, however its ranges failed and were retried; one that failed or
\* was cancelled left nothing of its own; and a finished report is sent by the
\* first kind only (chunked::download, stream_to_file, PartialFile).
DoneIsWhole ==
  /\ phase = "done" /\ ~Truncating => Whole
  /\ phase \in {"failed", "cancelled"} => file.kind # "new"
  /\ said.finished <=> phase = "done"

\* What a report on ranges claims as written is in the file: one made while a
\* range is being retried never counts a byte twice (chunk, fetch_sub).
ReportedIsHeld ==
  phase = "ranging" => said.written <= Cardinality(file.held)

\* One dropped connection does not discard the rest: ranges under way fail
\* only when one of them has used every attempt it has (chunk, download).
FailsOnlyWhenSpent ==
  [][phase = "ranging" /\ phase' = "failed" =>
       \E o \in DOMAIN task : task[o].attempt = MaxAttempts]_vars

\* Every transfer comes to an end, whatever the supplier keeps breaking.
Ends == <>~Active

-----------------------------------------------------------------------------
(* What the documents and comments say, and the code does not do            *)

\* CHANGELOG.md: "a destination is either absent or complete and the next
\* apply's condition is answering about a whole file".  A 206 that is not the
\* whole body is written down as one.
SuccessIsWhole == phase = "done" => Whole
=============================================================================
