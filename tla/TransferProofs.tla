--------------------------- MODULE TransferProofs ---------------------------
(***************************************************************************)
(* What holds of a download of any length, in chunks of any length, with   *)
(* any number of ranges under way and of attempts (Transfer): success      *)
(* leaves the whole file, a report never claims a byte that is not in it,  *)
(* and ranges fail only when one of them has no attempt left.  The         *)
(* invariant says that the ranges' shared count is the number of bytes     *)
(* they stand for, however often one of them has started again.            *)
(***************************************************************************)
EXTENDS Transfer, FiniteSetTheorems, TLAPS

TaskStates == {"waiting", "asking", "reading", "landed", "broken", "joined"}

Tasks == [at : Nat, attempt : Nat, is : TaskStates]

FileStates == [kind : {"absent", "old", "new"}, held : SUBSET (0 .. Size - 1),
               length : Nat]

Typed ==
  /\ supplier \in [size : Sizes, ranges : BOOLEAN, totalled : BOOLEAN]
  /\ phase \in Phases
  /\ body \in Nat
  /\ file \in FileStates
  /\ armed \in BOOLEAN
  /\ written \in Nat
  /\ pending \in Nat
  /\ said \in [written : Nat, finished : BOOLEAN]

\* What has been done before the file is created: nothing.
Unopened ==
  phase \in {"opening", "creating"} =>
    /\ file.kind # "new" /\ ~armed
    /\ written = 0 /\ pending = 0 /\ said = NoReport

\* The answer to the opening request carries its range, or everything.
BodyTrue ==
  phase \in {"creating", "streaming"} =>
    body = IF supplier.ranges THEN Smaller(ChunkSize, Size) ELSE Size

\* The stream's file is what was received, but for what tokio still has.
StreamTrue ==
  phase = "streaming" =>
    /\ ~Ranged /\ armed /\ file.kind = "new"
    /\ pending <= written /\ written <= body
    /\ file.held = 0 .. written - pending - 1
    /\ file.length = written - pending

\* The bytes the ranges of t count.
Bytes(t) == UNION {o .. o + t[o].at - 1 : o \in Starts}

\* Where each range is agrees with what it may still do.
RangeTrue(o) ==
  /\ task[o] \in Tasks
  /\ task[o].at <= LengthOf(o)
  /\ task[o].is \in {"asking", "waiting", "broken"} => task[o].at = 0
  /\ task[o].is \in {"landed", "joined"} => task[o].at = LengthOf(o)
  /\ task[o].is = "broken" => task[o].attempt = MaxAttempts

\* The shared count is the number of bytes the ranges stand for, and the file
\* holds them.
RangesTrue ==
  phase = "ranging" =>
    /\ Ranged /\ armed /\ file.kind = "new" /\ file.length = Size
    /\ DOMAIN task = Starts
    /\ \A o \in Starts : RangeTrue(o)
    /\ Bytes(task) \subseteq file.held
    /\ written = Cardinality(Bytes(task))

TransferIInv ==
  /\ Typed /\ Unopened /\ BodyTrue /\ StreamTrue /\ RangesTrue
  /\ DoneIsWhole /\ ReportedIsHeld

-----------------------------------------------------------------------------
(* Chunks                                                                   *)

\* Two chunks have no byte in common.
LEMMA ChunksAreApart ==
  ASSUME NEW c \in Nat \ {0}, NEW o \in Nat, NEW u \in Nat,
         o % c = 0, u % c = 0, o < u
  PROVE  o + c <= u
<1>1. /\ o = c * (o \div c) /\ u = c * (u \div c)
      /\ o \div c \in Int /\ u \div c \in Int
  OBVIOUS
<1>2. o \div c < u \div c
  <2> SUFFICES ASSUME u \div c <= o \div c PROVE FALSE
    BY <1>1
  <2>1. c * (u \div c) <= c * (o \div c)
    BY <1>1
  <2> QED BY <1>1, <2>1
<1>3. (o \div c) + 1 <= u \div c
  BY <1>1, <1>2
<1>4. c * ((o \div c) + 1) <= c * (u \div c)
  BY <1>1, <1>3
<1>5. c * ((o \div c) + 1) = c * (o \div c) + c
  BY <1>1
<1> QED BY <1>1, <1>4, <1>5

\* Every byte is in a chunk.
LEMMA BytesHaveChunks ==
  ASSUME NEW c \in Nat \ {0}, NEW b \in Nat
  PROVE  /\ b % c \in 0 .. c - 1
         /\ b - (b % c) \in Nat /\ (b - (b % c)) % c = 0
<1>1. b % c \in 0 .. c - 1 /\ b = c * (b \div c) + (b % c) /\ b \div c \in Nat
  OBVIOUS
<1>2. b - (b % c) = c * (b \div c)
  BY <1>1
<1>3. (c * (b \div c)) % c = 0
  BY <1>1
<1> QED BY <1>1, <1>2, <1>3

LEMMA SpanLength ==
  ASSUME NEW a \in Nat, NEW n \in Nat
  PROVE  Cardinality(a .. a + n - 1) = n
<1> DEFINE b == a + n - 1
<1>1. b \in Int /\ a \in Int
  OBVIOUS
<1> HIDE DEF b
<1>2. Cardinality(a .. b) = IF a > b THEN 0 ELSE b - a + 1
  BY <1>1, FS_Interval
<1> QED BY <1>1, <1>2 DEF b

LEMMA StartsAre ==
  ASSUME Typed
  PROVE  /\ Size \in Nat /\ ChunkSize \in Nat \ {0} /\ IsFiniteSet(0 .. Size - 1)
         /\ \A o \in Starts :
              /\ o \in Nat /\ LengthOf(o) \in 1 .. ChunkSize
              /\ o + LengthOf(o) <= Size
              /\ LengthOf(o) = ChunkSize \/ o + LengthOf(o) = Size
         /\ \A o, u \in Starts : o < u => o + ChunkSize <= u
<1>1. Size \in Nat /\ ChunkSize \in Nat \ {0}
  BY TransferAssumption DEF Typed, Size
<1>2. ASSUME NEW o \in Starts
      PROVE  /\ o \in Nat /\ LengthOf(o) \in 1 .. ChunkSize
             /\ o + LengthOf(o) <= Size
             /\ LengthOf(o) = ChunkSize \/ o + LengthOf(o) = Size
  BY <1>1 DEF Starts, LengthOf, EndOf, Smaller
<1>3. \A o, u \in Starts : o < u => o + ChunkSize <= u
  BY <1>1, <1>2, ChunksAreApart DEF Starts
<1> QED BY <1>1, <1>2, <1>3, FS_Interval

\* The count follows the range that moves: no byte is counted for two ranges.
LEMMA BytesCount ==
  ASSUME Typed, NEW t, NEW v, NEW o \in Starts, NEW k \in 0 .. LengthOf(o),
         \A u \in Starts : t[u].at \in Nat /\ t[u].at <= LengthOf(u),
         v[o].at = k,
         \A u \in Starts : u # o => v[u].at = t[u].at
  PROVE  /\ IsFiniteSet(Bytes(t))
         /\ Cardinality(Bytes(v)) = Cardinality(Bytes(t)) - t[o].at + k
         /\ Bytes(v) \subseteq Bytes(t) \cup (o .. o + k - 1)
         /\ Bytes(t) \subseteq 0 .. Size - 1
<1> DEFINE Rest == UNION {u .. u + t[u].at - 1 : u \in Starts \ {o}}
           Old == o .. o + t[o].at - 1
           New == o .. o + k - 1
<1>1. /\ Size \in Nat /\ o \in Nat /\ LengthOf(o) \in 1 .. ChunkSize
      /\ k \in Nat /\ k <= LengthOf(o) /\ t[o].at \in Nat
      /\ t[o].at <= LengthOf(o) /\ ChunkSize \in Nat
      /\ o + LengthOf(o) <= Size /\ IsFiniteSet(0 .. Size - 1)
  BY StartsAre
<1>2. Bytes(t) = Rest \cup Old
  BY DEF Bytes
<1>3. Bytes(v) = Rest \cup New
  <2>1. Bytes(v) \subseteq Rest \cup New
    <3> SUFFICES ASSUME NEW u \in Starts, NEW b \in u .. u + v[u].at - 1
                 PROVE  b \in Rest \cup New
      BY DEF Bytes
    <3> QED OBVIOUS
  <2>2. Rest \subseteq Bytes(v)
    <3> SUFFICES ASSUME NEW u \in Starts \ {o}, NEW b \in u .. u + t[u].at - 1
                 PROVE  b \in Bytes(v)
      OBVIOUS
    <3> QED BY DEF Bytes
  <2>3. New \subseteq Bytes(v)
    BY DEF Bytes
  <2> QED BY <2>1, <2>2, <2>3
<1>4. ASSUME NEW b \in Rest
      PROVE  /\ b \in 0 .. Size - 1
             /\ b \notin o .. o + LengthOf(o) - 1
  <2>1. PICK u \in Starts \ {o} : b \in u .. u + t[u].at - 1
    OBVIOUS
  <2>2. /\ u \in Nat /\ LengthOf(u) \in 1 .. ChunkSize /\ t[u].at \in Nat
        /\ t[u].at <= LengthOf(u) /\ u + LengthOf(u) <= Size
        /\ u < o => u + ChunkSize <= o
        /\ o < u => o + ChunkSize <= u
    BY StartsAre
  <2> HIDE DEF Rest
  <2>3. b \in Int /\ u <= b /\ b <= u + t[u].at - 1
    BY <2>1, <2>2
  <2>4. CASE u < o
    BY <1>1, <2>2, <2>3, <2>4, SMTT(60)
  <2>5. CASE o < u
    <3>1. o + LengthOf(o) <= u
      BY <1>1, <2>2, <2>5
    <3>2. b <= Size - 1
      BY <1>1, <2>2, <2>3, SMTT(60)
    <3> QED BY <1>1, <2>2, <2>3, <3>1, <3>2
  <2> QED BY <1>1, <2>1, <2>2, <2>4, <2>5
<1>5. Old \subseteq 0 .. Size - 1 /\ New \subseteq 0 .. Size - 1
  BY <1>1, SMTT(60)
<1>6. Rest \cap Old = {} /\ Rest \cap New = {}
  <2> HIDE DEF Rest
  <2>1. ASSUME NEW b \in Old \cup New
        PROVE  b \in o .. o + LengthOf(o) - 1
    BY <1>1, SMTT(60)
  <2> HIDE DEF Old, New
  <2> QED BY <1>4, <2>1
<1>7. IsFiniteSet(Rest) /\ IsFiniteSet(Old) /\ IsFiniteSet(New)
  <2>1. Rest \in SUBSET (0 .. Size - 1)
    BY <1>4
  <2>2. Old \in SUBSET (0 .. Size - 1) /\ New \in SUBSET (0 .. Size - 1)
    BY <1>5
  <2> HIDE DEF Rest, Old, New
  <2>3. IsFiniteSet(Rest)
    BY <1>1, <2>1, FS_Subset
  <2>4. IsFiniteSet(Old)
    BY <1>1, <2>2, FS_Subset
  <2>5. IsFiniteSet(New)
    BY <1>1, <2>2, FS_Subset
  <2> QED BY <2>3, <2>4, <2>5
<1>8. Cardinality(Old) = t[o].at /\ Cardinality(New) = k
  BY <1>1, SpanLength
<1>9. Cardinality(Rest) \in Nat /\ Cardinality({}) = 0
  BY <1>7, FS_CardinalityType, FS_EmptySet
<1> HIDE DEF Rest, Old, New
<1>10. /\ IsFiniteSet(Rest \cup Old)
       /\ Cardinality(Rest \cup Old) = Cardinality(Rest) + t[o].at
       /\ Cardinality(Rest \cup New) = Cardinality(Rest) + k
  <2>1. /\ IsFiniteSet(Rest \cup Old)
        /\ Cardinality(Rest \cup Old) =
             Cardinality(Rest) + Cardinality(Old) - Cardinality(Rest \cap Old)
    BY <1>7, FS_Union
  <2>2. Cardinality(Rest \cup New) =
          Cardinality(Rest) + Cardinality(New) - Cardinality(Rest \cap New)
    BY <1>7, FS_Union
  <2>3. Cardinality(Rest \cap Old) = 0 /\ Cardinality(Rest \cap New) = 0
    BY <1>6, <1>9
  <2> QED BY <1>1, <1>8, <1>9, <2>1, <2>2, <2>3
<1>11. Bytes(t) \subseteq 0 .. Size - 1
  BY <1>2, <1>4, <1>5
<1>12. Bytes(v) \subseteq Bytes(t) \cup (o .. o + k - 1)
  BY <1>2, <1>3 DEF New
<1> QED BY <1>1, <1>2, <1>3, <1>9, <1>10, <1>11, <1>12, SMTT(60)

\* When every range has been joined, every byte is counted.
LEMMA AllJoinedIsAll ==
  ASSUME TransferIInv, phase = "ranging", AllJoined
  PROVE  written = Size /\ file.held = 0 .. Size - 1 /\ file.length = Size
<1> USE DEF TransferIInv
<1>1. /\ Size \in Nat /\ ChunkSize \in Nat \ {0} /\ file \in FileStates
      /\ \A o \in Starts : RangeTrue(o) /\ task[o].at = LengthOf(o)
      /\ file.length = Size /\ written = Cardinality(Bytes(task))
      /\ Bytes(task) \subseteq file.held
  BY StartsAre DEF RangesTrue, RangeTrue, AllJoined, Typed
<1>2. file.held \subseteq 0 .. Size - 1
  BY <1>1 DEF FileStates
<1>3. ASSUME NEW b \in 0 .. Size - 1
      PROVE  b \in Bytes(task)
  <2> DEFINE o == b - (b % ChunkSize)
  <2>0. b \in Nat
    BY <1>1
  <2>1. /\ o \in Nat /\ o % ChunkSize = 0
        /\ b % ChunkSize \in 0 .. ChunkSize - 1
    BY <1>1, <2>0, BytesHaveChunks
  <2>2. o \in Starts
    BY <1>1, <2>0, <2>1 DEF Starts
  <2>3. b < o + ChunkSize /\ o <= b
    BY <1>1, <2>0, <2>1
  <2> HIDE DEF o
  <2>4. b \in o .. o + task[o].at - 1
    BY <1>1, <2>0, <2>1, <2>2, <2>3, StartsAre, SMTT(60)
  <2> QED BY <2>2, <2>4 DEF Bytes
<1>4. Bytes(task) = 0 .. Size - 1
  BY <1>1, <1>2, <1>3
<1>5. Cardinality(0 .. Size - 1) = Size
  <2>1. Cardinality(0 .. 0 + Size - 1) = Size
    BY <1>1, SpanLength
  <2>2. 0 + Size - 1 = Size - 1
    BY <1>1
  <2> QED BY <2>1, <2>2
<1> QED BY <1>1, <1>2, <1>4, <1>5

-----------------------------------------------------------------------------
(* A range moves                                                            *)

LEMMA RangeMovesAreSafe ==
  ASSUME TransferIInv, phase = "ranging",
         NEW o \in Starts, NEW k \in 0 .. LengthOf(o),
         DOMAIN task' = Starts, task'[o].at = k, RangeTrue(o)',
         \A u \in Starts : u # o => task'[u].at = task[u].at /\ RangeTrue(u)',
         file' \in FileStates, file'.kind = file.kind,
         file'.length = file.length,
         file.held \subseteq file'.held, o .. o + k - 1 \subseteq file'.held,
         written' = written - task[o].at + k,
         UNCHANGED <<supplier, phase, body, armed, said, pending>>
  PROVE  TransferIInv'
<1> USE DEF TransferIInv
<1>1. /\ Size' = Size /\ Starts' = Starts
      /\ supplier' = supplier /\ phase' = "ranging"
  BY DEF Size, Starts
<1>2. \A u \in Starts : task[u].at \in Nat /\ task[u].at <= LengthOf(u)
  BY DEF RangesTrue, RangeTrue, Tasks
<1>3. /\ IsFiniteSet(Bytes(task))
      /\ Cardinality(Bytes(task')) = Cardinality(Bytes(task)) - task[o].at + k
      /\ Bytes(task') \subseteq Bytes(task) \cup (o .. o + k - 1)
  <2>1. \A u \in Starts : u # o => task'[u].at = task[u].at
    OBVIOUS
  <2> QED BY <1>2, <2>1, BytesCount, ZenonT(60)
<1>4. Bytes(task)' = Bytes(task')
  BY <1>1 DEF Bytes
<1>5. file'.held \in SUBSET (0 .. Size - 1) /\ IsFiniteSet(0 .. Size - 1)
      /\ Size \in Nat
  BY StartsAre DEF FileStates
<1>6. IsFiniteSet(file'.held) /\ IsFiniteSet(Bytes(task'))
  <2>1. IsFiniteSet(file'.held)
    BY <1>5, FS_Subset
  <2>2. Bytes(task') \in SUBSET (file'.held)
    BY <1>3 DEF RangesTrue
  <2> QED BY <2>1, <2>2, FS_Subset
<1>7. written' = Cardinality(Bytes(task')) /\ written' \in Nat
  BY <1>3, <1>6, FS_CardinalityType DEF RangesTrue
<1>8. Typed'
  BY <1>1, <1>7 DEF Typed, FileStates
<1>9. RangesTrue'
  <2>1. Bytes(task') \subseteq file'.held
    BY <1>3 DEF RangesTrue
  <2>2. \A u \in Starts : RangeTrue(u)'
    OBVIOUS
  <2>3. Ranged'
    BY <1>1 DEF RangesTrue, Ranged
  <2> QED BY <1>1, <1>4, <1>7, <2>1, <2>2, <2>3 DEF RangesTrue
<1>10. ReportedIsHeld'
  <2>1. Cardinality(file.held) <= Cardinality(file'.held)
    BY <1>6, FS_Subset
  <2>2. Cardinality(file.held) \in Nat /\ Cardinality(file'.held) \in Nat
    <3>1. IsFiniteSet(file.held)
      BY <1>6, FS_Subset
    <3> QED BY <1>6, <3>1, FS_CardinalityType
  <2> QED BY <2>1, <2>2 DEF ReportedIsHeld, Typed
<1>11. Unopened' /\ BodyTrue' /\ StreamTrue' /\ DoneIsWhole'
  BY <1>1 DEF Unopened, BodyTrue, StreamTrue, DoneIsWhole
<1> QED BY <1>8, <1>9, <1>10, <1>11

LEMMA MovedFields ==
  ASSUME NEW o \in DOMAIN task, NEW is, NEW attempt, NEW n,
         Moved(o, is, attempt, n)
  PROVE  /\ DOMAIN task' = DOMAIN task
         /\ task'[o] = [at |-> n, attempt |-> attempt, is |-> is]
         /\ \A u \in DOMAIN task : u # o => task'[u] = task[u]
BY DEF Moved

LEMMA RangeStepsAreSafe ==
  ASSUME TransferIInv, NEW o \in DOMAIN task,
         \/ RangeAnswered(o) \/ RangeRefused(o) \/ RangePiece(o)
         \/ RangeBreaks(o) \/ RangeLands(o) \/ JoinLanded(o)
  PROVE  TransferIInv'
<1> USE DEF TransferIInv
<1>1. phase = "ranging" /\ supplier' = supplier
  BY DEF RangeAnswered, RangeRefused, RangePiece, RangeBreaks, RangeLands, JoinLanded
<1>2. /\ DOMAIN task = Starts /\ o \in Starts
      /\ \A u \in Starts : RangeTrue(u)
      /\ LengthOf(o) \in Nat /\ o \in Nat
      /\ task[o] \in Tasks /\ task[o].at \in Nat /\ task[o].attempt \in Nat
      /\ task[o].at <= LengthOf(o) /\ MaxAttempts \in Nat
      /\ written \in Nat /\ file \in FileStates
      /\ o .. o + task[o].at - 1 \subseteq file.held
  BY <1>1, StartsAre, TransferAssumption DEF RangesTrue, RangeTrue, Tasks, Typed, Bytes
<1>3. \A u : LengthOf(u)' = LengthOf(u)
  BY <1>1 DEF LengthOf, EndOf, Size
<1>4. o .. o + 0 - 1 = {} /\ 0 \in 0 .. LengthOf(o)
  BY <1>2
<1>5. ASSUME NEW u \in Starts, task'[u] = task[u]
      PROVE  task'[u].at = task[u].at /\ RangeTrue(u)'
  BY <1>2, <1>3, <1>5 DEF RangeTrue
<1>6. CASE RangeAnswered(o)
  <2>1. Moved(o, "reading", NextAttempt(o), 0) /\ task[o].is = "asking"
        /\ UNCHANGED <<supplier, phase, body, file, armed, written, pending, said>>
    BY <1>6 DEF RangeAnswered
  <2>2. /\ task'[o] = [at |-> 0, attempt |-> NextAttempt(o), is |-> "reading"]
        /\ DOMAIN task' = Starts
        /\ \A u \in Starts : u # o => task'[u] = task[u]
    BY <1>2, <2>1, MovedFields
  <2>3. RangeTrue(o)'
    BY <1>2, <1>3, <2>2 DEF RangeTrue, Tasks, TaskStates, NextAttempt
  <2>4. task'[o].at = 0 /\ written' = written - task[o].at + 0
    BY <1>2, <2>1, <2>2 DEF RangeTrue
  <2> QED BY <1>1, <1>2, <1>4, <1>5, <2>1, <2>2, <2>3, <2>4, RangeMovesAreSafe
<1>7. CASE RangeRefused(o)
  <2> DEFINE is == AfterFailure(NextAttempt(o))
  <2>1. Moved(o, is, NextAttempt(o), 0) /\ task[o].is = "asking"
        /\ UNCHANGED <<supplier, phase, body, file, armed, written, pending, said>>
    BY <1>7 DEF RangeRefused
  <2>2. /\ task'[o] = [at |-> 0, attempt |-> NextAttempt(o), is |-> is]
        /\ DOMAIN task' = Starts
        /\ \A u \in Starts : u # o => task'[u] = task[u]
    BY <1>2, <2>1, MovedFields
  <2>3. RangeTrue(o)'
    BY <1>2, <1>3, <2>2
       DEF RangeTrue, Tasks, TaskStates, NextAttempt, AfterFailure, Spent
  <2>4. task'[o].at = 0 /\ written' = written - task[o].at + 0
    BY <1>2, <2>1, <2>2 DEF RangeTrue
  <2> QED BY <1>1, <1>2, <1>4, <1>5, <2>1, <2>2, <2>3, <2>4, RangeMovesAreSafe
<1>8. CASE RangePiece(o)
  <2>1. PICK n \in Pieces :
          /\ task[o].at + n <= LengthOf(o)
          /\ file' = [file EXCEPT !.held = @ \cup (Offset(o) .. Offset(o) + n - 1)]
          /\ written' = written + n
          /\ Moved(o, "reading", task[o].attempt, task[o].at + n)
    BY <1>8 DEF RangePiece
  <2> DEFINE k == task[o].at + n
  <2>2. n \in Nat /\ k \in 0 .. LengthOf(o) /\ task[o].is = "reading"
        /\ UNCHANGED <<supplier, phase, body, armed, said, pending>>
    BY <1>2, <1>8, <2>1, TransferAssumption DEF RangePiece
  <2>3. /\ task'[o] = [at |-> k, attempt |-> task[o].attempt, is |-> "reading"]
        /\ DOMAIN task' = Starts
        /\ \A u \in Starts : u # o => task'[u] = task[u]
    BY <1>2, <2>1, MovedFields
  <2>4. RangeTrue(o)'
    BY <1>2, <1>3, <2>2, <2>3 DEF RangeTrue, Tasks, TaskStates
  <2>5. task'[o].at = k /\ written' = written - task[o].at + k
    BY <1>2, <2>1, <2>2, <2>3
  <2>6. /\ file'.held = file.held \cup (o + task[o].at .. o + k - 1)
        /\ file'.kind = file.kind /\ file'.length = file.length
    <3>1. Offset(o) = o + task[o].at /\ Offset(o) + n - 1 = o + k - 1
      BY <1>2, <2>2 DEF Offset
    <3> DEFINE more == Offset(o) .. Offset(o) + n - 1
    <3>2. more = o + task[o].at .. o + k - 1
      BY <3>1
    <3>3. file' = [file EXCEPT !.held = @ \cup more]
      BY <2>1
    <3> HIDE DEF more
    <3>4. /\ file'.held = file.held \cup more
          /\ file'.kind = file.kind /\ file'.length = file.length
      BY <1>2, <3>3 DEF FileStates
    <3> QED BY <3>2, <3>4
  <2>7. o + task[o].at .. o + k - 1 \subseteq 0 .. Size - 1
    <3>1. o + LengthOf(o) <= Size /\ Size \in Nat
      BY <1>2, StartsAre
    <3>2. k \in Nat /\ k <= LengthOf(o)
      BY <2>2
    <3> HIDE DEF k
    <3> QED BY <1>2, <3>1, <3>2
  <2>8. file' \in FileStates
    <3>1. Size' = Size
      BY <1>1 DEF Size
    <3> QED BY <1>2, <2>1, <2>6, <2>7, <3>1 DEF FileStates
  <2>9. o .. o + k - 1 \subseteq file'.held
    BY <1>2, <2>2, <2>6
  <2> HIDE DEF k
  <2> QED BY <1>1, <1>2, <1>5, <2>2, <2>3, <2>4, <2>5, <2>6, <2>8, <2>9,
             RangeMovesAreSafe
<1>9. CASE RangeBreaks(o)
  <2>1. Moved(o, Retried(o), task[o].attempt, 0) /\ written' = written - task[o].at
        /\ UNCHANGED <<supplier, phase, body, file, armed, said, pending>>
    BY <1>9 DEF RangeBreaks, Returned
  <2>2. /\ task'[o] = [at |-> 0, attempt |-> task[o].attempt, is |-> Retried(o)]
        /\ DOMAIN task' = Starts
        /\ \A u \in Starts : u # o => task'[u] = task[u]
    BY <1>2, <2>1, MovedFields
  <2>3. RangeTrue(o)'
    BY <1>2, <1>3, <2>2
       DEF RangeTrue, Tasks, TaskStates, Retried, AfterFailure, Spent
  <2>4. task'[o].at = 0 /\ written' = written - task[o].at + 0
    BY <1>2, <2>1, <2>2
  <2> QED BY <1>1, <1>2, <1>4, <1>5, <2>1, <2>2, <2>3, <2>4, RangeMovesAreSafe
<1>10. CASE RangeLands(o)
  <2> DEFINE k == task[o].at
  <2>1. Moved(o, "landed", task[o].attempt, k) /\ k = LengthOf(o)
        /\ UNCHANGED <<supplier, phase, body, file, armed, written, pending, said>>
    BY <1>10 DEF RangeLands
  <2>2. /\ task'[o] = [at |-> k, attempt |-> task[o].attempt, is |-> "landed"]
        /\ DOMAIN task' = Starts
        /\ \A u \in Starts : u # o => task'[u] = task[u]
    BY <1>2, <2>1, MovedFields
  <2>3. RangeTrue(o)'
    BY <1>2, <1>3, <2>1, <2>2 DEF RangeTrue, Tasks, TaskStates
  <2>4. task'[o].at = k /\ written' = written - task[o].at + k
        /\ k \in 0 .. LengthOf(o)
    BY <1>2, <2>1, <2>2
  <2> QED BY <1>1, <1>2, <1>5, <2>1, <2>2, <2>3, <2>4, RangeMovesAreSafe
<1>11. CASE JoinLanded(o)
  <2> DEFINE k == task[o].at
  <2>1. /\ task[o].is = "landed"
        /\ task' = [u \in DOMAIN task |->
                     IF u = o THEN [task[o] EXCEPT !.is = "joined"]
                     ELSE IF u \in Waiting /\ \A v \in Waiting : u <= v
                       THEN [Fresh EXCEPT !.is = "asking"]
                     ELSE task[u]]
        /\ UNCHANGED <<supplier, phase, body, file, armed, written, pending, said>>
    BY <1>11 DEF JoinLanded
  <2>2. DOMAIN task' = Starts
    BY <1>2, <2>1
  <2>3. RangeTrue(o)' /\ task'[o].at = k
    <3>1. task'[o] = [task[o] EXCEPT !.is = "joined"]
      BY <1>2, <2>1
    <3>2. task'[o] \in Tasks /\ task'[o].at = k /\ task'[o].is = "joined"
      BY <1>2, <3>1 DEF Tasks, TaskStates
    <3>3. k = LengthOf(o)
      BY <1>2, <2>1 DEF RangeTrue
    <3> QED BY <1>2, <1>3, <3>2, <3>3 DEF RangeTrue
  <2>4. ASSUME NEW u \in Starts, u # o
        PROVE  task'[u].at = task[u].at /\ RangeTrue(u)'
    <3>1. CASE task'[u] = task[u]
      BY <1>5, <3>1
    <3>2. CASE task'[u] # task[u]
      <4>1. u \in Waiting /\ task'[u] = [Fresh EXCEPT !.is = "asking"]
        BY <1>2, <2>1, <2>4, <3>2
      <4>2. task[u].is = "waiting" /\ task[u].at = 0
        BY <1>2, <4>1 DEF Waiting, RangeTrue
      <4>3. task'[u] = [at |-> 0, attempt |-> 0, is |-> "asking"]
        BY <4>1 DEF Fresh
      <4>4. LengthOf(u) \in Nat
        BY StartsAre
      <4> QED BY <1>3, <4>2, <4>3, <4>4 DEF RangeTrue, Tasks, TaskStates
    <3> QED BY <3>1, <3>2
  <2>5. written' = written - task[o].at + k /\ k \in 0 .. LengthOf(o)
    BY <1>2, <2>1
  <2> QED BY <1>1, <1>2, <2>1, <2>2, <2>3, <2>4, <2>5, RangeMovesAreSafe
<1> QED BY <1>6, <1>7, <1>8, <1>9, <1>10, <1>11

-----------------------------------------------------------------------------
(* The other steps                                                          *)

\* What is over without success leaves nothing of its own.
LEMMA FailureIsSafe ==
  ASSUME TransferIInv, Active, phase' \in {"failed", "cancelled"},
         \/ file' = Dropped
         \/ file' = file /\ phase \in {"opening", "creating"}
         \/ file' = NoFile,
         UNCHANGED <<supplier, body, armed, written, pending, said>>
  PROVE  TransferIInv'
<1> USE DEF TransferIInv
<1>1. Size' = Size /\ Size \in Nat /\ (Truncating' <=> Truncating)
  BY StartsAre DEF Size, Truncating, Ranged
<1>2. file' \in FileStates /\ file'.kind # "new"
  <2>1. NoFile \in FileStates /\ NoFile.kind # "new"
    BY <1>1 DEF NoFile, FileStates
  <2>2. ~armed => file.kind # "new"
    BY DEF Active, Unopened, StreamTrue, RangesTrue
  <2>3. phase \in {"opening", "creating"} => file.kind # "new"
    BY DEF Unopened
  <2>4. file \in FileStates
    BY DEF Typed
  <2> QED BY <2>1, <2>2, <2>3, <2>4 DEF Dropped
<1>3. Typed'
  BY <1>1, <1>2 DEF Typed, Phases, FileStates
<1>4. ~said.finished
  BY DEF DoneIsWhole, Active
<1>5. DoneIsWhole'
  BY <1>2, <1>4 DEF DoneIsWhole
<1> QED BY <1>3, <1>5
        DEF Unopened, BodyTrue, StreamTrue, RangesTrue, ReportedIsHeld

LEMMA OpenIsSafe ==
  ASSUME TransferIInv, Answered \/ CreateStreamed \/ CreateRanged
  PROVE  TransferIInv'
<1> USE DEF TransferIInv
<1>1. /\ Size' = Size /\ Size \in Nat /\ supplier' = supplier
      /\ Starts' = Starts /\ (Ranged' <=> Ranged)
      /\ ChunkSize \in Nat \ {0}
      /\ phase \in {"opening", "creating"}
  BY StartsAre DEF Size, Starts, Ranged, Answered, CreateStreamed, CreateRanged
<1>2. /\ file.kind # "new" /\ ~armed /\ written = 0 /\ pending = 0
      /\ said = NoReport /\ said \in [written : Nat, finished : BOOLEAN]
      /\ supplier \in [size : Sizes, ranges : BOOLEAN, totalled : BOOLEAN]
      /\ ~said.finished
  BY <1>1 DEF Unopened, Typed, NoReport
<1>3. CASE Answered
  <2>1. body' \in Nat /\ body' = IF supplier.ranges THEN Smaller(ChunkSize, Size)
                                 ELSE Size
    BY <1>1, <1>3 DEF Answered, Smaller
  <2>2. /\ phase' = "creating" /\ file' = file /\ armed' = armed
        /\ written' = written /\ pending' = pending /\ said' = said
    BY <1>3 DEF Answered
  <2>3. Typed'
    BY <1>1, <2>1, <2>2 DEF Typed, Phases, FileStates
  <2>4. BodyTrue'
    BY <1>1, <2>1 DEF BodyTrue
  <2> QED BY <1>2, <2>2, <2>3, <2>4
          DEF Unopened, StreamTrue, RangesTrue, DoneIsWhole, ReportedIsHeld
<1>4. CASE CreateStreamed
  <2>1. /\ phase = "creating" /\ phase' = "streaming" /\ armed' = TRUE /\ ~Ranged
        /\ body' = body /\ written' = written /\ pending' = pending /\ said' = said
        /\ file' = [kind |-> "new", held |-> {}, length |-> 0]
    BY <1>4 DEF CreateStreamed, NoFile
  <2>2. file' \in FileStates'
    BY <1>1, <2>1 DEF FileStates
  <2>3. Typed'
    BY <1>1, <2>1, <2>2 DEF Typed, Phases
  <2>4. BodyTrue'
    BY <1>1, <2>1 DEF BodyTrue
  <2>5. StreamTrue'
    <3>1. body \in Nat /\ 0 .. 0 - 0 - 1 = {}
      BY DEF Typed
    <3> QED BY <1>1, <1>2, <2>1, <3>1 DEF StreamTrue
  <2> QED BY <1>2, <2>1, <2>3, <2>4, <2>5
          DEF Unopened, RangesTrue, DoneIsWhole, ReportedIsHeld
<1>5. CASE CreateRanged
  <2>1. /\ phase' = "ranging" /\ armed' = TRUE /\ Ranged
        /\ body' = body /\ written' = written /\ pending' = pending /\ said' = said
        /\ file' = [kind |-> "new", held |-> {}, length |-> Size]
        /\ DOMAIN task' = Starts
        /\ \A o \in Starts :
             \E is \in {"reading", "asking", "waiting"} :
               task'[o] = [at |-> 0, attempt |-> 0, is |-> is]
    BY <1>5 DEF CreateRanged, Fresh
  <2>2. file' \in FileStates'
    BY <1>1, <2>1 DEF FileStates
  <2>3. Typed'
    BY <1>1, <2>1, <2>2 DEF Typed, Phases
  <2>4. \A o \in Starts : RangeTrue(o)'
    <3> SUFFICES ASSUME NEW o \in Starts PROVE RangeTrue(o)'
      OBVIOUS
    <3>1. LengthOf(o)' = LengthOf(o) /\ LengthOf(o) \in Nat
      BY <1>1, StartsAre DEF LengthOf, EndOf
    <3> QED BY <2>1, <3>1 DEF RangeTrue, Tasks, TaskStates
  <2>5. Bytes(task') = {}
    <3>1. ASSUME NEW o \in Starts PROVE o .. o + task'[o].at - 1 = {}
      <4>1. task'[o].at = 0 /\ o \in Nat
        BY <2>1, StartsAre
      <4> QED BY <4>1
    <3>2. ASSUME NEW b \in Bytes(task') PROVE FALSE
      BY <3>1, <3>2 DEF Bytes
    <3> QED BY <3>2
  <2>6. Bytes(task)' = Bytes(task')
    BY <1>1 DEF Bytes
  <2>7. RangesTrue'
    BY <1>1, <1>2, <2>1, <2>4, <2>5, <2>6, FS_EmptySet DEF RangesTrue
  <2>8. ReportedIsHeld'
    BY <1>2, <2>1, FS_EmptySet DEF ReportedIsHeld, NoReport
  <2> QED BY <1>2, <2>1, <2>3, <2>7, <2>8
          DEF Unopened, BodyTrue, StreamTrue, DoneIsWhole
<1> QED BY <1>3, <1>4, <1>5

LEMMA StreamIsSafe ==
  ASSUME TransferIInv, StreamPiece \/ StreamWritten \/ StreamEnds
  PROVE  TransferIInv'
<1> USE DEF TransferIInv
<1>1. /\ phase = "streaming" /\ supplier' = supplier /\ body' = body
      /\ Size' = Size /\ Size \in Nat /\ ChunkSize \in Nat \ {0}
      /\ (Ranged' <=> Ranged) /\ (Truncating' <=> Truncating)
  BY StartsAre DEF StreamPiece, StreamWritten, StreamEnds, Size, Ranged, Truncating
<1>2. /\ ~Ranged /\ armed /\ file.kind = "new" /\ file \in FileStates
      /\ pending <= written /\ written <= body
      /\ file.held = 0 .. written - pending - 1
      /\ file.length = written - pending
      /\ body \in Nat /\ written \in Nat /\ pending \in Nat
      /\ body = IF supplier.ranges THEN Smaller(ChunkSize, Size) ELSE Size
      /\ ~said.finished
      /\ supplier \in [size : Sizes, ranges : BOOLEAN, totalled : BOOLEAN]
  BY <1>1 DEF StreamTrue, BodyTrue, Typed, DoneIsWhole
<1>3. body <= Size
  BY <1>1, <1>2 DEF Smaller
<1>4. CASE StreamPiece
  <2>1. PICK n \in Pieces : /\ written + n <= body /\ written' = written + n
                            /\ pending' = n
                            /\ said' = [written |-> written + n, finished |-> FALSE]
    BY <1>4 DEF StreamPiece
  <2>2. n \in Nat
    BY TransferAssumption
  <2>3. phase' = phase /\ file' = file /\ armed' = armed /\ pending = 0
    BY <1>4 DEF StreamPiece
  <2>4. written' \in Nat /\ written' - pending' = written - pending
        /\ pending' <= written' /\ written' <= body
    BY <1>2, <2>1, <2>2, <2>3
  <2>5. Typed'
    BY <1>1, <2>1, <2>2, <2>3, <2>4 DEF Typed, FileStates
  <2>6. StreamTrue'
    BY <1>1, <1>2, <2>3, <2>4 DEF StreamTrue
  <2>7. BodyTrue'
    BY <1>1, <1>2 DEF BodyTrue
  <2> QED BY <1>1, <2>1, <2>3, <2>5, <2>6, <2>7
          DEF Unopened, RangesTrue, DoneIsWhole, ReportedIsHeld
<1>5. CASE StreamWritten
  <2>1. /\ phase' = phase /\ armed' = armed /\ written' = written
        /\ pending' = 0 /\ said' = said
        /\ file' = [file EXCEPT !.held = @ \cup (written - pending .. written - 1),
                                !.length = written]
    BY <1>5 DEF StreamWritten
  <2>2. /\ file'.held = file.held \cup (written - pending .. written - 1)
        /\ file'.length = written /\ file'.kind = "new"
        /\ file' = [kind |-> "new", held |-> file'.held, length |-> written]
    BY <1>2, <2>1 DEF FileStates
  <2>3. file'.held = 0 .. written - 1
    BY <1>2, <2>2
  <2>4. file' \in FileStates'
    BY <1>1, <1>2, <1>3, <2>2, <2>3 DEF FileStates
  <2>5. Typed'
    BY <1>1, <1>2, <2>1, <2>4 DEF Typed
  <2>6. StreamTrue'
    <3>1. written - 0 - 1 = written - 1 /\ written - 0 = written
      BY <1>2
    <3> QED BY <1>1, <1>2, <2>1, <2>2, <2>3, <3>1 DEF StreamTrue
  <2>7. BodyTrue'
    BY <1>1, <1>2 DEF BodyTrue
  <2> QED BY <1>1, <1>2, <2>1, <2>5, <2>6, <2>7
          DEF Unopened, RangesTrue, DoneIsWhole, ReportedIsHeld
<1>6. CASE StreamEnds
  <2>1. /\ phase' = "done" /\ file' = file /\ armed' = FALSE
        /\ written' = written /\ pending' = pending
        /\ said' = [written |-> written, finished |-> TRUE]
        /\ written = body /\ pending = 0
    BY <1>6 DEF StreamEnds
  <2>2. Typed'
    BY <1>1, <1>2, <2>1 DEF Typed, Phases, FileStates
  <2>3. ~Truncating => Whole'
    <3>1. ~Truncating => body = Size
      BY <1>1, <1>2 DEF Truncating, Smaller
    <3>2. written - pending - 1 = body - 1 /\ written - pending = body
      BY <1>2, <2>1
    <3> QED BY <1>1, <1>2, <2>1, <3>1, <3>2 DEF Whole
  <2>4. DoneIsWhole'
    BY <1>1, <2>1, <2>3 DEF DoneIsWhole
  <2> QED BY <2>1, <2>2, <2>4
          DEF Unopened, BodyTrue, StreamTrue, RangesTrue, ReportedIsHeld
<1> QED BY <1>4, <1>5, <1>6

\* A joined set of ranges is a whole file: the comparison with the declared
\* total never fails.
LEMMA RangesEndIsSafe ==
  ASSUME TransferIInv, RangesEnd
  PROVE  TransferIInv' /\ phase' = "done"
<1> USE DEF TransferIInv
<1>1. /\ written = Size /\ file.held = 0 .. Size - 1 /\ file.length = Size
      /\ phase = "ranging"
  BY AllJoinedIsAll DEF RangesEnd
<1>2. /\ phase' = "done" /\ armed' = FALSE /\ file' = file
      /\ said' = [written |-> written, finished |-> TRUE]
      /\ UNCHANGED <<supplier, body, task, written, pending>>
  BY <1>1 DEF RangesEnd
<1>3. Size' = Size
  BY <1>2 DEF Size
<1>4. Typed'
  BY <1>2, <1>3 DEF Typed, Phases, FileStates
<1>5. DoneIsWhole'
  BY <1>1, <1>2, <1>3 DEF DoneIsWhole, Whole, RangesTrue
<1> QED BY <1>2, <1>4, <1>5
        DEF Unopened, BodyTrue, StreamTrue, RangesTrue, ReportedIsHeld

LEMMA TickIsSafe ==
  ASSUME TransferIInv, Tick
  PROVE  TransferIInv'
<1> USE DEF TransferIInv
<1>1. /\ phase = "ranging" /\ said' = [written |-> written, finished |-> FALSE]
      /\ UNCHANGED <<supplier, phase, body, file, armed, task, written, pending>>
  BY DEF Tick
<1>2. Size' = Size /\ Starts' = Starts
  BY <1>1 DEF Size, Starts
<1>3. Typed'
  BY <1>1, <1>2 DEF Typed, FileStates
<1>4. RangesTrue'
  <2>1. \A o \in Starts : RangeTrue(o)' <=> RangeTrue(o)
    BY <1>1, <1>2 DEF RangeTrue, LengthOf, EndOf
  <2>2. Bytes(task)' = Bytes(task) /\ (Ranged' <=> Ranged)
    BY <1>1, <1>2 DEF Bytes, Ranged
  <2> QED BY <1>1, <1>2, <2>1, <2>2 DEF RangesTrue
<1>5. ReportedIsHeld'
  <2>1. IsFiniteSet(file.held)
    <3>1. file.held \in SUBSET (0 .. Size - 1)
      BY DEF Typed, FileStates
    <3> QED BY <3>1, StartsAre, FS_Subset
  <2>2. Bytes(task) \in SUBSET file.held
    BY <1>1 DEF RangesTrue
  <2>3. written <= Cardinality(file.held)
    BY <1>1, <2>1, <2>2, FS_Subset DEF RangesTrue
  <2> QED BY <1>1, <2>3 DEF ReportedIsHeld
<1> QED BY <1>1, <1>3, <1>4, <1>5
        DEF Unopened, BodyTrue, StreamTrue, DoneIsWhole

LEMMA KilledIsSafe ==
  ASSUME TransferIInv, Killed
  PROVE  TransferIInv'
<1> USE DEF TransferIInv
<1>1. /\ phase' = "killed" /\ Active
      /\ UNCHANGED <<supplier, body, file, armed, task, written, pending, said>>
  BY DEF Killed
<1>2. Typed'
  <2>1. Size' = Size
    BY <1>1 DEF Size
  <2> QED BY <1>1, <2>1 DEF Typed, Phases, FileStates
<1>3. ~said.finished
  BY <1>1 DEF DoneIsWhole, Active
<1> QED BY <1>1, <1>2, <1>3
        DEF Unopened, BodyTrue, StreamTrue, RangesTrue, DoneIsWhole, ReportedIsHeld

-----------------------------------------------------------------------------

LEMMA InitIsSafe ==
  ASSUME Init
  PROVE  TransferIInv
<1>1. /\ Size \in Nat
      /\ supplier \in [size : Sizes, ranges : BOOLEAN, totalled : BOOLEAN]
  BY TransferAssumption DEF Init, Size
<1>2. file \in FileStates /\ file.kind # "new"
  <2>1. NoFile = [kind |-> "absent", held |-> {}, length |-> 0]
        /\ [NoFile EXCEPT !.kind = "old"] =
             [kind |-> "old", held |-> {}, length |-> 0]
    BY DEF NoFile
  <2> QED BY <2>1 DEF Init, FileStates
<1>3. Typed
  BY <1>1, <1>2 DEF Init, Typed, Phases, NoReport
<1> QED BY <1>2, <1>3
        DEF Init, TransferIInv, Unopened, BodyTrue, StreamTrue, RangesTrue,
            DoneIsWhole, ReportedIsHeld, NoReport

LEMMA StutterIsSafe ==
  ASSUME TransferIInv, UNCHANGED vars
  PROVE  TransferIInv'
<1> USE DEF TransferIInv, vars
<1>1. Size' = Size /\ Starts' = Starts /\ (Ranged' <=> Ranged)
  BY DEF Size, Starts, Ranged
<1>2. Typed' /\ Unopened' /\ BodyTrue' /\ StreamTrue' /\ ReportedIsHeld'
  BY <1>1 DEF Typed, FileStates, Unopened, BodyTrue, StreamTrue, ReportedIsHeld
<1>3. RangesTrue'
  <2>1. \A o \in Starts : RangeTrue(o)' <=> RangeTrue(o)
    BY <1>1 DEF RangeTrue, LengthOf, EndOf
  <2>2. Bytes(task)' = Bytes(task)
    BY <1>1 DEF Bytes
  <2> QED BY <1>1, <2>1, <2>2 DEF RangesTrue
<1>4. DoneIsWhole'
  BY <1>1 DEF DoneIsWhole, Whole, Truncating
<1> QED BY <1>2, <1>3, <1>4

LEMMA NextIsSafe ==
  ASSUME TransferIInv, [Next]_vars
  PROVE  TransferIInv'
<1>1. CASE Open
  <2>1. CASE Refused \/ CreateFails
    BY <2>1, FailureIsSafe DEF Refused, CreateFails, Active
  <2> QED BY <1>1, <2>1, OpenIsSafe DEF Open
<1>2. CASE Streamed
  <2>1. CASE StreamBreaks
    BY <2>1, FailureIsSafe DEF StreamBreaks, Active
  <2> QED BY <1>2, <2>1, OpenIsSafe, StreamIsSafe DEF Streamed
<1>3. CASE InRanges
  <2>1. CASE SizingFails
    BY <2>1, FailureIsSafe DEF SizingFails, Active
  <2>2. ASSUME NEW o \in DOMAIN task, RangeStep(o)
        PROVE  TransferIInv'
    <3>1. CASE JoinBroken(o)
      BY <3>1, FailureIsSafe DEF JoinBroken, Active
    <3> QED BY <2>2, <3>1, RangeStepsAreSafe DEF RangeStep
  <2> QED BY <1>3, <2>1, <2>2, OpenIsSafe, RangesEndIsSafe DEF InRanges
<1>4. CASE Cancel
  BY <1>4, FailureIsSafe DEF Cancel
<1> QED BY <1>1, <1>2, <1>3, <1>4, TickIsSafe, KilledIsSafe, StutterIsSafe
        DEF Next, Proceed

THEOREM TransferInductive == Spec => []TransferIInv
<1>1. Init => TransferIInv
  BY InitIsSafe
<1>2. TransferIInv /\ [Next]_vars => TransferIInv'
  BY NextIsSafe
<1> QED BY <1>1, <1>2, PTL DEF Spec

\* Success leaves the whole entity, however its ranges broke and were retried,
\* failure and cancellation leave nothing of the transfer's own, and a finished
\* report is sent by success alone (download, stream_to_file, PartialFile).
THEOREM SuccessLeavesTheWhole == Spec => []DoneIsWhole
<1>1. TransferIInv => DoneIsWhole
  BY DEF TransferIInv
<1> QED BY <1>1, TransferInductive, PTL

\* A report on ranges claims no byte that is not in the file, though ranges take
\* back what they counted and count it again (drain, fetch_sub).
THEOREM NoByteIsCountedTwice == Spec => []ReportedIsHeld
<1>1. TransferIInv => ReportedIsHeld
  BY DEF TransferIInv
<1> QED BY <1>1, TransferInductive, PTL

\* Ranges under way fail only with a range that has used all its attempts: the
\* final comparison with the declared total never fails (chunk, download).
THEOREM RangesFailOnlyWhenSpent == Spec => FailsOnlyWhenSpent
<1>1. TransferIInv /\ [Next]_vars =>
        [phase = "ranging" /\ phase' = "failed" =>
           \E o \in DOMAIN task : task[o].attempt = MaxAttempts]_vars
  <2> SUFFICES ASSUME TransferIInv, Next, phase = "ranging", phase' = "failed"
               PROVE  \E o \in DOMAIN task : task[o].attempt = MaxAttempts
    OBVIOUS
  <2>1. PICK o \in DOMAIN task : JoinBroken(o)
    BY RangesEndIsSafe
       DEF Next, Proceed, Open, Streamed, InRanges, RangeStep, Answered, Refused,
           CreateFails, CreateStreamed, StreamPiece, StreamWritten, StreamEnds,
           StreamBreaks, CreateRanged, SizingFails, RangeAnswered, RangeRefused,
           RangePiece, RangeBreaks, RangeLands, JoinLanded, Tick, Cancel, Killed
  <2> QED BY <2>1 DEF TransferIInv, RangesTrue, RangeTrue, JoinBroken
<1> QED BY <1>1, TransferInductive, PTL DEF Spec, FailsOnlyWhenSpent

-----------------------------------------------------------------------------
(* Retries run out                                                          *)

\* How far a range is within an attempt: the bytes it has, or past them.
Place(r) == CASE r.is = "waiting" -> -1
              [] r.is = "reading" -> r.at
              [] r.is = "joined" -> ChunkSize + 2
              [] OTHER -> ChunkSize + 1

Before(r, attempt, place) == \/ r.attempt < attempt
                             \/ r.attempt = attempt /\ Place(r) < place

\* Every place in every attempt that some range may still come to.
Credit == {c \in (Starts \X (0 .. MaxAttempts)) \X (0 .. ChunkSize + 2) :
             Before(task[c[1][1]], c[1][2], c[2])}

\* A range asks only with an attempt left, and makes no more than it has.
AttemptTrue(o) ==
  /\ task[o].attempt <= MaxAttempts
  /\ task[o].is = "asking" => task[o].attempt < MaxAttempts
  /\ task[o].is = "waiting" => task[o].attempt = 0

AttemptsTrue == phase = "ranging" => \A o \in Starts : AttemptTrue(o)

\* Each step of the ranges uses credit up, and the ticker gives none back.
SpendsCredit ==
  phase = "ranging" /\ phase' = "ranging" =>
    /\ Credit' \subseteq Credit
    /\ Proceed => Credit' # Credit

\* A range that has moved on from r to v.
Onward(r, v) == Before(r, v.attempt, Place(v))

LEMMA PlaceIs ==
  ASSUME NEW r \in Tasks, r.at <= ChunkSize
  PROVE  /\ r.attempt \in Nat /\ Place(r) \in -1 .. ChunkSize + 2
         /\ r.is # "waiting" => Place(r) >= 0
<1>1. r.attempt \in Nat /\ r.at \in Nat /\ ChunkSize \in Nat
  BY TransferAssumption DEF Tasks
<1>2. CASE r.is = "waiting"
  BY <1>1, <1>2 DEF Place
<1>3. CASE r.is = "reading"
  BY <1>1, <1>3 DEF Place
<1>4. CASE r.is = "joined"
  BY <1>1, <1>4 DEF Place
<1>5. CASE r.is \notin {"waiting", "reading", "joined"}
  BY <1>1, <1>5 DEF Place
<1> QED BY <1>1, <1>2, <1>3, <1>4, <1>5

LEMMA CreditShrinks ==
  ASSUME TransferIInv, TransferIInv', AttemptsTrue', phase = "ranging", phase' = "ranging",
         Starts' = Starts, supplier' = supplier, NEW o \in Starts,
         task'[o].is # "waiting",
         Onward(task[o], task'[o]),
         \A u \in Starts : task'[u] = task[u] \/ Onward(task[u], task'[u])
  PROVE  Credit' \subseteq Credit /\ Credit' # Credit
<1>1. \A u \in Starts : /\ task[u].attempt \in Nat /\ Place(task[u]) \in Int
                        /\ LengthOf(u) \in 1 .. ChunkSize
  <2> TAKE u \in Starts
  <2>1. task[u] \in Tasks /\ task[u].at <= LengthOf(u) /\ LengthOf(u) \in 1 .. ChunkSize
    BY StartsAre DEF TransferIInv, RangesTrue, RangeTrue
  <2>2. task[u].at <= ChunkSize
    BY <2>1, TransferAssumption DEF Tasks
  <2> QED BY <2>1, <2>2, PlaceIs
<1>2. \A u \in Starts : /\ task'[u].attempt \in Nat /\ Place(task'[u]) \in -1 .. ChunkSize + 2
                        /\ task'[u].is # "waiting" => Place(task'[u]) >= 0
  <2> TAKE u \in Starts
  <2>1. task'[u] \in Tasks /\ task'[u].at <= LengthOf(u)
    <3>1. RangeTrue(u)' /\ LengthOf(u)' = LengthOf(u)
      BY DEF TransferIInv, RangesTrue, LengthOf, EndOf, Size
    <3> QED BY <3>1 DEF RangeTrue
  <2>2. task'[u].at <= ChunkSize
    BY <1>1, <2>1, TransferAssumption DEF Tasks
  <2> QED BY <2>1, <2>2, PlaceIs
<1>4. /\ MaxAttempts \in Nat /\ ChunkSize \in Nat
  BY TransferAssumption
<1>3. ASSUME NEW u \in Starts, NEW a \in Nat, NEW x \in Nat, Before(task'[u], a, x)
      PROVE  Before(task[u], a, x)
  <2>1. CASE task'[u] = task[u]
    BY <1>3, <2>1
  <2>2. CASE Onward(task[u], task'[u])
    <3>1. /\ task[u].attempt \in Nat /\ Place(task[u]) \in Int
          /\ task'[u].attempt \in Nat /\ Place(task'[u]) \in Int
      BY <1>1, <1>2, <1>4
    <3> QED BY ONLY <1>3, <2>2, <3>1 DEF Onward, Before
  <2> QED BY <2>1, <2>2
<1>5. Credit' = {c \in (Starts \X (0 .. MaxAttempts)) \X (0 .. ChunkSize + 2) :
                   Before(task'[c[1][1]], c[1][2], c[2])}
  BY DEF Credit, Before, Place
<1>6. ASSUME NEW c \in Credit' PROVE c \in Credit
  <2>1. /\ c \in (Starts \X (0 .. MaxAttempts)) \X (0 .. ChunkSize + 2)
        /\ Before(task'[c[1][1]], c[1][2], c[2])
    BY <1>5, <1>6
  <2>2. /\ c[1][1] \in Starts /\ c[1][2] \in Nat /\ c[2] \in Nat
    BY <2>1, <1>4
  <2> QED BY <1>3, <2>1, <2>2 DEF Credit
<1>7. \E c \in Credit : c \notin Credit'
  <2>1. /\ task'[o].attempt \in 0 .. MaxAttempts
        /\ Place(task'[o]) \in 0 .. ChunkSize + 2
    <3>1. task'[o].attempt <= MaxAttempts
      <4>1. AttemptTrue(o)'
        BY DEF AttemptsTrue
      <4> QED BY <4>1 DEF AttemptTrue
    <3>2. /\ task'[o].attempt \in Nat
          /\ Place(task'[o]) \in -1 .. ChunkSize + 2 /\ Place(task'[o]) >= 0
      BY <1>2
    <3> QED BY <1>4, <3>1, <3>2
  <2>2. PICK c : c = <<<<o, task'[o].attempt>>, Place(task'[o])>>
    OBVIOUS
  <2>3. /\ c \in (Starts \X (0 .. MaxAttempts)) \X (0 .. ChunkSize + 2)
        /\ c[1][1] = o /\ c[1][2] = task'[o].attempt /\ c[2] = Place(task'[o])
    BY <2>1, <2>2
  <2>4. c \in Credit
    <3>1. Before(task[o], task'[o].attempt, Place(task'[o]))
      BY DEF Onward
    <3>2. Before(task[c[1][1]], c[1][2], c[2])
      BY <2>3, <3>1
    <3> QED BY <2>3, <3>2 DEF Credit
  <2>5. ~Before(task'[o], task'[o].attempt, Place(task'[o]))
    BY <1>2 DEF Before
  <2> QED BY <1>5, <2>3, <2>4, <2>5
<1> QED BY <1>6, <1>7

\* What each step of a range does to it and to the one that takes its seat.
LEMMA RangesMoveOn ==
  ASSUME TransferIInv, AttemptsTrue, phase = "ranging", NEW o \in Starts, RangeStep(o),
         phase' = "ranging"
  PROVE  /\ DOMAIN task' = Starts /\ Starts' = Starts /\ supplier' = supplier
         /\ AttemptsTrue'
         /\ task'[o].is # "waiting" /\ Onward(task[o], task'[o])
         /\ \A u \in Starts : task'[u] = task[u] \/ Onward(task[u], task'[u])
<1>1. /\ DOMAIN task = Starts /\ \A u \in Starts : AttemptTrue(u)
      /\ MaxAttempts \in Nat \ {0} /\ ChunkSize \in Nat
  BY TransferAssumption DEF TransferIInv, RangesTrue, AttemptsTrue
<1>2. supplier' = supplier /\ Starts' = Starts
  <2>1. supplier' = supplier
    BY DEF RangeStep, RangeAnswered, RangeRefused, RangePiece, RangeBreaks, RangeLands,
       JoinLanded, JoinBroken
  <2> QED BY <2>1 DEF Starts, Size
<1>3. /\ task[o].attempt \in Nat /\ task[o].at \in Nat
      /\ task[o].at <= ChunkSize
      /\ AttemptTrue(o)
  <2>1. task[o] \in Tasks /\ task[o].at <= LengthOf(o) /\ LengthOf(o) \in 1 .. ChunkSize
    BY StartsAre DEF TransferIInv, RangesTrue, RangeTrue
  <2> QED BY <1>1, <2>1 DEF Tasks
<1>4. ASSUME NEW is, NEW attempt, NEW n, Moved(o, is, attempt, n), is # "waiting",
             attempt <= MaxAttempts, is = "asking" => attempt < MaxAttempts,
             Before(task[o], attempt, Place([at |-> n, attempt |-> attempt, is |-> is]))
      PROVE  /\ DOMAIN task' = Starts /\ AttemptsTrue'
             /\ task'[o].is # "waiting" /\ Onward(task[o], task'[o])
             /\ \A u \in Starts : task'[u] = task[u] \/ Onward(task[u], task'[u])
  <2>1. /\ DOMAIN task' = Starts
        /\ task'[o] = [at |-> n, attempt |-> attempt, is |-> is]
        /\ \A u \in Starts : u # o => task'[u] = task[u]
    BY <1>1, <1>4, MovedFields
  <2>2. AttemptsTrue'
    <3> SUFFICES ASSUME NEW u \in Starts PROVE AttemptTrue(u)'
      BY <1>2 DEF AttemptsTrue
    <3>1. CASE u = o
      BY <1>4, <2>1, <3>1 DEF AttemptTrue
    <3>2. CASE u # o
      BY <1>1, <2>1, <3>2 DEF AttemptTrue
    <3> QED BY <3>1, <3>2
  <2>3. Onward(task[o], task'[o])
    BY <1>4, <2>1 DEF Onward
  <2> QED BY <1>4, <2>1, <2>2, <2>3
<1>5. CASE RangeAnswered(o)
  <2>1. task[o].is = "asking" /\ Moved(o, "reading", task[o].attempt + 1, 0)
    BY <1>5 DEF RangeAnswered, NextAttempt
  <2>2. Before(task[o], task[o].attempt + 1,
               Place([at |-> 0, attempt |-> task[o].attempt + 1, is |-> "reading"]))
    BY <1>3 DEF Before
  <2>3. task[o].attempt + 1 <= MaxAttempts
    BY <1>1, <1>3, <2>1 DEF AttemptTrue
  <2> QED BY <1>2, <1>4, <2>1, <2>2, <2>3
<1>6. CASE RangeRefused(o)
  <2>1. /\ task[o].is = "asking"
        /\ Moved(o, AfterFailure(task[o].attempt + 1), task[o].attempt + 1, 0)
    BY <1>6 DEF RangeRefused, NextAttempt
  <2>2. PICK is : is = AfterFailure(task[o].attempt + 1)
    OBVIOUS
  <2>3. Before(task[o], task[o].attempt + 1,
               Place([at |-> 0, attempt |-> task[o].attempt + 1, is |-> is]))
    BY <1>3 DEF Before
  <2>4. /\ task[o].attempt + 1 <= MaxAttempts
        /\ is # "waiting" /\ (is = "asking" => task[o].attempt + 1 < MaxAttempts)
    BY <1>1, <1>3, <2>1, <2>2 DEF AttemptTrue, AfterFailure, Spent
  <2> QED BY <1>2, <1>4, <2>1, <2>2, <2>3, <2>4
<1>7. CASE RangePiece(o)
  <2>1. PICK n \in Pieces : Moved(o, "reading", task[o].attempt, task[o].at + n)
    BY <1>7 DEF RangePiece
  <2>2. task[o].is = "reading" /\ n \in Nat \ {0}
    BY <1>7, TransferAssumption DEF RangePiece
  <2>3. /\ Place(task[o]) = task[o].at
        /\ Place([at |-> task[o].at + n, attempt |-> task[o].attempt, is |-> "reading"])
             = task[o].at + n
    BY <2>2 DEF Place
  <2>4. Before(task[o], task[o].attempt,
               Place([at |-> task[o].at + n, attempt |-> task[o].attempt, is |-> "reading"]))
    BY <1>3, <2>2, <2>3 DEF Before
  <2>5. task[o].attempt <= MaxAttempts
    BY <1>3 DEF AttemptTrue
  <2> QED BY <1>2, <1>4, <2>1, <2>4, <2>5
<1>8. CASE RangeBreaks(o)
  <2>1. task[o].is = "reading" /\ Moved(o, AfterFailure(task[o].attempt), task[o].attempt, 0)
    BY <1>8 DEF RangeBreaks, Retried
  <2>2. PICK is \in {"broken", "asking"} : is = AfterFailure(task[o].attempt)
    BY DEF AfterFailure
  <2>3. /\ Place(task[o]) = task[o].at
        /\ Place([at |-> 0, attempt |-> task[o].attempt, is |-> is]) = ChunkSize + 1
    BY <2>1, <2>2 DEF Place
  <2>4. Before(task[o], task[o].attempt,
               Place([at |-> 0, attempt |-> task[o].attempt, is |-> is]))
    BY <1>1, <1>3, <2>3 DEF Before
  <2>5. /\ task[o].attempt <= MaxAttempts
        /\ is # "waiting" /\ (is = "asking" => task[o].attempt < MaxAttempts)
    BY <1>1, <1>3, <2>2 DEF AttemptTrue, AfterFailure, Spent
  <2> QED BY <1>2, <1>4, <2>1, <2>2, <2>4, <2>5
<1>9. CASE RangeLands(o)
  <2>1. task[o].is = "reading" /\ Moved(o, "landed", task[o].attempt, task[o].at)
    BY <1>9 DEF RangeLands
  <2>2. /\ Place(task[o]) = task[o].at
        /\ Place([at |-> task[o].at, attempt |-> task[o].attempt, is |-> "landed"])
             = ChunkSize + 1
    BY <2>1 DEF Place
  <2>3. Before(task[o], task[o].attempt,
               Place([at |-> task[o].at, attempt |-> task[o].attempt, is |-> "landed"]))
    BY <1>1, <1>3, <2>2 DEF Before
  <2>4. task[o].attempt <= MaxAttempts
    BY <1>3 DEF AttemptTrue
  <2> QED BY <1>2, <1>4, <2>1, <2>3, <2>4
<1>10. CASE JoinLanded(o)
  <2>1. /\ task[o].is = "landed"
        /\ task' = [u \in DOMAIN task |->
                     IF u = o THEN [task[o] EXCEPT !.is = "joined"]
                     ELSE IF u \in Waiting /\ \A v \in Waiting : u <= v
                       THEN [Fresh EXCEPT !.is = "asking"]
                     ELSE task[u]]
    BY <1>10 DEF JoinLanded
  <2>2. DOMAIN task' = Starts
    BY <1>1, <2>1
  <2>t. task[o] \in Tasks
    BY DEF TransferIInv, RangesTrue, RangeTrue
  <2>3. /\ task'[o].is = "joined" /\ task'[o].attempt = task[o].attempt
    BY <1>1, <2>1, <2>t DEF Tasks
  <2>4. Onward(task[o], task'[o])
    <3>1. Place(task[o]) = ChunkSize + 1 /\ Place(task'[o]) = ChunkSize + 2
      BY <2>1, <2>3 DEF Place
    <3> QED BY <1>1, <1>3, <2>3, <3>1 DEF Onward, Before
  <2>5. ASSUME NEW u \in Starts, u # o, task'[u] # task[u]
        PROVE  /\ task[u].is = "waiting" /\ task'[u].is = "asking" /\ task'[u].attempt = 0
               /\ Onward(task[u], task'[u])
    <3>1. u \in Waiting /\ task'[u] = [Fresh EXCEPT !.is = "asking"]
      BY <1>1, <2>1, <2>5
    <3>2. task[u].is = "waiting" /\ task'[u].is = "asking" /\ task'[u].attempt = 0
      BY <3>1 DEF Waiting, Fresh
    <3>3. task[u].attempt = 0
      BY <1>1, <3>2 DEF AttemptTrue
    <3>4. Place(task[u]) = -1 /\ Place(task'[u]) = ChunkSize + 1
      BY <3>2 DEF Place
    <3> QED BY <1>1, <3>2, <3>3, <3>4 DEF Onward, Before
  <2>6. AttemptsTrue'
    <3> SUFFICES ASSUME NEW u \in Starts PROVE AttemptTrue(u)'
      BY <1>2 DEF AttemptsTrue
    <3>1. CASE u = o
      BY <1>3, <2>3, <3>1 DEF AttemptTrue
    <3>2. CASE u # o /\ task'[u] = task[u]
      BY <1>1, <3>2 DEF AttemptTrue
    <3>3. CASE u # o /\ task'[u] # task[u]
      BY <1>1, <2>5, <3>3 DEF AttemptTrue
    <3> QED BY <3>1, <3>2, <3>3
  <2> QED BY <1>2, <2>2, <2>3, <2>4, <2>5, <2>6
<1>11. CASE JoinBroken(o)
  BY <1>11 DEF JoinBroken
<1> QED BY <1>5, <1>6, <1>7, <1>8, <1>9, <1>10, <1>11 DEF RangeStep

LEMMA CreditFinite == ASSUME TransferIInv PROVE IsFiniteSet(Credit)
<1>1. IsFiniteSet(Starts)
  <2>1. IsFiniteSet(0 .. Size - 1) /\ Starts \subseteq 0 .. Size - 1
    BY StartsAre DEF TransferIInv, Starts
  <2> QED BY <2>1, FS_Subset
<1>2. IsFiniteSet(0 .. MaxAttempts) /\ IsFiniteSet(0 .. ChunkSize + 2)
  <2>1. MaxAttempts \in Int /\ ChunkSize + 2 \in Int /\ 0 \in Int
    BY TransferAssumption
  <2> QED BY <2>1, FS_Interval
<1>3. IsFiniteSet((Starts \X (0 .. MaxAttempts)) \X (0 .. ChunkSize + 2))
  BY <1>1, <1>2, FS_Product
<1>4. Credit \subseteq (Starts \X (0 .. MaxAttempts)) \X (0 .. ChunkSize + 2)
  BY DEF Credit
<1> QED BY <1>3, <1>4, FS_Subset

\* fetch_sub's retries run out, whatever the supplier does: there are finitely many
\* places the ranges may still come to, each step of theirs leaves fewer, and the
\* one-second ticker gives none back.
THEOREM RetriesRunOut ==
  Spec => [](AttemptsTrue /\ IsFiniteSet(Credit)) /\ [][SpendsCredit]_vars
<1>1. Init => AttemptsTrue
  BY DEF Init, AttemptsTrue
<1>2. TransferIInv /\ TransferIInv' /\ AttemptsTrue /\ [Next]_vars
        => AttemptsTrue' /\ [SpendsCredit]_vars
  <2> SUFFICES ASSUME TransferIInv, TransferIInv', AttemptsTrue, [Next]_vars
               PROVE  AttemptsTrue' /\ [SpendsCredit]_vars
    OBVIOUS
  <2>1. CASE phase' # "ranging"
    BY <2>1 DEF AttemptsTrue, SpendsCredit
  <2>2. CASE phase # "ranging" /\ phase' = "ranging"
    <3>1. CreateRanged
      BY <2>2 DEF Next, Proceed, Open, Streamed, InRanges, RangeStep, Answered, Refused,
         CreateFails, CreateStreamed, StreamPiece, StreamWritten, StreamEnds,
         StreamBreaks, SizingFails, RangeAnswered, RangeRefused, RangePiece, RangeBreaks,
         RangeLands, JoinLanded, JoinBroken, RangesEnd, Tick, Cancel, Killed, vars, Active
    <3>2. Starts' = Starts
      BY <3>1 DEF CreateRanged, Starts, Size
    <3>3. ASSUME NEW o \in Starts PROVE AttemptTrue(o)'
      <4>1. /\ task'[o].attempt = 0
            /\ task'[o].is \in {"reading", "asking", "waiting"}
        BY <3>1, <3>3 DEF CreateRanged, Fresh
      <4> QED BY <4>1, TransferAssumption DEF AttemptTrue
    <3> QED BY <2>2, <3>2, <3>3 DEF AttemptsTrue, SpendsCredit
  <2>3. CASE phase = "ranging" /\ phase' = "ranging"
    <3>1. CASE \E o \in DOMAIN task : RangeStep(o)
      <4>1. PICK o \in Starts : RangeStep(o)
        BY <2>3, <3>1 DEF TransferIInv, RangesTrue
      <4>2. /\ Starts' = Starts /\ supplier' = supplier /\ AttemptsTrue'
            /\ task'[o].is # "waiting" /\ Onward(task[o], task'[o])
            /\ \A u \in Starts : task'[u] = task[u] \/ Onward(task[u], task'[u])
        BY <2>3, <4>1, RangesMoveOn
      <4>3. Credit' \subseteq Credit /\ Credit' # Credit
        BY <2>3, <4>2, CreditShrinks
      <4> QED BY <4>2, <4>3 DEF SpendsCredit
    <3>2. CASE ~(\E o \in DOMAIN task : RangeStep(o))
      <4>1. ~Proceed
        BY <2>3, <3>2 DEF Proceed, Open, Streamed, InRanges, Answered, Refused,
           CreateFails, CreateStreamed, StreamPiece, StreamWritten, StreamEnds,
           StreamBreaks, CreateRanged, SizingFails, RangesEnd
      <4>2. UNCHANGED <<supplier, task>>
        BY <2>3, <4>1 DEF Next, Tick, Cancel, Killed, vars
      <4>3. Starts' = Starts /\ Credit' = Credit
        BY <4>2 DEF Starts, Size, Credit, Before, Place
      <4>4. AttemptsTrue'
        BY <2>3, <4>2, <4>3 DEF AttemptsTrue, AttemptTrue
      <4> QED BY <4>1, <4>3, <4>4 DEF SpendsCredit
    <3> QED BY <3>1, <3>2
  <2> QED BY <2>1, <2>2, <2>3
<1>3. TransferIInv => IsFiniteSet(Credit)
  BY CreditFinite
<1> QED BY <1>1, <1>2, <1>3, TransferInductive, PTL DEF Spec
=============================================================================
