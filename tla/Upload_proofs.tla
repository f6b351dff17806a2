---------------------------- MODULE Upload_proofs ----------------------------
(***************************************************************************)
(* A body that was cut off is never taken for a whole one, none of it is   *)
(* lost while both ends live, and what is parked is bounded: proved for    *)
(* every size of a body, of its chunks and of the channel.                 *)
(***************************************************************************)
EXTENDS Upload, SequenceTheorems, FiniteSetTheorems, FunctionTheorems, TLAPS

TcpPhases == {"frame", "send", "over"}

(* Each front end keeps to its own phases, and what a worker was told it was
   told before the sender went. *)
EndingInv ==
    /\ front = "tcp" <=> phase \in TcpPhases
    /\ front = "tcp" /\ upload = "gone" => phase = "over"
    /\ phase = "over" => upload = "gone"
    /\ outcome = "complete" => upload = "gone" /\ ~aborted
    /\ upload = "gone" /\ front = "tcp" =>
        \/ ending = "fin"
        \/ aborted
        \/ reader = "done" /\ outcome # "complete"
    /\ upload = "aborting" /\ front = "tcp" => aborted
    /\ reader # "done" => outcome = "none"
    /\ outcome # "none" => reader = "done"

LEMMA EndingInit == Init => EndingInv
  BY UploadAssumption DEF Init, EndingInv, TcpPhases

LEMMA ClientKeeps ==
    ASSUME EndingInv, ClientSteps \/ WakeUp \/ TimesOut
    PROVE  EndingInv'
  BY DEF EndingInv, TcpPhases, ClientSteps, ClientSends, ClientEnds, ClientCloses, WakeUp, TimesOut,
     DropClient, workerVars, streamVars

LEMMA LoopKeeps ==
    ASSUME EndingInv, LoopSteps
    PROVE  EndingInv'
<1>1. CASE \/ FinishedEvent \/ ResetEvent \/ SenderDropped \/ BeginPump \/ BodyEnds \/ ReadFails
  BY <1>1 DEF EndingInv, TcpPhases, FinishedEvent, ResetEvent, SenderDropped, BeginPump, BodyEnds,
     ReadFails, DropUpload, workerVars, streamVars
<1>2. CASE \/ MoveParked \/ ParkedStays \/ ParkedUnwanted \/ ReadToChannel \/ ReadToOverflow
           \/ ReadUnwanted \/ ReadStops
  BY <1>2 DEF EndingInv, TcpPhases, MoveParked, ParkedStays, ParkedUnwanted, ReadToChannel,
     ReadToOverflow, ReadUnwanted, ReadStops, DropUpload, workerVars, streamVars
<1>3. QED
  BY <1>1, <1>2 DEF LoopSteps

LEMMA TcpKeeps ==
    ASSUME EndingInv, TcpClient \/ TaskSteps
    PROVE  EndingInv'
<1>1. CASE TcpClient
  BY <1>1 DEF EndingInv, TcpPhases, TcpClient, workerVars, loopVars
<1>2. CASE Frame \/ FrameFails \/ SendFrame
  BY <1>2 DEF EndingInv, TcpPhases, Frame, FrameFails, SendFrame, workerVars, streamVars
<1>3. CASE TaskEnds
  BY <1>3 DEF EndingInv, TcpPhases, TaskEnds, Receiving, workerVars, streamVars
<1>4. QED
  BY <1>1, <1>2, <1>3 DEF TaskSteps

LEMMA WorkerKeeps ==
    ASSUME EndingInv, WorkerSteps \/ StopReading
    PROVE  EndingInv'
<1>1. UNCHANGED <<front, ending, phase, upload, aborted>>
  BY DEF WorkerSteps, StopReading, TakeBody, ReadChunk, ReadEnd, streamVars, loopVars
<1>2. CASE TakeBody
  BY <1>1, <1>2 DEF EndingInv, TakeBody
<1>3. CASE ReadChunk
  <2>1. reader \in {"buffering", "streaming"}
    BY <1>3 DEF ReadChunk
  <2>2. \/ reader' = "done" /\ outcome' = "too large"
        \/ reader' = reader /\ outcome' = outcome
    BY <1>3 DEF ReadChunk, Finish
  <2>3. QED
    BY <1>1, <2>1, <2>2 DEF EndingInv
<1>4. CASE ReadEnd
  <2>1. /\ reader \in {"buffering", "streaming"} /\ upload = "gone" /\ reader' = "done"
        /\ outcome' = IF aborted THEN "interrupted" ELSE "complete"
    BY <1>4 DEF ReadEnd, Finish
  <2>2. QED
    BY <1>1, <2>1 DEF EndingInv
<1>5. CASE StopReading
  BY <1>1, <1>5 DEF EndingInv, StopReading, Finish
<1>6. QED
  BY <1>2, <1>3, <1>4, <1>5 DEF WorkerSteps

(* A body that was reset, or whose TCP client died, never reads as one that is
   complete, wherever the worker's read falls between the flag of Ending and
   the Sender going: body.rs, and handle of tcp.rs. *)
THEOREM Told == Spec => []AbortIsSeen
<1>1. Init => EndingInv
  BY EndingInit
<1>2. EndingInv /\ [Next]_vars => EndingInv'
  <2> SUFFICES ASSUME EndingInv, [Next]_vars PROVE EndingInv'
    OBVIOUS
  <2>1. CASE UNCHANGED vars
    BY <2>1 DEF EndingInv, vars, streamVars, loopVars, workerVars
  <2>2. QED
    BY <2>1, ClientKeeps, LoopKeeps, TcpKeeps, WorkerKeeps DEF Next
<1>3. EndingInv => AbortIsSeen
  BY DEF EndingInv, AbortIsSeen
<1>4. QED
  BY <1>1, <1>2, <1>3, PTL DEF Spec
-----------------------------------------------------------------------------
(* What is under way is made of chunks of the body. *)
Marks ==
    /\ front \in Fronts
    /\ conn \in BOOLEAN
    /\ ending \in {"open", "fin", "reset"}
    /\ phase \in {"asleep", "poll", "overflow", "read", "frame", "send", "over"}
    /\ upload \in {"live", "aborting", "gone"}
    /\ finished \in BOOLEAN
    /\ aborted \in BOOLEAN
    /\ reader \in {"queued", "buffering", "streaming", "done"}
    /\ outcome \in {"none", "unwanted", "too large", "interrupted", "complete"}

Amounts == sent \in 0 .. BodyBytes /\ read \in 0 .. BodyBytes /\ read <= sent

Pieces ==
    /\ overflow \in Seq(Chunks) /\ channel \in Seq(Chunks) /\ parked \in Int
    /\ got \in Seq(1 .. BodyBytes)

LEMMA MarksKept == Marks /\ [Next]_vars => Marks'
<1> SUFFICES ASSUME Marks, [Next]_vars PROVE Marks'
  OBVIOUS
<1> USE DEF Marks, streamVars, loopVars, workerVars
<1>1. CASE ClientSteps \/ WakeUp \/ TimesOut \/ TcpClient
  BY <1>1 DEF ClientSteps, ClientSends, ClientEnds, ClientCloses, WakeUp, TimesOut, DropClient, TcpClient
<1>2. CASE LoopSteps
  BY <1>2 DEF LoopSteps, FinishedEvent, ResetEvent, SenderDropped, BeginPump, MoveParked, ParkedStays,
     ParkedUnwanted, ReadToChannel, ReadToOverflow, ReadUnwanted, ReadFails, ReadStops, BodyEnds, DropUpload
<1>3. CASE TaskSteps
  BY <1>3 DEF TaskSteps, Frame, FrameFails, SendFrame, TaskEnds
<1>4. CASE WorkerSteps \/ StopReading
  BY <1>4 DEF WorkerSteps, TakeBody, ReadChunk, ReadEnd, StopReading, Finish
<1>5. CASE UNCHANGED vars
  <2>1. UNCHANGED <<front, conn, ending, phase, upload, finished, aborted, reader, outcome>>
    BY <1>5 DEF vars
  <2> HIDE DEF streamVars, loopVars, workerVars
  <2>2. conn' \in BOOLEAN /\ finished' \in BOOLEAN /\ aborted' \in BOOLEAN
    BY <2>1
  <2>3. front' \in Fronts /\ ending' \in {"open", "fin", "reset"}
    BY <2>1
  <2>4. phase' \in {"asleep", "poll", "overflow", "read", "frame", "send", "over"}
    BY <2>1
  <2>5. /\ upload' \in {"live", "aborting", "gone"}
        /\ reader' \in {"queued", "buffering", "streaming", "done"}
    BY <2>1
  <2>6. outcome' \in {"none", "unwanted", "too large", "interrupted", "complete"}
    BY <2>1
  <2>7. QED
    BY <2>2, <2>3, <2>4, <2>5, <2>6
<1>6. QED
  BY <1>1, <1>2, <1>3, <1>4, <1>5 DEF Next

LEMMA ChunkOfTheBody ==
    ASSUME Amounts, NEW c \in [from : {read}, to : read + 1 .. sent]
    PROVE  /\ c \in Chunks /\ c.to \in 0 .. BodyBytes /\ c.to <= sent
           /\ Size(c) \in Int
<1>1. /\ read \in 0 .. BodyBytes /\ sent \in 0 .. BodyBytes /\ BodyBytes \in Nat
  BY BodyAssumption DEF Amounts
<1>2. c.from = read /\ c.to \in read + 1 .. sent /\ c = [from |-> c.from, to |-> c.to]
  OBVIOUS
<1>3. c.from \in 0 .. BodyBytes /\ c.to \in 0 .. BodyBytes /\ c.to <= sent
  BY <1>1, <1>2
<1>4. QED
  BY <1>1, <1>2, <1>3 DEF Chunks, Size

LEMMA AmountsKept == Amounts /\ [Next]_vars => Amounts'
<1> SUFFICES ASSUME Amounts, [Next]_vars PROVE Amounts'
  OBVIOUS
<1> USE DEF streamVars, loopVars, workerVars
<1>1. BodyBytes \in Nat
  BY BodyAssumption
<1>2. CASE ClientSends \/ TcpClient
  <2>1. sent' \in sent + 1 .. BodyBytes \/ sent' = sent
    BY <1>2 DEF ClientSends, TcpClient
  <2>2. read' = read
    BY <1>2 DEF ClientSends, TcpClient
  <2>3. QED
    BY <1>1, <2>1, <2>2 DEF Amounts
<1>3. ASSUME NEW c \in [from : {read}, to : read + 1 .. sent], read' = c.to, sent' = sent
      PROVE  Amounts'
  BY <1>3, ChunkOfTheBody DEF Amounts
<1>4. CASE ReadToChannel \/ ReadToOverflow \/ ReadUnwanted \/ Frame
  BY <1>3, <1>4 DEF ReadToChannel, ReadToOverflow, ReadUnwanted, Frame, NextChunk
<1>5. ASSUME UNCHANGED <<sent, read>> PROVE Amounts'
  BY <1>5 DEF Amounts
<1>6. CASE ClientEnds \/ ClientCloses \/ WakeUp \/ TimesOut \/ WorkerSteps \/ StopReading \/ UNCHANGED vars
  BY <1>5, <1>6 DEF ClientEnds, ClientCloses, WakeUp, TimesOut, DropClient, WorkerSteps, TakeBody, ReadChunk,
     ReadEnd, StopReading, vars
<1>7. CASE FrameFails \/ SendFrame \/ TaskEnds
  BY <1>5, <1>7 DEF FrameFails, SendFrame, TaskEnds
<1>8. CASE FinishedEvent \/ ResetEvent \/ SenderDropped \/ BeginPump \/ MoveParked \/ ParkedStays
           \/ ParkedUnwanted \/ ReadFails \/ ReadStops \/ BodyEnds
  BY <1>5, <1>8 DEF FinishedEvent, ResetEvent, SenderDropped, BeginPump, MoveParked, ParkedStays,
     ParkedUnwanted, ReadFails, ReadStops, BodyEnds
<1>9. QED
  BY <1>2, <1>4, <1>6, <1>7, <1>8 DEF Next, ClientSteps, LoopSteps, TaskSteps

LEMMA HeadOfMany ==
    ASSUME NEW S, NEW s \in Seq(S), s # <<>>
    PROVE  Head(s) \in S /\ Tail(s) \in Seq(S)
  OBVIOUS

(* What a worker reads of a chunk are bytes of the body. *)
LEMMA BytesOfAChunk ==
    ASSUME NEW c \in Chunks
    PROVE  [i \in 1 .. Size(c) |-> c.from + i] \in Seq(1 .. BodyBytes)
<1>1. c.from \in 0 .. BodyBytes /\ c.to \in 0 .. BodyBytes /\ BodyBytes \in Nat
  BY BodyAssumption DEF Chunks
<1>2. Size(c) \in Int /\ \A i \in 1 .. Size(c) : c.from + i \in 1 .. BodyBytes
  BY <1>1 DEF Size
<1>3. \E n \in Nat : 1 .. Size(c) = 1 .. n
  <2>1. CASE Size(c) \in Nat
    BY <2>1
  <2>2. CASE Size(c) \notin Nat
    <3>1. 1 .. Size(c) = 1 .. 0
      BY <1>2, <2>2
    <3>2. QED
      BY <3>1
  <2>3. QED
    BY <2>1, <2>2
<1>4. PICK n \in Nat : 1 .. Size(c) = 1 .. n
  BY <1>3
<1> DEFINE bytes == [i \in 1 .. Size(c) |-> c.from + i]
<1>5. bytes \in [1 .. n -> 1 .. BodyBytes]
  BY <1>2, <1>4
<1> HIDE DEF bytes
<1>6. bytes \in UNION {[1 .. m -> 1 .. BodyBytes] : m \in Nat}
  BY <1>5
<1>7. bytes \in Seq(1 .. BodyBytes)
  BY <1>6, SeqDef
<1>8. QED
  BY <1>7 DEF bytes

LEMMA NothingYet == <<>> \in Seq(Chunks) /\ <<>> \in Seq(1 .. BodyBytes)
  OBVIOUS

LEMMA PiecesKept == Amounts /\ Pieces /\ [Next]_vars => Pieces'
<1> SUFFICES ASSUME Amounts, Pieces, [Next]_vars PROVE Pieces'
  OBVIOUS
<1> USE DEF streamVars, loopVars, workerVars
<1> DEFINE Kept == UNCHANGED <<overflow, parked, channel, got>>
           Dropped == /\ overflow' = <<>> /\ parked' \in {0, parked}
                      /\ UNCHANGED <<channel, got>>
<1>a. Kept \/ Dropped => Pieces'
  <2>1. Kept => Pieces'
    BY DEF Pieces
  <2>2. ASSUME Dropped PROVE Pieces'
    <3>1. overflow' \in Seq(Chunks)
      BY <2>2, NothingYet
    <3>2. parked' \in Int /\ channel' \in Seq(Chunks) /\ got' \in Seq(1 .. BodyBytes)
      BY <2>2 DEF Pieces
    <3>3. QED
      BY <3>1, <3>2 DEF Pieces
  <2>3. QED
    BY <2>1, <2>2
<1>1. CASE \/ ClientSteps \/ WakeUp \/ TimesOut \/ TcpClient \/ TaskEnds \/ FrameFails \/ UNCHANGED vars
  BY <1>1, <1>a DEF ClientSteps, ClientSends, ClientEnds, ClientCloses, WakeUp, TimesOut, DropClient, TcpClient,
     TaskEnds, FrameFails, vars
<1>2. CASE FinishedEvent \/ ResetEvent \/ SenderDropped \/ BeginPump \/ ParkedStays \/ ParkedUnwanted
           \/ ReadFails \/ ReadStops \/ BodyEnds
  BY <1>2, <1>a DEF FinishedEvent, ResetEvent, SenderDropped, BeginPump, ParkedStays, ParkedUnwanted,
     ReadFails, ReadStops, BodyEnds, DropUpload
<1>3. CASE MoveParked
  <2>1. Head(overflow) \in Chunks /\ Tail(overflow) \in Seq(Chunks)
    BY <1>3, HeadOfMany DEF Pieces, MoveParked
  <2>2. Size(Head(overflow)) \in Int
    BY <2>1, UploadAssumption DEF Chunks, Size
  <2>3. parked' \in Int
    BY <1>3, <2>2 DEF Pieces, MoveParked
  <2>4. channel' \in Seq(Chunks) /\ overflow' \in Seq(Chunks)
    BY <1>3, <2>1 DEF Pieces, MoveParked
  <2>5. QED
    BY <1>3, <2>3, <2>4 DEF Pieces, MoveParked
<1>4. CASE ReadToChannel \/ ReadToOverflow \/ ReadUnwanted
  <2>1. PICK c \in [from : {read}, to : read + 1 .. sent] :
            /\ channel' = channel \/ channel' = Append(channel, c)
            /\ \/ overflow' = overflow /\ parked' = parked
               \/ overflow' = Append(overflow, c) /\ parked' = parked + Size(c)
               \/ overflow' = <<>> /\ parked' = 0
    BY <1>4 DEF ReadToChannel, ReadToOverflow, ReadUnwanted, DropUpload, NextChunk
  <2>2. c \in Chunks /\ Size(c) \in Int
    BY ChunkOfTheBody
  <2>3. \A s \in Seq(Chunks) : Append(s, c) \in Seq(Chunks)
    BY <2>2
  <2>4. got' = got
    BY <1>4 DEF ReadToChannel, ReadToOverflow, ReadUnwanted
  <2>5. channel' \in Seq(Chunks)
    BY <2>1, <2>3 DEF Pieces
  <2>6. overflow' \in Seq(Chunks)
    BY <2>1, <2>3, NothingYet DEF Pieces
  <2>7. parked' \in Int
    BY <2>1, <2>2 DEF Pieces
  <2>8. QED
    BY <2>4, <2>5, <2>6, <2>7 DEF Pieces
<1>5. CASE Frame
  <2>1. PICK c \in [from : {read}, to : read + 1 .. sent] : overflow' = <<c>>
    BY <1>5 DEF Frame
  <2>2. overflow' \in Seq(Chunks)
    BY <2>1, ChunkOfTheBody
  <2>3. QED
    BY <1>5, <2>2 DEF Pieces, Frame
<1>6. CASE SendFrame
  <2>1. \A r, s \in Seq(Chunks) : r \o s \in Seq(Chunks)
    OBVIOUS
  <2>2. QED
    BY <1>6, <2>1 DEF Pieces, SendFrame
<1>7. CASE ReadChunk
  <2> DEFINE bytes == [i \in 1 .. Size(Head(channel)) |-> Head(channel).from + i]
  <2>1. Head(channel) \in Chunks /\ Tail(channel) \in Seq(Chunks)
    BY <1>7, HeadOfMany DEF Pieces, ReadChunk
  <2>2. bytes \in Seq(1 .. BodyBytes)
    BY <2>1, BytesOfAChunk
  <2>3. /\ channel' = <<>> \/ channel' = Tail(channel)
        /\ got' = got \/ got' = got \o bytes
    BY <1>7 DEF ReadChunk, Finish
  <2> HIDE DEF bytes
  <2>4. channel' \in Seq(Chunks)
    BY <2>1, <2>3, NothingYet
  <2>5. \A r, s \in Seq(1 .. BodyBytes) : r \o s \in Seq(1 .. BodyBytes)
    OBVIOUS
  <2>6. got' \in Seq(1 .. BodyBytes)
    BY <2>2, <2>3, <2>5 DEF Pieces
  <2>7. QED
    BY <1>7, <2>4, <2>6 DEF Pieces, ReadChunk
<1>8. CASE TakeBody \/ ReadEnd \/ StopReading
  <2>1. UNCHANGED <<overflow, parked, got>> /\ channel' \in {<<>>, channel}
    BY <1>8 DEF TakeBody, ReadEnd, StopReading, Finish
  <2>2. channel' \in Seq(Chunks)
    BY <2>1, NothingYet DEF Pieces
  <2>3. QED
    BY <2>1, <2>2 DEF Pieces
<1>9. QED
  BY <1>1, <1>2, <1>3, <1>4, <1>5, <1>6, <1>7, <1>8 DEF Next, LoopSteps, TaskSteps, WorkerSteps

(* Type correctness: what is parked, queued and read is of the body, whatever
   its size, the channel's and the caps.  Upload of main.rs, Reader of
   body.rs. *)
THEOREM TypeCorrect == Spec => []TypeOK
<1>1. Init => Marks /\ Amounts /\ Pieces
  <2>1. Init => Marks
    BY UploadAssumption, BodyAssumption DEF Init, Marks
  <2>2. Init => Amounts
    BY UploadAssumption, BodyAssumption DEF Init, Amounts
  <2>3. Init => Pieces
    BY NothingYet DEF Init, Pieces
  <2>4. QED
    BY <2>1, <2>2, <2>3
<1>2. Marks /\ Amounts /\ Pieces => TypeOK
  BY DEF Marks, Amounts, Pieces, TypeOK
<1>3. QED
  BY <1>1, <1>2, MarksKept, AmountsKept, PiecesKept, PTL DEF Spec

-----------------------------------------------------------------------------
(* How long a queue of chunks is. *)

LEMMA AppendShape ==
    ASSUME NEW q \in Seq(Chunks), NEW c \in Chunks
    PROVE  /\ Len(q) \in Nat /\ DOMAIN q = 1 .. Len(q)
           /\ Append(q, c) \in Seq(Chunks) /\ DOMAIN Append(q, c) = 1 .. Len(q) + 1
           /\ Append(q, c)[Len(q) + 1] = c
           /\ \A i \in 1 .. Len(q) : Append(q, c)[i] = q[i]
  OBVIOUS

LEMMA TailShape ==
    ASSUME NEW q \in Seq(Chunks), q # <<>>
    PROVE  /\ Len(q) \in Nat \ {0} /\ DOMAIN q = 1 .. Len(q)
           /\ Head(q) = q[1] /\ Head(q) \in Chunks
           /\ Tail(q) \in Seq(Chunks) /\ DOMAIN Tail(q) = 1 .. Len(q) - 1
           /\ \A i \in 1 .. Len(q) - 1 : Tail(q)[i] = q[i + 1]
  OBVIOUS

LEMMA ChunkBounds ==
    ASSUME NEW c \in Chunks
    PROVE  c.from \in Nat /\ c.to \in Nat /\ c.to <= BodyBytes /\ BodyBytes \in Nat
  BY BodyAssumption DEF Chunks

LEMMA BytesFinite ==
    ASSUME NEW q \in Seq(Chunks)
    PROVE  IsFiniteSet(BytesOf(q)) /\ BodyLen(q) \in Nat
<1> DEFINE S == DOMAIN q
           T == 1 .. BodyBytes
<1>1. IsFiniteSet(S)
  <2>1. S = 1 .. Len(q) /\ Len(q) \in Nat
    OBVIOUS
  <2> HIDE DEF S
  <2>2. QED
    BY <2>1, FS_Interval
<1>2. IsFiniteSet(T)
  BY BodyAssumption, FS_Interval
<1>3. BytesOf(q) \in SUBSET (S \X T)
  BY DEF BytesOf
<1> HIDE DEF S, T
<1>4. IsFiniteSet(BytesOf(q))
  BY <1>1, <1>2, <1>3, FS_Product, FS_Subset
<1>5. QED
  BY <1>4, FS_CardinalityType DEF BodyLen

(* The bytes of one chunk, at one place. *)
LEMMA BytesAtPlace ==
    ASSUME NEW c \in Chunks, c.from <= c.to, NEW i
    PROVE  /\ IsFiniteSet({i} \X (c.from + 1 .. c.to))
           /\ Cardinality({i} \X (c.from + 1 .. c.to)) = Size(c)
<1> DEFINE T == c.from + 1 .. c.to
<1>1. c.from \in Nat /\ c.to \in Nat
  BY ChunkBounds
<1>2. IsFiniteSet(T) /\ Cardinality(T) = Size(c)
  <2>1. PICK a \in Int, b \in Int : a = c.from + 1 /\ b = c.to /\ b - a + 1 = Size(c) /\ a <= b + 1
    BY <1>1 DEF Size
  <2>2. /\ IsFiniteSet(a .. b)
        /\ Cardinality(a .. b) = IF a > b THEN 0 ELSE b - a + 1
    BY FS_Interval
  <2>3. Cardinality(a .. b) = b - a + 1
    BY <2>1, <2>2
  <2>4. QED
    BY <2>1, <2>2, <2>3
<1>3. IsFiniteSet({i}) /\ Cardinality({i}) = 1
  BY FS_Singleton
<1> HIDE DEF T
<1>4. /\ IsFiniteSet({i} \X T)
      /\ Cardinality({i} \X T) = Cardinality({i}) * Cardinality(T)
  BY <1>2, <1>3, FS_Product
<1>5. Cardinality(T) \in Nat
  BY <1>2, FS_CardinalityType
<1>6. Cardinality({i} \X T) = Cardinality(T)
  BY <1>3, <1>4, <1>5
<1>7. QED
  BY <1>2, <1>4, <1>6 DEF T

LEMMA DisjointCount ==
    ASSUME NEW S, NEW T, IsFiniteSet(S), IsFiniteSet(T), S \cap T = {}
    PROVE  Cardinality(S \cup T) = Cardinality(S) + Cardinality(T)
<1>1. Cardinality(S \cup T) = Cardinality(S) + Cardinality(T) - Cardinality(S \cap T)
  BY FS_Union
<1>2. Cardinality(S \cap T) = 0
  BY FS_EmptySet
<1>3. Cardinality(S) \in Nat /\ Cardinality(T) \in Nat
  BY FS_CardinalityType
<1>4. QED
  BY <1>1, <1>2, <1>3

LEMMA LenOfNone == BodyLen(<<>>) = 0
<1>1. BytesOf(<<>>) = {}
  BY DEF BytesOf
<1>2. QED
  BY <1>1, FS_EmptySet DEF BodyLen

LEMMA LenOfAppend ==
    ASSUME NEW q \in Seq(Chunks), NEW c \in Chunks, c.from <= c.to
    PROVE  BodyLen(Append(q, c)) = BodyLen(q) + Size(c)
<1> DEFINE n == Len(q)
           r == Append(q, c)
           new == {n + 1} \X (c.from + 1 .. c.to)
<1>1. /\ n \in Nat /\ DOMAIN q = 1 .. n /\ DOMAIN r = 1 .. n + 1
      /\ r[n + 1] = c /\ \A i \in 1 .. n : r[i] = q[i]
  BY AppendShape
<1>2. c.from \in Nat /\ c.to \in Nat /\ c.to <= BodyBytes /\ BodyBytes \in Nat
  BY ChunkBounds
<1> HIDE DEF n, r
<1>3. BytesOf(r) = BytesOf(q) \cup new
  <2>1. ASSUME NEW p \in BytesOf(r) PROVE p \in BytesOf(q) \cup new
    <3>1. p = <<p[1], p[2]>> /\ p[1] \in 1 .. n + 1 /\ p[2] \in 1 .. BodyBytes
          /\ r[p[1]].from < p[2] /\ p[2] <= r[p[1]].to
      BY <1>1, <2>1 DEF BytesOf
    <3>2. CASE p[1] = n + 1
      BY <1>1, <1>2, <3>1, <3>2
    <3>3. CASE p[1] # n + 1
      <4>1. p[1] \in 1 .. n
        BY <1>1, <3>1, <3>3
      <4>2. QED
        BY <1>1, <3>1, <4>1 DEF BytesOf
    <3>4. QED
      BY <3>2, <3>3
  <2>2. ASSUME NEW p \in BytesOf(q) PROVE p \in BytesOf(r)
    <3>1. p = <<p[1], p[2]>> /\ p[1] \in 1 .. n /\ p[2] \in 1 .. BodyBytes
          /\ q[p[1]].from < p[2] /\ p[2] <= q[p[1]].to
      BY <1>1, <2>2 DEF BytesOf
    <3>2. p[1] \in 1 .. n + 1 /\ r[p[1]] = q[p[1]]
      BY <1>1, <3>1
    <3>3. QED
      BY <1>1, <3>1, <3>2 DEF BytesOf
  <2>3. ASSUME NEW p \in new PROVE p \in BytesOf(r)
    <3>1. p = <<p[1], p[2]>> /\ p[1] = n + 1 /\ p[2] \in c.from + 1 .. c.to
      BY <2>3
    <3>2. p[1] \in 1 .. n + 1 /\ p[2] \in 1 .. BodyBytes /\ c.from < p[2] /\ p[2] <= c.to
      BY <1>1, <1>2, <3>1
    <3>3. QED
      BY <1>1, <3>1, <3>2 DEF BytesOf
  <2>4. QED
    BY <2>1, <2>2, <2>3
<1>4. BytesOf(q) \cap new = {}
  <2>1. \A p \in BytesOf(q) : p[1] \in 1 .. n
    BY <1>1 DEF BytesOf
  <2>2. \A p \in new : p[1] = n + 1
    OBVIOUS
  <2> HIDE DEF new
  <2>3. QED
    BY <1>1, <2>1, <2>2
<1>5. IsFiniteSet(new) /\ Cardinality(new) = Size(c)
  BY BytesAtPlace
<1> HIDE DEF new
<1>6. QED
  BY <1>3, <1>4, <1>5, BytesFinite, DisjointCount DEF BodyLen, r

LEMMA LenOfTail ==
    ASSUME NEW q \in Seq(Chunks), q # <<>>, Head(q).from <= Head(q).to
    PROVE  BodyLen(Tail(q)) = BodyLen(q) - Size(Head(q))
<1> DEFINE n == Len(q)
           r == Tail(q)
           c == Head(q)
           first == {1} \X (c.from + 1 .. c.to)
           rest == {p \in BytesOf(q) : p[1] > 1}
<1>1. /\ n \in Nat \ {0} /\ DOMAIN q = 1 .. n /\ DOMAIN r = 1 .. n - 1
      /\ q[1] = c /\ c \in Chunks /\ r \in Seq(Chunks) /\ \A i \in 1 .. n - 1 : r[i] = q[i + 1]
  BY TailShape
<1>2. c.from \in Nat /\ c.to \in Nat /\ c.to <= BodyBytes /\ BodyBytes \in Nat
  BY <1>1, ChunkBounds
<1>3. IsFiniteSet(first) /\ Cardinality(first) = Size(c)
  BY <1>1, BytesAtPlace
<1> HIDE DEF n, r, c
<1>4. \A p \in BytesOf(q) :
        /\ p = <<p[1], p[2]>> /\ p[1] \in 1 .. n /\ p[2] \in 1 .. BodyBytes
        /\ q[p[1]].from < p[2] /\ p[2] <= q[p[1]].to
  BY <1>1 DEF BytesOf
<1>5. \A i \in 1 .. n, b \in 1 .. BodyBytes :
        q[i].from < b /\ b <= q[i].to => <<i, b>> \in BytesOf(q)
  BY <1>1 DEF BytesOf
<1>6. \A p \in BytesOf(r) :
        /\ p = <<p[1], p[2]>> /\ p[1] \in 1 .. n - 1 /\ p[2] \in 1 .. BodyBytes
        /\ q[p[1] + 1].from < p[2] /\ p[2] <= q[p[1] + 1].to
  BY <1>1 DEF BytesOf
<1>7. \A i \in 1 .. n - 1, b \in 1 .. BodyBytes :
        q[i + 1].from < b /\ b <= q[i + 1].to => <<i, b>> \in BytesOf(r)
  BY <1>1 DEF BytesOf
<1>8. BytesOf(q) = first \cup rest
  <2>1. ASSUME NEW p \in BytesOf(q) PROVE p \in first \cup rest
    <3>1. CASE p[1] = 1
      BY <1>1, <1>2, <1>4, <3>1
    <3>2. CASE p[1] # 1
      <4>1. p[1] > 1
        BY <1>1, <1>4, <3>2
      <4>2. QED
        BY <4>1
    <3>3. QED
      BY <3>1, <3>2
  <2>2. ASSUME NEW p \in first PROVE p \in BytesOf(q)
    <3>1. p = <<p[1], p[2]>> /\ p[1] = 1 /\ p[2] \in c.from + 1 .. c.to
      BY <2>2
    <3>2. 1 \in 1 .. n /\ p[2] \in 1 .. BodyBytes /\ q[1].from < p[2] /\ p[2] <= q[1].to
      BY <1>1, <1>2, <3>1
    <3>3. QED
      BY <1>5, <3>1, <3>2
  <2>3. QED
    BY <2>1, <2>2
<1>9. first \cap rest = {}
  <2>1. \A p \in first : p[1] = 1
    OBVIOUS
  <2>2. \A p \in rest : p[1] > 1
    OBVIOUS
  <2> HIDE DEF first, rest
  <2>3. QED
    BY <2>1, <2>2
<1>10. IsFiniteSet(BytesOf(q)) /\ IsFiniteSet(BytesOf(r))
  BY <1>1, BytesFinite
<1>11. IsFiniteSet(rest)
  BY <1>10, FS_Subset
<1>12. Cardinality(rest) = Cardinality(BytesOf(r))
  <2> DEFINE f == [p \in BytesOf(r) |-> <<p[1] + 1, p[2]>>]
             D == BytesOf(r)
  <2>1. f \in [D -> rest]
    <3> SUFFICES ASSUME NEW p \in D PROVE <<p[1] + 1, p[2]>> \in rest
      OBVIOUS
    <3>1. p[1] + 1 \in 1 .. n /\ p[1] + 1 > 1
      BY <1>1, <1>6
    <3>2. <<p[1] + 1, p[2]>> \in BytesOf(q)
      BY <1>5, <1>6, <3>1
    <3>3. QED
      BY <3>1, <3>2
  <2>2. \A p, u \in D : f[p] = f[u] => p = u
    <3> SUFFICES ASSUME NEW p \in D, NEW u \in D, f[p] = f[u] PROVE p = u
      OBVIOUS
    <3>1. p[1] + 1 = u[1] + 1 /\ p[2] = u[2]
      OBVIOUS
    <3>2. p[1] \in Int /\ u[1] \in Int /\ p = <<p[1], p[2]>> /\ u = <<u[1], u[2]>>
      BY <1>6
    <3>3. p[1] = u[1]
      BY <3>1, <3>2
    <3>4. QED
      BY <3>1, <3>2, <3>3
  <2>3. \A t \in rest : \E p \in D : f[p] = t
    <3> SUFFICES ASSUME NEW t \in rest PROVE \E p \in D : f[p] = t
      OBVIOUS
    <3>1. /\ t = <<t[1], t[2]>> /\ t[1] \in 1 .. n /\ t[1] > 1 /\ t[2] \in 1 .. BodyBytes
          /\ q[t[1]].from < t[2] /\ t[2] <= q[t[1]].to
      BY <1>4
    <3>2. PICK i \in 1 .. n - 1 : i + 1 = t[1]
      <4>1. t[1] - 1 \in 1 .. n - 1 /\ (t[1] - 1) + 1 = t[1]
        BY <1>1, <3>1
      <4>2. QED
        BY <4>1
    <3>3. <<i, t[2]>> \in D
      BY <1>7, <3>1, <3>2
    <3>4. f[<<i, t[2]>>] = t
      BY <3>1, <3>2, <3>3
    <3>5. QED
      BY <3>3, <3>4
  <2> HIDE DEF f, rest
  <2>4. \/ f \in Injection(D, rest)
        \/ f \in [D -> rest] /\ \A p, u \in D : f[p] = f[u] => p = u
    BY <2>1, <2>2
  <2>5. \/ f \in Surjection(D, rest)
        \/ f \in [D -> rest] /\ \A t \in rest : \E p \in D : f[p] = t
    BY <2>1, <2>3
  <2> HIDE DEF D
  <2>6. f \in Bijection(D, rest)
    BY <2>4, <2>5, Fun_IsBij
  <2>7. ExistsBijection(D, rest)
    BY <2>6 DEF ExistsBijection
  <2>8. QED
    BY <1>10, <2>7, FS_Bijection DEF D
<1> HIDE DEF first, rest
<1>13. Cardinality(BytesOf(q)) = Size(c) + Cardinality(BytesOf(r))
  BY <1>3, <1>8, <1>9, <1>11, <1>12, DisjointCount
<1>14. Size(c) \in Int /\ Cardinality(BytesOf(r)) \in Nat
  BY <1>2, <1>10, FS_CardinalityType DEF Size
<1>15. QED
  BY <1>13, <1>14 DEF BodyLen, r, c

-----------------------------------------------------------------------------
(* Where the chunks are. *)

(* What a phase says of the chunk in hand and of the entry. *)
PhaseInv ==
    /\ phase \in {"overflow", "read"} => upload = "live" /\ conn
    /\ phase = "frame" => overflow = <<>>
    /\ phase = "send" => upload = "live" /\ \E c \in Chunks : overflow = <<c>>
    /\ upload = "gone" => overflow = <<>>
    /\ upload = "aborting" => ending = "reset"
    /\ finished => ending = "fin"

(* Every chunk has bytes in it, up to n. *)
Within(q, n) == \A i \in DOMAIN q : q[i].from < q[i].to /\ q[i].to <= n

TakenInv == Within(channel, read) /\ Within(overflow, read) /\ ToSet(got) \subseteq 1 .. read

(* Byte b is in a chunk of q. *)
Has(q, b) == \E i \in DOMAIN q : q[i].from < b /\ b <= q[i].to

Apart(c, d) == c.to <= d.from \/ d.to <= c.from

Spread(q) == \A i, k \in DOMAIN q : i # k => Apart(q[i], q[k])

Beside(q, r) == \A i \in DOMAIN q, k \in DOMAIN r : Apart(q[i], r[k])

(* Every byte that was read is somewhere. *)
Whole == \A b \in 1 .. read : b \in ToSet(got) \/ Has(channel, b) \/ Has(overflow, b)

Once ==
    /\ Len(got) + BodyLen(channel) + BodyLen(overflow) = read
    /\ Spread(channel) /\ Spread(overflow) /\ Beside(channel, overflow)
    /\ \A b \in ToSet(got) : ~Has(channel, b) /\ ~Has(overflow, b)

(* While both ends live; once the Sender was dropped, which unless the body
   was cut off is when all of it was sent; and when the worker has read it. *)
HoldInv ==
    /\ upload = "live" /\ Receiving => Once /\ Whole
    /\ upload = "gone" /\ conn /\ Receiving =>
        ending = "reset" \/ (ending = "fin" /\ read = sent /\ Whole)
    /\ outcome = "complete" /\ conn =>
        ending = "reset" \/ (ending = "fin" /\ ToSet(got) = 1 .. sent)

KeptInv ==
    /\ Marks /\ Amounts /\ Pieces
    /\ EndingInv /\ PhaseInv /\ TakenInv /\ HoldInv /\ ParkingIsBounded

LEMMA HasAppend ==
    ASSUME NEW q \in Seq(Chunks), NEW c \in Chunks, NEW b
    PROVE  Has(Append(q, c), b) <=> Has(q, b) \/ (c.from < b /\ b <= c.to)
<1> DEFINE n == Len(q)
           r == Append(q, c)
<1>1. /\ n \in Nat /\ DOMAIN q = 1 .. n /\ DOMAIN r = 1 .. n + 1
      /\ r[n + 1] = c /\ \A i \in 1 .. n : r[i] = q[i]
  BY AppendShape
<1> HIDE DEF n, r
<1>2. \A i \in 1 .. n + 1 : i \in 1 .. n \/ i = n + 1
  BY <1>1
<1>3. \A i \in 1 .. n : i \in 1 .. n + 1
  BY <1>1
<1>4. n + 1 \in 1 .. n + 1
  BY <1>1
<1>5. Has(r, b) <=> Has(q, b) \/ (c.from < b /\ b <= c.to)
  BY <1>1, <1>2, <1>3, <1>4 DEF Has
<1>6. QED
  BY <1>5 DEF r

LEMMA HasTail ==
    ASSUME NEW q \in Seq(Chunks), q # <<>>, NEW b
    PROVE  Has(q, b) <=> Has(Tail(q), b) \/ (Head(q).from < b /\ b <= Head(q).to)
<1> DEFINE n == Len(q)
           r == Tail(q)
<1>1. /\ n \in Nat \ {0} /\ DOMAIN q = 1 .. n /\ DOMAIN r = 1 .. n - 1
      /\ q[1] = Head(q) /\ \A i \in 1 .. n - 1 : r[i] = q[i + 1]
  BY TailShape
<1> HIDE DEF n, r
<1>2. \A i \in 1 .. n : i = 1 \/ \E k \in 1 .. n - 1 : i = k + 1
  <2> SUFFICES ASSUME NEW i \in 1 .. n, i # 1 PROVE \E k \in 1 .. n - 1 : i = k + 1
    OBVIOUS
  <2>1. i - 1 \in 1 .. n - 1 /\ i = (i - 1) + 1
    BY <1>1
  <2>2. QED
    BY <2>1
<1>3. 1 \in 1 .. n /\ \A k \in 1 .. n - 1 : k + 1 \in 1 .. n
  BY <1>1
<1>4. Has(q, b) => Has(r, b) \/ (q[1].from < b /\ b <= q[1].to)
  <2> SUFFICES ASSUME Has(q, b), ~(q[1].from < b /\ b <= q[1].to) PROVE Has(r, b)
    OBVIOUS
  <2>1. PICK i \in 1 .. n : q[i].from < b /\ b <= q[i].to
    BY <1>1 DEF Has
  <2>2. PICK k \in 1 .. n - 1 : i = k + 1
    BY <1>2, <2>1
  <2>3. r[k] = q[i]
    BY <1>1, <2>2
  <2>4. QED
    BY <1>1, <2>1, <2>3 DEF Has
<1>5. Has(r, b) => Has(q, b)
  BY <1>1, <1>3 DEF Has
<1>6. q[1].from < b /\ b <= q[1].to => Has(q, b)
  BY <1>1, <1>3 DEF Has
<1>7. QED
  BY <1>1, <1>4, <1>5, <1>6 DEF r

LEMMA WithinAppend ==
    ASSUME NEW q \in Seq(Chunks), NEW c \in Chunks, NEW n \in Nat, NEW m \in Nat, n <= m,
           Within(q, n), c.from < c.to, c.to <= m
    PROVE  Within(Append(q, c), m)
<1>1. /\ DOMAIN q = 1 .. Len(q) /\ Len(q) \in Nat /\ DOMAIN Append(q, c) = 1 .. Len(q) + 1
      /\ Append(q, c)[Len(q) + 1] = c /\ \A i \in 1 .. Len(q) : Append(q, c)[i] = q[i]
  BY AppendShape
<1> SUFFICES ASSUME NEW i \in 1 .. Len(q) + 1
             PROVE  Append(q, c)[i].from < Append(q, c)[i].to /\ Append(q, c)[i].to <= m
  BY <1>1 DEF Within
<1>2. CASE i = Len(q) + 1
  BY <1>1, <1>2
<1>3. CASE i \in 1 .. Len(q)
  <2>1. q[i].from < q[i].to /\ q[i].to <= n /\ q[i] \in Chunks
    BY <1>1, <1>3 DEF Within
  <2>2. q[i].to \in Nat
    BY <2>1, ChunkBounds
  <2>3. QED
    BY <1>1, <1>3, <2>1, <2>2
<1>4. QED
  BY <1>1, <1>2, <1>3

LEMMA WithinMore ==
    ASSUME NEW q \in Seq(Chunks), NEW n \in Nat, NEW m \in Nat, n <= m, Within(q, n)
    PROVE  Within(q, m)
<1> SUFFICES ASSUME NEW i \in DOMAIN q PROVE q[i].from < q[i].to /\ q[i].to <= m
  BY DEF Within
<1>1. q[i].from < q[i].to /\ q[i].to <= n /\ q[i] \in Chunks
  BY DEF Within
<1>2. q[i].to \in Nat
  BY <1>1, ChunkBounds
<1>3. QED
  BY <1>1, <1>2

LEMMA WithinTail ==
    ASSUME NEW q \in Seq(Chunks), q # <<>>, NEW n, Within(q, n)
    PROVE  Within(Tail(q), n) /\ Head(q).from < Head(q).to /\ Head(q).to <= n
<1>1. /\ Len(q) \in Nat \ {0} /\ DOMAIN q = 1 .. Len(q) /\ Head(q) = q[1]
      /\ DOMAIN Tail(q) = 1 .. Len(q) - 1
      /\ \A i \in 1 .. Len(q) - 1 : Tail(q)[i] = q[i + 1] /\ i + 1 \in 1 .. Len(q)
  BY TailShape
<1>2. 1 \in DOMAIN q
  BY <1>1
<1>3. QED
  BY <1>1, <1>2 DEF Within

LEMMA SpreadAppend ==
    ASSUME NEW q \in Seq(Chunks), NEW c \in Chunks, Spread(q),
           \A i \in DOMAIN q : Apart(q[i], c)
    PROVE  Spread(Append(q, c))
<1> DEFINE n == Len(q)
           r == Append(q, c)
<1>1. /\ n \in Nat /\ DOMAIN q = 1 .. n /\ DOMAIN r = 1 .. n + 1
      /\ r[n + 1] = c /\ \A i \in 1 .. n : r[i] = q[i]
  BY AppendShape
<1> HIDE DEF n, r
<1>2. \A i \in 1 .. n + 1 : i \in 1 .. n \/ i = n + 1
  BY <1>1
<1>3. \A i \in 1 .. n : Apart(q[i], c) /\ Apart(c, q[i])
  BY <1>1 DEF Apart
<1>4. Spread(r)
  BY <1>1, <1>2, <1>3 DEF Spread
<1>5. QED
  BY <1>4 DEF r

LEMMA SpreadTail ==
    ASSUME NEW q \in Seq(Chunks), q # <<>>, Spread(q)
    PROVE  Spread(Tail(q)) /\ \A i \in DOMAIN Tail(q) : Apart(Tail(q)[i], Head(q))
<1> DEFINE n == Len(q)
           r == Tail(q)
<1>1. /\ n \in Nat \ {0} /\ DOMAIN q = 1 .. n /\ DOMAIN r = 1 .. n - 1
      /\ q[1] = Head(q) /\ \A i \in 1 .. n - 1 : r[i] = q[i + 1]
  BY TailShape
<1> HIDE DEF n, r
<1>2. \A i \in 1 .. n - 1 : i + 1 \in 1 .. n /\ i + 1 # 1
  BY <1>1
<1>3. \A i, k \in 1 .. n - 1 : i # k => i + 1 # k + 1
  BY <1>1
<1>4. 1 \in 1 .. n
  BY <1>1
<1>5. Spread(r)
  BY <1>1, <1>2, <1>3 DEF Spread
<1>6. \A i \in DOMAIN r : Apart(r[i], q[1])
  BY <1>1, <1>2, <1>4 DEF Spread
<1>7. QED
  BY <1>1, <1>5, <1>6 DEF r

LEMMA BesideAppend ==
    ASSUME NEW q \in Seq(Chunks), NEW r \in Seq(Chunks), NEW c \in Chunks, Beside(q, r)
    PROVE  /\ (\A k \in DOMAIN r : Apart(r[k], c)) => Beside(Append(q, c), r)
           /\ (\A i \in DOMAIN q : Apart(q[i], c)) => Beside(q, Append(r, c))
<1>1. ASSUME NEW s \in Seq(Chunks)
      PROVE  \A i \in DOMAIN Append(s, c) :
                (i \in DOMAIN s /\ Append(s, c)[i] = s[i]) \/ Append(s, c)[i] = c
  <2>1. /\ Len(s) \in Nat /\ DOMAIN s = 1 .. Len(s) /\ DOMAIN Append(s, c) = 1 .. Len(s) + 1
        /\ Append(s, c)[Len(s) + 1] = c
        /\ \A i \in 1 .. Len(s) : Append(s, c)[i] = s[i]
    BY AppendShape
  <2>2. \A i \in 1 .. Len(s) + 1 : i \in 1 .. Len(s) \/ i = Len(s) + 1
    BY <2>1
  <2>3. QED
    BY <2>1, <2>2
<1>2. ASSUME \A k \in DOMAIN r : Apart(r[k], c) PROVE Beside(Append(q, c), r)
  BY <1>1, <1>2 DEF Beside, Apart
<1>3. ASSUME \A i \in DOMAIN q : Apart(q[i], c) PROVE Beside(q, Append(r, c))
  BY <1>1, <1>3 DEF Beside, Apart
<1>4. QED
  BY <1>2, <1>3

LEMMA BesideTail ==
    ASSUME NEW q \in Seq(Chunks), NEW r \in Seq(Chunks), Beside(q, r)
    PROVE  /\ q # <<>> => Beside(Tail(q), r) /\ \A k \in DOMAIN r : Apart(r[k], Head(q))
           /\ r # <<>> => Beside(q, Tail(r)) /\ \A i \in DOMAIN q : Apart(q[i], Head(r))
<1>1. ASSUME NEW s \in Seq(Chunks), s # <<>>
      PROVE  /\ \A i \in DOMAIN Tail(s) : i + 1 \in DOMAIN s /\ Tail(s)[i] = s[i + 1]
             /\ 1 \in DOMAIN s /\ Head(s) = s[1]
  BY <1>1, TailShape
<1>2. ASSUME q # <<>> PROVE Beside(Tail(q), r) /\ \A k \in DOMAIN r : Apart(r[k], Head(q))
  BY <1>1, <1>2 DEF Beside, Apart
<1>3. ASSUME r # <<>> PROVE Beside(q, Tail(r)) /\ \A i \in DOMAIN q : Apart(q[i], Head(r))
  BY <1>1, <1>3 DEF Beside
<1>4. QED
  BY <1>2, <1>3

-----------------------------------------------------------------------------
(* What the steps do to the chunks. *)

LEMMA LiveOnce ==
    ASSUME KeptInv, upload = "live", Receiving
    PROVE  Once /\ Whole /\ outcome # "complete"
  BY DEF KeptInv, HoldInv, EndingInv, Receiving

LEMMA NewChunk ==
    ASSUME KeptInv, NEW c \in [from : {read}, to : read + 1 .. sent]
    PROVE  /\ c \in Chunks /\ c.from = read /\ c.to \in Nat /\ read \in Nat /\ read < c.to
           /\ Size(c) = c.to - read
           /\ \A i \in DOMAIN channel : Apart(channel[i], c)
           /\ \A i \in DOMAIN overflow : Apart(overflow[i], c)
<1>1. c \in Chunks /\ c.from = read /\ c.to \in read + 1 .. sent
  BY ChunkOfTheBody DEF KeptInv
<1>2. read \in Nat /\ sent \in Nat
  BY BodyAssumption DEF KeptInv, Amounts
<1>3. c.to \in Nat /\ read < c.to
  BY <1>1, <1>2
<1>4. Within(channel, read) /\ Within(overflow, read)
  BY DEF KeptInv, TakenInv
<1>5. QED
  BY <1>1, <1>2, <1>3, <1>4 DEF Within, Apart, Size

LEMMA TypesHold ==
    ASSUME KeptInv
    PROVE  /\ channel \in Seq(Chunks) /\ overflow \in Seq(Chunks) /\ got \in Seq(1 .. BodyBytes)
           /\ read \in Nat /\ sent \in Nat /\ read <= sent /\ Len(got) \in Nat
           /\ BodyLen(channel) \in Nat /\ BodyLen(overflow) \in Nat
<1>1. channel \in Seq(Chunks) /\ overflow \in Seq(Chunks) /\ got \in Seq(1 .. BodyBytes)
  BY DEF KeptInv, Pieces
<1>2. read \in Nat /\ sent \in Nat /\ read <= sent
  BY BodyAssumption DEF KeptInv, Amounts
<1>3. BodyLen(channel) \in Nat /\ BodyLen(overflow) \in Nat
  BY <1>1, BytesFinite
<1>4. QED
  BY <1>1, <1>2, <1>3, LenProperties

(* A chunk is taken off the stream. *)
LEMMA ReadIn ==
    ASSUME KeptInv, NEW c \in [from : {read}, to : read + 1 .. sent], read' = c.to, got' = got,
           \/ channel' = Append(channel, c) /\ overflow' = overflow
           \/ overflow' = Append(overflow, c) /\ channel' = channel
    PROVE  TakenInv' /\ (Once => Once') /\ (Whole => Whole')
<1>1. /\ c \in Chunks /\ c.from = read /\ c.to \in Nat /\ read \in Nat /\ read < c.to
      /\ Size(c) = c.to - read
      /\ \A i \in DOMAIN channel : Apart(channel[i], c)
      /\ \A i \in DOMAIN overflow : Apart(overflow[i], c)
  BY NewChunk
<1>2. /\ channel \in Seq(Chunks) /\ overflow \in Seq(Chunks) /\ Len(got) \in Nat
      /\ BodyLen(channel) \in Nat /\ BodyLen(overflow) \in Nat
  BY TypesHold
<1>3. Within(channel, read) /\ Within(overflow, read) /\ ToSet(got) \subseteq 1 .. read
  BY DEF KeptInv, TakenInv
<1>4. read <= c.to
  BY <1>1
<1>5. TakenInv'
  <2>1. Within(channel, c.to) /\ Within(overflow, c.to)
    BY <1>1, <1>2, <1>3, <1>4, WithinMore
  <2>2. Within(Append(channel, c), c.to) /\ Within(Append(overflow, c), c.to)
    <3>1. c.from < c.to /\ c.to <= c.to
      BY <1>1
    <3>2. QED
      BY <1>1, <1>2, <1>3, <1>4, <3>1, WithinAppend
  <2>3. ToSet(got) \subseteq 1 .. c.to
    BY <1>1, <1>3
  <2>4. QED
    BY <2>1, <2>2, <2>3 DEF TakenInv, Within
<1>6. ASSUME NEW b PROVE Has(channel, b)' \/ Has(overflow, b)' <=>
            Has(channel, b) \/ Has(overflow, b) \/ (read < b /\ b <= c.to)
  <2>1. Has(channel', b) \/ Has(overflow', b) <=>
            Has(channel, b) \/ Has(overflow, b) \/ (read < b /\ b <= c.to)
    <3>1. /\ Has(Append(channel, c), b) <=> Has(channel, b) \/ (read < b /\ b <= c.to)
          /\ Has(Append(overflow, c), b) <=> Has(overflow, b) \/ (read < b /\ b <= c.to)
      BY <1>1, <1>2, HasAppend
    <3>2. CASE channel' = Append(channel, c) /\ overflow' = overflow
      BY <3>1, <3>2
    <3>3. CASE overflow' = Append(overflow, c) /\ channel' = channel
      BY <3>1, <3>3
    <3>4. QED
      BY <3>2, <3>3
  <2>2. QED
    BY <2>1 DEF Has
<1>7. ASSUME Once PROVE Once'
  <2>1. Len(got) + BodyLen(channel') + BodyLen(overflow') = c.to
    <3>1. c.from <= c.to
      BY <1>1
    <3>2. /\ BodyLen(Append(channel, c)) = BodyLen(channel) + Size(c)
          /\ BodyLen(Append(overflow, c)) = BodyLen(overflow) + Size(c)
      BY <1>1, <1>2, <3>1, LenOfAppend
    <3>3. \/ BodyLen(channel') = BodyLen(channel) + Size(c) /\ BodyLen(overflow') = BodyLen(overflow)
          \/ BodyLen(overflow') = BodyLen(overflow) + Size(c) /\ BodyLen(channel') = BodyLen(channel)
      BY <3>2
    <3>4. Len(got) + BodyLen(channel) + BodyLen(overflow) = read
      BY <1>7 DEF Once
    <3>5. QED
      BY <1>1, <1>2, <3>3, <3>4
  <2>2. Spread(channel') /\ Spread(overflow')
    BY <1>1, <1>2, <1>7, SpreadAppend DEF Once
  <2>3. Beside(channel', overflow')
    BY <1>1, <1>2, <1>7, BesideAppend DEF Once
  <2>4. \A b \in ToSet(got) : ~Has(channel, b)' /\ ~Has(overflow, b)'
    <3> SUFFICES ASSUME NEW b \in ToSet(got) PROVE ~(Has(channel, b)' \/ Has(overflow, b)')
      OBVIOUS
    <3>1. ~Has(channel, b) /\ ~Has(overflow, b)
      BY <1>7 DEF Once
    <3>2. ~(read < b)
      BY <1>1, <1>3
    <3>3. QED
      BY <1>6, <3>1, <3>2
  <2>5. QED
    BY <2>1, <2>2, <2>3, <2>4 DEF Once, Spread, Beside, BodyLen, BytesOf
<1>8. ASSUME Whole PROVE Whole'
  <2> SUFFICES ASSUME NEW b \in 1 .. c.to
               PROVE  b \in ToSet(got) \/ Has(channel, b)' \/ Has(overflow, b)'
    BY DEF Whole
  <2>1. CASE b <= read
    <3>1. b \in 1 .. read
      BY <1>1, <2>1
    <3>2. b \in ToSet(got) \/ Has(channel, b) \/ Has(overflow, b)
      BY <1>8, <3>1 DEF Whole
    <3>3. QED
      BY <1>6, <3>2
  <2>2. CASE read < b
    BY <1>6, <2>2
  <2>3. QED
    BY <1>1, <2>1, <2>2
<1>9. QED
  BY <1>5, <1>7, <1>8

(* The oldest parked chunk goes down the channel. *)
LEMMA MovesOn ==
    ASSUME KeptInv, overflow # <<>>, channel' = Append(channel, Head(overflow)),
           overflow' = Tail(overflow), UNCHANGED <<read, got>>
    PROVE  TakenInv' /\ (Once => Once') /\ (Whole => Whole')
<1> DEFINE c == Head(overflow)
<1>1. /\ channel \in Seq(Chunks) /\ overflow \in Seq(Chunks) /\ Len(got) \in Nat /\ read \in Nat
      /\ BodyLen(channel) \in Nat /\ BodyLen(overflow) \in Nat
  BY TypesHold
<1>2. c \in Chunks /\ Tail(overflow) \in Seq(Chunks)
  BY <1>1, TailShape
<1>3. Within(channel, read) /\ Within(overflow, read) /\ ToSet(got) \subseteq 1 .. read
  BY DEF KeptInv, TakenInv
<1>4. Within(Tail(overflow), read) /\ c.from < c.to /\ c.to <= read
  BY <1>1, <1>3, WithinTail
<1>5. c.from \in Nat /\ c.to \in Nat /\ c.from <= c.to
  BY <1>2, <1>4, ChunkBounds
<1> HIDE DEF c
<1>6. TakenInv'
  <2>1. Within(Append(channel, c), read)
    <3>1. read <= read
      BY <1>1
    <3>2. QED
      BY <1>1, <1>2, <1>3, <1>4, <3>1, WithinAppend
  <2>2. QED
    BY <1>3, <1>4, <2>1 DEF TakenInv, Within, c
<1>7. ASSUME NEW b PROVE Has(channel, b)' \/ Has(overflow, b)' <=> Has(channel, b) \/ Has(overflow, b)
  <2>1. Has(Append(channel, c), b) <=> Has(channel, b) \/ (c.from < b /\ b <= c.to)
    BY <1>1, <1>2, HasAppend
  <2>2. Has(overflow, b) <=> Has(Tail(overflow), b) \/ (c.from < b /\ b <= c.to)
    BY <1>1, HasTail DEF c
  <2>3. Has(channel', b) \/ Has(overflow', b) <=> Has(channel, b) \/ Has(overflow, b)
    BY <2>1, <2>2 DEF c
  <2>4. QED
    BY <2>3 DEF Has
<1>8. ASSUME Once PROVE Once'
  <2>1. Len(got) + BodyLen(channel') + BodyLen(overflow') = read
    <3>1. BodyLen(Append(channel, c)) = BodyLen(channel) + Size(c)
      BY <1>1, <1>2, <1>5, LenOfAppend
    <3>2. BodyLen(Tail(overflow)) = BodyLen(overflow) - Size(c)
      BY <1>1, <1>5, LenOfTail DEF c
    <3>3. Size(c) \in Int
      BY <1>5 DEF Size
    <3>4. Len(got) + BodyLen(channel) + BodyLen(overflow) = read
      BY <1>8 DEF Once
    <3>5. BodyLen(channel') = BodyLen(channel) + Size(c) /\ BodyLen(overflow') = BodyLen(overflow) - Size(c)
      BY <3>1, <3>2 DEF c
    <3>6. QED
      BY <1>1, <3>3, <3>4, <3>5
  <2>2. Spread(Tail(overflow)) /\ \A i \in DOMAIN Tail(overflow) : Apart(Tail(overflow)[i], c)
    BY <1>1, <1>8, SpreadTail DEF Once, c
  <2>3. Beside(channel, Tail(overflow)) /\ \A i \in DOMAIN channel : Apart(channel[i], c)
    BY <1>1, <1>8, BesideTail DEF Once, c
  <2>4. Spread(Append(channel, c))
    BY <1>1, <1>2, <1>8, <2>3, SpreadAppend DEF Once
  <2>5. Beside(Append(channel, c), Tail(overflow))
    BY <1>1, <1>2, <2>2, <2>3, BesideAppend
  <2>6. \A b \in ToSet(got) : ~Has(channel, b)' /\ ~Has(overflow, b)'
    BY <1>7, <1>8 DEF Once
  <2>7. QED
    BY <2>1, <2>2, <2>4, <2>5, <2>6 DEF Once, Spread, Beside, BodyLen, BytesOf, c
<1>9. ASSUME Whole PROVE Whole'
  BY <1>7, <1>9 DEF Whole
<1>10. QED
  BY <1>6, <1>8, <1>9

(* The bytes of a chunk follow those the worker has. *)
LEMMA GotMore ==
    ASSUME NEW s \in Seq(1 .. BodyBytes), NEW c \in Chunks, c.from <= c.to
    PROVE  LET r == s \o [i \in 1 .. Size(c) |-> c.from + i] IN
            /\ Len(s) \in Nat /\ Len(r) = Len(s) + Size(c)
            /\ ToSet(r) = ToSet(s) \cup (c.from + 1 .. c.to)
<1> DEFINE k == Size(c)
           t == [i \in 1 .. k |-> c.from + i]
           r == s \o t
<1>1. c.from \in Nat /\ c.to \in Nat /\ k \in Nat /\ k = c.to - c.from
  BY ChunkBounds DEF Size
<1>2. t \in Seq(1 .. BodyBytes)
  BY BytesOfAChunk
<1> HIDE DEF k
<1>3. Len(t) = k /\ DOMAIN t = 1 .. k /\ \A i \in 1 .. k : t[i] = c.from + i
  <2>1. DOMAIN t = 1 .. k /\ \A i \in 1 .. k : t[i] = c.from + i
    OBVIOUS
  <2> HIDE DEF t
  <2>2. QED
    BY <1>1, <1>2, <2>1, LenProperties
<1> HIDE DEF t
<1>4. /\ r \in Seq(1 .. BodyBytes) /\ Len(r) = Len(s) + Len(t)
      /\ \A i \in 1 .. Len(s) + Len(t) : r[i] = IF i <= Len(s) THEN s[i] ELSE t[i - Len(s)]
  BY <1>2, ConcatProperties
<1>5. Len(s) \in Nat /\ DOMAIN s = 1 .. Len(s) /\ DOMAIN r = 1 .. Len(s) + k
  BY <1>3, <1>4, LenProperties
<1> HIDE DEF r
<1>6. \A x \in ToSet(r) : x \in ToSet(s) \cup (c.from + 1 .. c.to)
  <2> SUFFICES ASSUME NEW i \in 1 .. Len(s) + k PROVE r[i] \in ToSet(s) \cup (c.from + 1 .. c.to)
    BY <1>5 DEF ToSet
  <2>1. CASE i <= Len(s)
    <3>1. i \in 1 .. Len(s) /\ r[i] = s[i]
      BY <1>1, <1>3, <1>4, <1>5, <2>1
    <3>2. QED
      BY <1>5, <3>1 DEF ToSet
  <2>2. CASE Len(s) < i
    <3>1. i - Len(s) \in 1 .. k /\ r[i] = t[i - Len(s)]
      BY <1>1, <1>3, <1>4, <1>5, <2>2
    <3>2. r[i] = c.from + (i - Len(s))
      BY <1>3, <3>1
    <3>3. QED
      BY <1>1, <1>5, <3>1, <3>2
  <2>3. i <= Len(s) \/ Len(s) < i
    BY <1>1, <1>5
  <2>4. QED
    BY <2>1, <2>2, <2>3
<1>7. \A x \in ToSet(s) : x \in ToSet(r)
  <2> SUFFICES ASSUME NEW i \in 1 .. Len(s) PROVE s[i] \in ToSet(r)
    BY <1>5 DEF ToSet
  <2>1. i \in 1 .. Len(s) + k /\ r[i] = s[i]
    BY <1>1, <1>3, <1>4, <1>5
  <2>2. QED
    BY <1>5, <2>1 DEF ToSet
<1>8. \A x \in c.from + 1 .. c.to : x \in ToSet(r)
  <2> SUFFICES ASSUME NEW x \in c.from + 1 .. c.to PROVE x \in ToSet(r)
    OBVIOUS
  <2>1. PICK i \in 1 .. k : x = c.from + i
    <3>1. x - c.from \in 1 .. k /\ x = c.from + (x - c.from)
      BY <1>1
    <3>2. QED
      BY <3>1
  <2>2. /\ Len(s) + i \in 1 .. Len(s) + k /\ ~(Len(s) + i <= Len(s)) /\ (Len(s) + i) - Len(s) = i
    BY <1>1, <1>5
  <2>3. r[Len(s) + i] = t[i]
    BY <1>3, <1>4, <2>2
  <2>4. r[Len(s) + i] = x
    BY <1>3, <2>1, <2>3
  <2>5. QED
    BY <1>5, <2>2, <2>4 DEF ToSet
<1>9. ToSet(r) = ToSet(s) \cup (c.from + 1 .. c.to)
  BY <1>6, <1>7, <1>8
<1>10. QED
  BY <1>3, <1>4, <1>5, <1>9 DEF r, t, k

(* The worker reads the oldest chunk of the channel. *)
LEMMA Consumed ==
    ASSUME KeptInv, channel # <<>>, channel' = Tail(channel), UNCHANGED <<read, overflow>>,
           got' = got \o [i \in 1 .. Size(Head(channel)) |-> Head(channel).from + i]
    PROVE  TakenInv' /\ (Once => Once') /\ (Whole => Whole')
<1> DEFINE c == Head(channel)
<1>1. /\ channel \in Seq(Chunks) /\ overflow \in Seq(Chunks) /\ got \in Seq(1 .. BodyBytes)
      /\ Len(got) \in Nat /\ read \in Nat
      /\ BodyLen(channel) \in Nat /\ BodyLen(overflow) \in Nat
  BY TypesHold
<1>2. c \in Chunks
  BY <1>1, TailShape
<1>3. Within(channel, read) /\ Within(overflow, read) /\ ToSet(got) \subseteq 1 .. read
  BY DEF KeptInv, TakenInv
<1>4. Within(Tail(channel), read) /\ c.from < c.to /\ c.to <= read
  BY <1>1, <1>3, WithinTail
<1>5. c.from \in Nat /\ c.to \in Nat /\ c.from <= c.to
  BY <1>2, <1>4, ChunkBounds
<1>6. Len(got') = Len(got) + Size(c) /\ ToSet(got') = ToSet(got) \cup (c.from + 1 .. c.to)
  BY <1>1, <1>2, <1>5, GotMore
<1>7. \A b : Has(channel, b) <=> Has(Tail(channel), b) \/ (c.from < b /\ b <= c.to)
  BY <1>1, HasTail
<1>8. /\ \A b : Has(channel, b)' <=> Has(Tail(channel), b)
      /\ \A b : Has(overflow, b)' <=> Has(overflow, b)
      /\ ToSet(got)' = ToSet(got')
  BY DEF Has, ToSet
<1> HIDE DEF c
<1>9. TakenInv'
  <2>1. ToSet(got') \subseteq 1 .. read
    BY <1>1, <1>3, <1>4, <1>5, <1>6
  <2>2. QED
    BY <1>3, <1>4, <1>8, <2>1 DEF TakenInv, Within
<1>10. ASSUME Once PROVE Once'
  <2>1. Len(got') + BodyLen(Tail(channel)) + BodyLen(overflow) = read
    <3>1. BodyLen(Tail(channel)) = BodyLen(channel) - Size(c)
      BY <1>1, <1>5, LenOfTail DEF c
    <3>2. Len(got) + BodyLen(channel) + BodyLen(overflow) = read
      BY <1>10 DEF Once
    <3>3. Size(c) \in Int
      BY <1>5 DEF Size
    <3>4. PICK x, y, z, k \in Int :
            x = Len(got) /\ y = BodyLen(channel) /\ z = BodyLen(overflow) /\ k = Size(c)
      BY <1>1, <3>3
    <3>5. Len(got') = x + k /\ BodyLen(Tail(channel)) = y - k /\ x + y + z = read
      BY <1>6, <3>1, <3>2, <3>4
    <3>6. Len(got') + BodyLen(Tail(channel)) + BodyLen(overflow) = (x + k) + (y - k) + z
      BY <3>4, <3>5
    <3>7. \A x1, y1, z1, k1 \in Int : (x1 + k1) + (y1 - k1) + z1 = x1 + y1 + z1
      OBVIOUS
    <3>8. (x + k) + (y - k) + z = read
      BY <3>5, <3>7
    <3>9. QED
      BY <3>6, <3>8
  <2>2. Spread(Tail(channel)) /\ \A i \in DOMAIN Tail(channel) : Apart(Tail(channel)[i], c)
    BY <1>1, <1>10, SpreadTail DEF Once, c
  <2>3. Beside(Tail(channel), overflow) /\ \A i \in DOMAIN overflow : Apart(overflow[i], c)
    BY <1>1, <1>10, BesideTail DEF Once, c
  <2>4. ASSUME NEW b \in c.from + 1 .. c.to, NEW q \in Seq(Chunks), Has(q, b),
               \A i \in DOMAIN q : Apart(q[i], c)
        PROVE  FALSE
    <3>1. PICK i \in DOMAIN q : q[i].from < b /\ b <= q[i].to
      BY <2>4 DEF Has
    <3>2. q[i] \in Chunks
      OBVIOUS
    <3>3. q[i].from \in Nat /\ q[i].to \in Nat
      BY <3>2, ChunkBounds
    <3>4. q[i].to <= c.from \/ c.to <= q[i].from
      BY <2>4 DEF Apart
    <3>5. c.from < b /\ b <= c.to /\ b \in Int
      BY <1>5, <2>4
    <3>6. ~(q[i].to <= c.from) /\ ~(c.to <= q[i].from)
      BY <1>5, <3>1, <3>3, <3>5
    <3>7. QED
      BY <3>4, <3>6
  <2>5. Tail(channel) \in Seq(Chunks)
    BY <1>1, TailShape
  <2>6. \A b \in ToSet(got') : ~Has(Tail(channel), b) /\ ~Has(overflow, b)
    <3> SUFFICES ASSUME NEW b \in ToSet(got') PROVE ~Has(Tail(channel), b) /\ ~Has(overflow, b)
      OBVIOUS
    <3>1. CASE b \in ToSet(got)
      BY <1>7, <1>10, <3>1 DEF Once
    <3>2. CASE b \in c.from + 1 .. c.to
      BY <1>1, <2>2, <2>3, <2>4, <2>5, <3>2
    <3>3. QED
      BY <1>6, <3>1, <3>2
  <2>7. Spread(overflow)
    BY <1>10 DEF Once
  <2>8. QED
    BY <1>8, <2>1, <2>2, <2>3, <2>6, <2>7 DEF Once, Spread, Beside, BodyLen, BytesOf
<1>11. ASSUME Whole PROVE Whole'
  <2> SUFFICES ASSUME NEW b \in 1 .. read
               PROVE  b \in ToSet(got') \/ Has(Tail(channel), b) \/ Has(overflow, b)
    BY <1>8 DEF Whole
  <2>1. b \in ToSet(got) \/ Has(channel, b) \/ Has(overflow, b)
    BY <1>11 DEF Whole
  <2>2. CASE c.from < b /\ b <= c.to
    <3>1. b \in c.from + 1 .. c.to
      BY <1>5, <2>2
    <3>2. QED
      BY <1>6, <3>1
  <2>3. QED
    BY <1>6, <1>7, <2>1, <2>2
<1>12. QED
  BY <1>9, <1>10, <1>11

-----------------------------------------------------------------------------
LEMMA PhaseKept ==
    ASSUME KeptInv, [Next]_vars
    PROVE  PhaseInv'
<1> USE DEF streamVars, loopVars, workerVars
<1>1. PhaseInv /\ EndingInv /\ Amounts
  BY DEF KeptInv
<1>2. CASE ClientSteps \/ WakeUp \/ TimesOut \/ TcpClient \/ UNCHANGED vars
  BY <1>1, <1>2 DEF PhaseInv, EndingInv, TcpPhases, ClientSteps, ClientSends, ClientEnds, ClientCloses, WakeUp,
     TimesOut, DropClient, TcpClient, vars
<1>3. CASE FinishedEvent \/ ResetEvent \/ SenderDropped \/ BeginPump \/ ParkedStays \/ ParkedUnwanted
           \/ ReadFails \/ ReadStops \/ BodyEnds \/ ReadUnwanted
  BY <1>1, <1>3 DEF PhaseInv, FinishedEvent, ResetEvent, SenderDropped, BeginPump, ParkedStays, ParkedUnwanted,
     ReadFails, ReadStops, BodyEnds, ReadUnwanted, DropUpload
<1>4. CASE MoveParked \/ ReadToChannel \/ ReadToOverflow
  BY <1>1, <1>4 DEF PhaseInv, MoveParked, ReadToChannel, ReadToOverflow
<1>5. CASE Frame
  <2>1. PICK c \in [from : {read}, to : read + 1 .. sent] : overflow' = <<c>>
    BY <1>5 DEF Frame
  <2>2. c \in Chunks
    BY <1>1, ChunkOfTheBody
  <2>3. QED
    BY <1>1, <1>5, <2>1, <2>2 DEF PhaseInv, Frame
<1>6. CASE FrameFails \/ SendFrame \/ TaskEnds
  BY <1>1, <1>6 DEF PhaseInv, FrameFails, SendFrame, TaskEnds
<1>7. CASE WorkerSteps \/ StopReading
  <2>1. UNCHANGED <<phase, upload, conn, overflow, ending, finished>>
    BY <1>7 DEF WorkerSteps, StopReading, TakeBody, ReadChunk, ReadEnd
  <2>2. QED
    BY <1>1, <2>1 DEF PhaseInv
<1>8. QED
  BY <1>2, <1>3, <1>4, <1>5, <1>6, <1>7 DEF Next, LoopSteps, TaskSteps

(* A step that leaves the chunks where they are, and the entry and the worker
   too unless one of them comes to its end. *)
Elsewhere ==
    /\ UNCHANGED <<read, overflow, channel, got>>
    /\ upload' = "live" => upload = "live"
    /\ Receiving' => Receiving
    /\ outcome' = outcome

(* One that takes, moves or reads a chunk. *)
Steady == UNCHANGED <<upload, reader, outcome, conn, ending, sent>>

LEMMA SameChunks ==
    ASSUME UNCHANGED <<read, overflow, channel, got>>
    PROVE  /\ TakenInv' <=> TakenInv
           /\ Once' <=> Once
           /\ Whole' <=> Whole
           /\ ToSet(got)' = ToSet(got)
  BY DEF TakenInv, Within, Once, Whole, Has, Spread, Beside, BodyLen, BytesOf, ToSet

(* Neither end lives any more, or the connection does not: nothing is asked
   of the chunks, which may only go. *)
LEMMA FewerChunks ==
    ASSUME KeptInv, channel' \in {channel, <<>>}, overflow' \in {overflow, <<>>}, got' = got,
           read' \in Nat, read <= read'
    PROVE  TakenInv'
<1>1. channel \in Seq(Chunks) /\ overflow \in Seq(Chunks) /\ read \in Nat
  BY TypesHold
<1>2. Within(channel, read) /\ Within(overflow, read) /\ ToSet(got) \subseteq 1 .. read
  BY DEF KeptInv, TakenInv
<1>3. Within(channel, read') /\ Within(overflow, read') /\ Within(<<>>, read')
  <2>1. Within(<<>>, read')
    BY DEF Within
  <2>2. PICK n \in Nat : n = read'
    OBVIOUS
  <2>3. Within(channel, n) /\ Within(overflow, n)
    BY <1>1, <1>2, <2>2, WithinMore
  <2>4. QED
    BY <2>1, <2>2, <2>3
<1>4. Within(channel', read') /\ Within(overflow', read')
  BY <1>3
<1>5. ToSet(got) \subseteq 1 .. read'
  BY <1>1, <1>2
<1>6. QED
  BY <1>4, <1>5 DEF TakenInv, Within, ToSet

LEMMA SteadyHolds ==
    ASSUME KeptInv, Steady, Once => Once', Whole => Whole',
           upload = "live" \/ (reader # "done" /\ read' = read)
    PROVE  HoldInv'
<1>1. HoldInv /\ EndingInv
  BY DEF KeptInv
<1>2. outcome # "complete"
  BY <1>1 DEF EndingInv
<1>3. /\ upload' = upload /\ outcome' = outcome /\ conn' = conn /\ ending' = ending /\ sent' = sent
      /\ Receiving' = Receiving
  BY DEF Steady, Receiving
<1>4. QED
  BY <1>1, <1>2, <1>3 DEF HoldInv

LEMMA ElsewhereHolds ==
    ASSUME KeptInv, Elsewhere, conn' => conn,
           conn' /\ upload' = "gone" /\ Receiving' =>
                \/ upload = "gone" /\ UNCHANGED <<ending, sent>>
                \/ ending' = "reset"
                \/ upload = "live" /\ ending' = "fin" /\ read = sent /\ sent' = sent,
           conn' /\ outcome = "complete" => UNCHANGED <<ending, sent>>
    PROVE  HoldInv'
<1>1. HoldInv
  BY DEF KeptInv
<1>2. /\ Once' <=> Once
      /\ Whole' <=> Whole
      /\ ToSet(got)' = ToSet(got)
  BY SameChunks DEF Elsewhere
<1>3. upload' = "live" /\ Receiving' => Once' /\ Whole'
  BY <1>1, <1>2 DEF HoldInv, Elsewhere
<1>4. ASSUME upload' = "gone", conn', Receiving'
      PROVE  ending' = "reset" \/ (ending' = "fin" /\ read' = sent' /\ Whole')
  BY <1>1, <1>2, <1>4 DEF HoldInv, Elsewhere
<1>5. outcome' = "complete" /\ conn' =>
        ending' = "reset" \/ (ending' = "fin" /\ ToSet(got)' = 1 .. sent')
  BY <1>1, <1>2 DEF HoldInv, Elsewhere
<1>6. QED
  BY <1>3, <1>4, <1>5 DEF HoldInv

LEMMA GoneHolds ==
    ASSUME KeptInv, upload' = "gone", UNCHANGED <<reader, outcome, got, channel, ending>>,
           overflow' \in {overflow, <<>>}, read' \in Nat, read <= read',
           \/ ~conn'
           \/ conn' = conn /\ ending = "reset"
           \/ conn' = conn /\ ~Receiving /\ upload = "live"
    PROVE  TakenInv' /\ HoldInv'
<1>1. TakenInv'
  BY FewerChunks
<1>2. HoldInv /\ EndingInv
  BY DEF KeptInv
<1>3. Receiving' = Receiving
  BY DEF Receiving
<1>4. HoldInv'
  BY <1>2, <1>3 DEF HoldInv, EndingInv
<1>5. QED
  BY <1>1, <1>4

LEMMA FinishHolds ==
    ASSUME KeptInv, reader' = "done", channel' = <<>>,
           UNCHANGED <<read, sent, overflow, got, upload, conn, ending>>,
           outcome' # "complete" \/ (upload = "gone" /\ Receiving /\ channel = <<>>)
    PROVE  TakenInv' /\ HoldInv'
<1>1. /\ got \in Seq(1 .. BodyBytes) /\ read \in Nat /\ read <= read
  BY TypesHold
<1>2. TakenInv'
  BY <1>1, FewerChunks
<1>3. ~Receiving' /\ ToSet(got)' = ToSet(got)
  BY DEF Receiving, ToSet
<1>4. ASSUME outcome' = "complete", conn
      PROVE  ending = "reset" \/ (ending = "fin" /\ ToSet(got) = 1 .. sent)
  <2>1. channel = <<>> /\ overflow = <<>>
    BY <1>4 DEF KeptInv, PhaseInv
  <2>2. ending = "reset" \/ (ending = "fin" /\ read = sent /\ Whole)
    BY <1>4 DEF KeptInv, HoldInv
  <2>3. ASSUME Whole PROVE ToSet(got) = 1 .. read
    <3>1. \A b : ~Has(channel, b) /\ ~Has(overflow, b)
      BY <2>1 DEF Has
    <3>2. \A b \in 1 .. read : b \in ToSet(got)
      BY <2>3, <3>1 DEF Whole
    <3>3. QED
      BY <3>2 DEF KeptInv, TakenInv
  <2>4. QED
    BY <2>2, <2>3
<1>5. HoldInv'
  BY <1>3, <1>4 DEF HoldInv
<1>6. QED
  BY <1>2, <1>5

LEMMA OneConcat ==
    ASSUME NEW q \in Seq(Chunks), NEW c \in Chunks
    PROVE  /\ q \o <<c>> = Append(q, c) /\ <<c>> = Append(<<>>, c)
           /\ <<c>> # <<>> /\ Head(<<c>>) = c /\ Tail(<<c>>) = <<>>
  OBVIOUS

LEMMA OutsideHolds ==
    ASSUME KeptInv, ClientSteps \/ WakeUp \/ TimesOut \/ TcpClient
    PROVE  TakenInv' /\ HoldInv'
<1> USE DEF streamVars, loopVars, workerVars
<1>1. PhaseInv /\ HoldInv /\ TakenInv /\ EndingInv
  BY DEF KeptInv
<1>2. CASE ClientCloses \/ TimesOut
  <2>1. /\ upload' = "gone" /\ ~conn' /\ overflow' \in {overflow, <<>>}
        /\ UNCHANGED <<reader, outcome, got, channel, ending, read>>
    BY <1>2 DEF ClientCloses, TimesOut, DropClient
  <2>2. read' \in Nat /\ read <= read'
    BY <2>1, TypesHold
  <2>3. QED
    BY <2>1, <2>2, GoneHolds
<1>3. CASE ClientSends \/ ClientEnds \/ WakeUp \/ TcpClient
  <2>1. Elsewhere /\ conn' = conn /\ upload' = upload
    BY <1>3 DEF Elsewhere, ClientSends, ClientEnds, WakeUp, TcpClient, Receiving
  <2>2. ending # "open" => UNCHANGED <<ending, sent>>
    BY <1>3 DEF ClientSends, ClientEnds, WakeUp, TcpClient
  <2>3. /\ upload = "gone" /\ conn /\ Receiving => ending # "open"
        /\ conn /\ outcome = "complete" => ending # "open"
    BY <1>1 DEF HoldInv
  <2>4. HoldInv'
    BY <2>1, <2>2, <2>3, ElsewhereHolds DEF Elsewhere
  <2>5. TakenInv'
    BY <1>1, <2>1, SameChunks DEF Elsewhere
  <2>6. QED
    BY <2>4, <2>5
<1>4. QED
  BY <1>2, <1>3 DEF ClientSteps

LEMMA MarkingHolds ==
    ASSUME KeptInv, \/ FinishedEvent \/ ResetEvent \/ BeginPump \/ ParkedStays \/ ReadStops
                    \/ BodyEnds \/ FrameFails
    PROVE  TakenInv' /\ HoldInv'
<1> USE DEF streamVars, loopVars, workerVars
<1>1. PhaseInv /\ HoldInv /\ TakenInv /\ EndingInv
  BY DEF KeptInv
<1>2. Elsewhere /\ UNCHANGED <<conn, ending, sent>>
  BY <1>1 DEF Elsewhere, PhaseInv, FinishedEvent, ResetEvent, BeginPump, ParkedStays, ReadStops, BodyEnds, FrameFails,
     DropUpload, Receiving
<1>3. TakenInv'
  BY <1>1, <1>2, SameChunks DEF Elsewhere
<1>4. ASSUME upload' = "gone"
      PROVE  upload = "gone" \/ (upload = "live" /\ ending = "fin" /\ read = sent)
  BY <1>1, <1>4 DEF PhaseInv, FinishedEvent, ResetEvent, BeginPump, ParkedStays, ReadStops, BodyEnds, FrameFails
<1>5. HoldInv'
  BY <1>2, <1>4, ElsewhereHolds
<1>6. QED
  BY <1>3, <1>5

LEMMA DroppingHolds ==
    ASSUME KeptInv, SenderDropped \/ ParkedUnwanted \/ ReadUnwanted \/ ReadFails
    PROVE  TakenInv' /\ HoldInv'
<1> USE DEF streamVars, loopVars, workerVars
<1>1. PhaseInv /\ read \in Nat
  BY TypesHold DEF KeptInv
<1>2. /\ upload' = "gone" /\ overflow' = <<>> /\ conn' = conn
      /\ UNCHANGED <<reader, outcome, got, channel, ending>>
  BY DEF SenderDropped, ParkedUnwanted, ReadUnwanted, ReadFails, DropUpload
<1>3. ending = "reset" \/ (~Receiving /\ upload = "live")
  BY <1>1 DEF PhaseInv, SenderDropped, ParkedUnwanted, ReadUnwanted, ReadFails
<1>4. read' \in Nat /\ read <= read'
  <2>1. CASE ReadUnwanted
    <3>1. PICK c \in [from : {read}, to : read + 1 .. sent] : read' = c.to
      BY <2>1 DEF ReadUnwanted, NextChunk
    <3>2. QED
      BY <3>1, NewChunk
  <2>2. CASE SenderDropped \/ ParkedUnwanted \/ ReadFails
    <3>1. read' = read
      BY <2>2 DEF SenderDropped, ParkedUnwanted, ReadFails
    <3>2. QED
      BY <1>1, <3>1
  <2>3. QED
    BY <2>1, <2>2
<1>5. QED
  BY <1>2, <1>3, <1>4, GoneHolds

LEMMA TakingHolds ==
    ASSUME KeptInv, ReadToChannel \/ ReadToOverflow \/ Frame
    PROVE  TakenInv' /\ HoldInv'
<1> USE DEF streamVars, loopVars, workerVars
<1>1. PhaseInv
  BY DEF KeptInv
<1>2. Steady /\ upload = "live" /\ got' = got
  BY <1>1 DEF Steady, PhaseInv, ReadToChannel, ReadToOverflow, Frame
<1>3. PICK c \in [from : {read}, to : read + 1 .. sent] :
        /\ read' = c.to
        /\ \/ channel' = Append(channel, c) /\ overflow' = overflow
           \/ overflow' = Append(overflow, c) /\ channel' = channel
  <2>1. CASE ReadToChannel \/ ReadToOverflow
    BY <2>1 DEF ReadToChannel, ReadToOverflow, NextChunk
  <2>2. CASE Frame
    <3>1. PICK c \in [from : {read}, to : read + 1 .. sent] :
            read' = c.to /\ overflow' = <<c>> /\ channel' = channel
      BY <2>2 DEF Frame
    <3>2. overflow = <<>>
      BY <1>1, <2>2 DEF PhaseInv, Frame
    <3>3. overflow' = Append(overflow, c)
      BY <3>1, <3>2, NewChunk, OneConcat
    <3>4. QED
      BY <3>1, <3>3
  <2>3. QED
    BY <2>1, <2>2
<1>4. TakenInv' /\ (Once => Once') /\ (Whole => Whole')
  BY <1>2, <1>3, ReadIn
<1>5. QED
  BY <1>2, <1>4, SteadyHolds

LEMMA MovingHolds ==
    ASSUME KeptInv, MoveParked \/ SendFrame
    PROVE  TakenInv' /\ HoldInv'
<1> USE DEF streamVars, loopVars, workerVars
<1>1. PhaseInv /\ channel \in Seq(Chunks)
  BY TypesHold DEF KeptInv
<1>2. Steady /\ upload = "live" /\ UNCHANGED <<read, got>>
  BY <1>1 DEF Steady, PhaseInv, MoveParked, SendFrame
<1>3. overflow # <<>> /\ channel' = Append(channel, Head(overflow)) /\ overflow' = Tail(overflow)
  <2>1. CASE MoveParked
    BY <2>1 DEF MoveParked
  <2>2. CASE SendFrame
    <3>1. PICK c \in Chunks : overflow = <<c>>
      BY <1>1, <2>2 DEF PhaseInv, SendFrame
    <3>2. channel' = channel \o <<c>> /\ overflow' = <<>>
      BY <2>2, <3>1 DEF SendFrame
    <3>3. QED
      BY <1>1, <3>1, <3>2, OneConcat
  <2>3. QED
    BY <2>1, <2>2
<1>4. TakenInv' /\ (Once => Once') /\ (Whole => Whole')
  BY <1>2, <1>3, MovesOn
<1>5. QED
  BY <1>2, <1>4, SteadyHolds

LEMMA TaskEndHolds ==
    ASSUME KeptInv, TaskEnds
    PROVE  TakenInv' /\ HoldInv'
<1> USE DEF streamVars, loopVars, workerVars
<1>1. PhaseInv /\ HoldInv /\ TakenInv /\ read \in Nat
  BY TypesHold DEF KeptInv
<1>2. /\ upload' = "gone" /\ overflow' = <<>>
      /\ UNCHANGED <<conn, ending, sent, read, reader, outcome, got, channel>>
  BY DEF TaskEnds
<1>3. CASE phase = "frame" /\ upload = "live" /\ ending = "fin" /\ read = sent
  <2>1. Elsewhere
    BY <1>1, <1>2, <1>3 DEF Elsewhere, PhaseInv, Receiving
  <2>2. TakenInv'
    BY <1>1, <2>1, SameChunks DEF Elsewhere
  <2>3. HoldInv'
    BY <1>2, <1>3, <2>1, ElsewhereHolds
  <2>4. QED
    BY <2>2, <2>3
<1>4. CASE upload = "aborting" \/ (phase = "send" /\ ~Receiving)
  <2>1. ending = "reset" \/ (~Receiving /\ upload = "live")
    BY <1>1, <1>4 DEF PhaseInv
  <2>2. read' \in Nat /\ read <= read'
    BY <1>1, <1>2
  <2>3. QED
    BY <1>2, <2>1, <2>2, GoneHolds
<1>5. QED
  BY <1>3, <1>4 DEF TaskEnds

LEMMA WorkerHolds ==
    ASSUME KeptInv, WorkerSteps \/ StopReading
    PROVE  TakenInv' /\ HoldInv'
<1> USE DEF streamVars, loopVars, workerVars
<1>1. PhaseInv /\ HoldInv /\ TakenInv
  BY DEF KeptInv
<1>2. UNCHANGED <<conn, sent, ending, read, upload, overflow>>
  BY DEF WorkerSteps, TakeBody, ReadChunk, ReadEnd, StopReading
<1>3. CASE TakeBody
  <2>1. CASE reader' \in {"buffering", "streaming"} /\ UNCHANGED <<channel, outcome>>
    <3>1. Elsewhere
      BY <1>2, <1>3, <2>1 DEF Elsewhere, TakeBody, Receiving
    <3>2. TakenInv'
      BY <1>1, <3>1, SameChunks DEF Elsewhere
    <3>3. QED
      BY <1>2, <3>1, <3>2, ElsewhereHolds
  <2>2. CASE reader' = "done" /\ outcome' = "unwanted" /\ channel' = <<>>
    <3>1. got' = got
      BY <1>3 DEF TakeBody
    <3>2. QED
      BY <1>2, <2>2, <3>1, FinishHolds
  <2>3. QED
    BY <1>3, <2>1, <2>2 DEF TakeBody
<1>4. CASE ReadChunk
  <2>1. channel # <<>> /\ reader # "done"
    BY <1>4 DEF ReadChunk
  <2>2. CASE Finish("too large") /\ UNCHANGED got
    BY <1>2, <2>2, FinishHolds DEF Finish
  <2>3. CASE /\ channel' = Tail(channel)
             /\ got' = got \o [i \in 1 .. Size(Head(channel)) |-> Head(channel).from + i]
             /\ UNCHANGED <<reader, outcome>>
    <3>1. Steady
      BY <1>2, <2>3 DEF Steady
    <3>2. TakenInv' /\ (Once => Once') /\ (Whole => Whole')
      BY <1>2, <2>1, <2>3, Consumed
    <3>3. QED
      BY <1>2, <2>1, <3>1, <3>2, SteadyHolds
  <2>4. QED
    BY <1>4, <2>2, <2>3 DEF ReadChunk
<1>5. CASE ReadEnd
  <2>1. reader' = "done" /\ channel' = <<>> /\ got' = got
    BY <1>5 DEF ReadEnd, Finish
  <2>2. upload = "gone" /\ Receiving /\ channel = <<>>
    BY <1>5 DEF ReadEnd, Receiving
  <2>3. QED
    BY <1>2, <2>1, <2>2, FinishHolds
<1>6. CASE StopReading
  <2>1. reader' = "done" /\ channel' = <<>> /\ got' = got /\ outcome' = "unwanted"
    BY <1>6 DEF StopReading, Finish
  <2>2. QED
    BY <1>2, <2>1, FinishHolds
<1>7. QED
  BY <1>3, <1>4, <1>5, <1>6 DEF WorkerSteps

-----------------------------------------------------------------------------
(* What is parked. *)

LEMMA CapsArePositive == MaxRead \in Nat \ {0} /\ ParkCap \in Nat \ {0} /\ BodyBytes \in Nat
  BY UploadAssumption, BodyAssumption

(* A chunk is parked only while less than the cap is, and is no longer than
   the buffer it was read into. *)
LEMMA ParkMore ==
    ASSUME KeptInv, NEW c \in [from : {read}, to : read + 1 .. sent], Size(c) <= MaxRead,
           overflow' = Append(overflow, c), front' = front,
           \/ front = "h3" /\ HasRoom /\ parked' = parked + Size(c)
           \/ front # "h3" /\ overflow = <<>> /\ parked' = parked
    PROVE  ParkingIsBounded'
<1>1. c \in Chunks /\ Size(c) \in Int /\ c.from <= c.to
  <2>1. c \in Chunks /\ c.from = read /\ c.to \in Nat /\ read \in Nat /\ read < c.to
    BY NewChunk
  <2>2. QED
    BY <2>1 DEF Size
<1>2. BodyLen(Append(overflow, c)) = BodyLen(overflow) + Size(c)
  BY <1>1, TypesHold, LenOfAppend
<1>3. BodyLen(overflow)' = BodyLen(overflow) + Size(c)
  BY <1>2 DEF BodyLen, BytesOf
<1>4. PICK b \in Nat : b = BodyLen(overflow)
  BY TypesHold
<1>5. /\ parked = (IF front = "h3" THEN b ELSE 0)
      /\ overflow = <<>> => b = 0
  BY <1>4, LenOfNone DEF KeptInv, ParkingIsBounded
<1>6. /\ parked' = IF front' = "h3" THEN b + Size(c) ELSE 0
      /\ b + Size(c) < ParkCap + MaxRead
  BY <1>1, <1>5, CapsArePositive DEF HasRoom
<1>7. QED
  BY <1>3, <1>4, <1>6 DEF ParkingIsBounded

LEMMA ParkNone ==
    ASSUME overflow' = <<>>, parked' = 0
    PROVE  ParkingIsBounded'
<1>1. BodyLen(overflow)' = 0
  BY LenOfNone DEF BodyLen, BytesOf
<1>2. QED
  BY <1>1, CapsArePositive DEF ParkingIsBounded

LEMMA ParkSame ==
    ASSUME KeptInv, UNCHANGED <<front, overflow, parked>>
    PROVE  ParkingIsBounded'
<1>1. BodyLen(overflow)' = BodyLen(overflow)
  BY DEF BodyLen, BytesOf
<1>2. QED
  BY <1>1 DEF KeptInv, ParkingIsBounded

LEMMA ParkLess ==
    ASSUME KeptInv, MoveParked
    PROVE  ParkingIsBounded'
<1> DEFINE c == Head(overflow)
<1>1. /\ overflow \in Seq(Chunks) /\ overflow # <<>> /\ Within(overflow, read) /\ c \in Chunks
      /\ front = "h3" /\ front' = front
  <2>1. overflow \in Seq(Chunks) /\ overflow # <<>> /\ Within(overflow, read)
    BY TypesHold DEF MoveParked, KeptInv, TakenInv
  <2>2. front \in {"h3", "tcp"} /\ front # "tcp" /\ front' = front
    BY UploadAssumption DEF KeptInv, Marks, EndingInv, TcpPhases, MoveParked, streamVars
  <2>3. QED
    BY <2>1, <2>2, TailShape
<1>2. c.from < c.to /\ c.from \in Nat /\ c.to \in Nat
  BY <1>1, WithinTail, ChunkBounds
<1>3. c.from <= c.to
  BY <1>2
<1>4. BodyLen(Tail(overflow)) = BodyLen(overflow) - Size(c)
  BY <1>1, <1>3, LenOfTail
<1>5. overflow' = Tail(overflow) /\ parked' = parked - Size(c)
  BY DEF MoveParked
<1>6. BodyLen(overflow)' = BodyLen(overflow) - Size(c)
  BY <1>4, <1>5 DEF BodyLen, BytesOf
<1>7. PICK b \in Nat : b = BodyLen(overflow)
  BY TypesHold
<1>8. parked = b /\ b < ParkCap + MaxRead
  BY <1>1, <1>7 DEF KeptInv, ParkingIsBounded
<1>9. PICK n \in Nat : n = Size(c)
  BY <1>2 DEF Size
<1>10. parked' = b - n /\ b - n < ParkCap + MaxRead /\ BodyLen(overflow)' = b - n
  BY <1>5, <1>6, <1>7, <1>8, <1>9, CapsArePositive
<1>11. QED
  BY <1>1, <1>10 DEF ParkingIsBounded

LEMMA ParkKept ==
    ASSUME KeptInv, [Next]_vars
    PROVE  ParkingIsBounded'
<1> USE DEF streamVars, loopVars, workerVars
<1>1. CASE \/ ClientSends \/ ClientEnds \/ WakeUp \/ TcpClient \/ UNCHANGED vars
           \/ WorkerSteps \/ StopReading \/ FrameFails
  <2>1. UNCHANGED <<front, overflow, parked>>
    BY <1>1 DEF ClientSends, ClientEnds, WakeUp, TcpClient, vars, WorkerSteps, TakeBody, ReadChunk, ReadEnd,
       StopReading, FrameFails
  <2>2. QED
    BY <2>1, ParkSame
<1>2. CASE ReadToChannel \/ FinishedEvent \/ ResetEvent \/ BeginPump \/ ParkedStays \/ ReadStops
  <2>1. UNCHANGED <<front, overflow, parked>>
    BY <1>2 DEF ReadToChannel, FinishedEvent, ResetEvent, BeginPump, ParkedStays, ReadStops
  <2>2. QED
    BY <2>1, ParkSame
<1>3. CASE \/ ClientCloses \/ TimesOut \/ SenderDropped \/ ParkedUnwanted \/ ReadUnwanted
           \/ ReadFails \/ BodyEnds
  <2>1. overflow' = <<>> /\ parked' = 0
    BY <1>3 DEF ClientCloses, TimesOut, DropClient, SenderDropped, ParkedUnwanted, ReadUnwanted, ReadFails,
       BodyEnds, DropUpload
  <2>2. QED
    BY <2>1, ParkNone
<1>4. CASE ReadToOverflow
  <2>1. PICK c \in [from : {read}, to : read + 1 .. sent] :
            HasRoom /\ Size(c) <= MaxRead /\ overflow' = Append(overflow, c) /\ parked' = parked + Size(c)
    BY <1>4 DEF ReadToOverflow, NextChunk
  <2>2. front \in {"h3", "tcp"} /\ front # "tcp" /\ front' = front
    BY <1>4, UploadAssumption DEF KeptInv, Marks, EndingInv, TcpPhases, ReadToOverflow
  <2>3. QED
    BY <2>1, <2>2, ParkMore
<1>5. CASE Frame
  <2>1. PICK c \in [from : {read}, to : read + 1 .. sent] : Size(c) <= MaxRead /\ overflow' = <<c>>
    BY <1>5 DEF Frame
  <2>2. front = "tcp" /\ front' = front /\ overflow = <<>> /\ parked' = parked
    BY <1>5 DEF KeptInv, EndingInv, TcpPhases, PhaseInv, Frame
  <2>3. overflow' = Append(overflow, c)
    BY <2>1, <2>2, NewChunk, OneConcat
  <2>4. QED
    BY <2>1, <2>2, <2>3, ParkMore
<1>6. CASE SendFrame \/ TaskEnds
  <2>1. phase \in TcpPhases /\ overflow' = <<>> /\ parked' = parked
    BY <1>6 DEF SendFrame, TaskEnds, TcpPhases
  <2>2. parked = 0
    BY <2>1 DEF KeptInv, EndingInv, ParkingIsBounded
  <2>3. QED
    BY <2>1, <2>2, ParkNone
<1>7. CASE MoveParked
  BY <1>7, ParkLess
<1>8. QED
  BY <1>1, <1>2, <1>3, <1>4, <1>5, <1>6, <1>7 DEF Next, ClientSteps, LoopSteps, TaskSteps

-----------------------------------------------------------------------------
LEMMA KeptAtFirst == Init => KeptInv
<1> SUFFICES ASSUME Init PROVE KeptInv
  OBVIOUS
<1>1. Marks /\ Amounts
  <2>1. Marks
    BY UploadAssumption DEF Init, Marks
  <2>2. Amounts
    BY BodyAssumption DEF Init, Amounts
  <2>3. QED
    BY <2>1, <2>2
<1>2. Pieces
  BY NothingYet DEF Init, Pieces
<1>3. EndingInv
  BY EndingInit
<1>4. PhaseInv
  BY DEF Init, PhaseInv
<1>5. /\ read = 0 /\ got = <<>> /\ channel = <<>> /\ overflow = <<>> /\ parked = 0
      /\ upload = "live" /\ outcome = "none"
  BY DEF Init
<1>6. ToSet(got) = {}
  BY <1>5 DEF ToSet
<1>7. TakenInv
  BY <1>5, <1>6 DEF TakenInv, Within
<1>8. Once
  <2>1. Spread(channel) /\ Spread(overflow) /\ Beside(channel, overflow)
    BY <1>5 DEF Spread, Beside
  <2>2. Len(got) = 0 /\ BodyLen(channel) = 0 /\ BodyLen(overflow) = 0
    BY <1>5, LenOfNone
  <2>3. QED
    BY <1>5, <1>6, <2>1, <2>2 DEF Once
<1>9. Whole
  BY <1>5 DEF Whole
<1>10. HoldInv
  BY <1>5, <1>8, <1>9 DEF HoldInv
<1>11. ParkingIsBounded
  <2>1. BodyLen(overflow) = 0
    BY <1>5, LenOfNone
  <2>2. QED
    BY <1>5, <2>1, CapsArePositive DEF ParkingIsBounded
<1>12. QED
  BY <1>1, <1>2, <1>3, <1>4, <1>7, <1>10, <1>11 DEF KeptInv

LEMMA HeldByEveryStep ==
    ASSUME KeptInv, [Next]_vars
    PROVE  TakenInv' /\ HoldInv'
<1>1. CASE UNCHANGED vars
  <2>1. /\ UNCHANGED <<read, overflow, channel, got, upload, conn, ending, sent, outcome>>
        /\ Receiving' = Receiving
    BY <1>1 DEF vars, streamVars, loopVars, workerVars, Receiving
  <2>2. QED
    BY <2>1, SameChunks DEF KeptInv, HoldInv
<1>2. CASE ClientSteps \/ WakeUp \/ TimesOut \/ TcpClient
  BY <1>2, OutsideHolds
<1>3. CASE LoopSteps
  BY <1>3, MarkingHolds, DroppingHolds, TakingHolds, MovingHolds DEF LoopSteps
<1>4. CASE TaskSteps
  BY <1>4, MarkingHolds, TakingHolds, MovingHolds, TaskEndHolds DEF TaskSteps
<1>5. CASE WorkerSteps \/ StopReading
  BY <1>5, WorkerHolds
<1>6. QED
  BY <1>1, <1>2, <1>3, <1>4, <1>5 DEF Next

LEMMA KeptByEveryStep == KeptInv /\ [Next]_vars => KeptInv'
<1> SUFFICES ASSUME KeptInv, [Next]_vars PROVE KeptInv'
  OBVIOUS
<1>1. Marks' /\ Amounts' /\ Pieces'
  BY MarksKept, AmountsKept, PiecesKept DEF KeptInv
<1>2. EndingInv'
  <2>1. EndingInv
    BY DEF KeptInv
  <2>2. CASE UNCHANGED vars
    BY <2>1, <2>2 DEF EndingInv, vars, streamVars, loopVars, workerVars
  <2>3. QED
    BY <2>1, <2>2, ClientKeeps, LoopKeeps, TcpKeeps, WorkerKeeps DEF Next
<1>3. PhaseInv' /\ ParkingIsBounded'
  BY PhaseKept, ParkKept
<1>4. TakenInv' /\ HoldInv'
  BY HeldByEveryStep
<1>5. QED
  BY <1>1, <1>2, <1>3, <1>4 DEF KeptInv

(* Parking is bounded, whatever the cap and the buffer: what is counted as
   parked is what is parked, and that is never a whole buffer past the cap.
   pump_uploads of main.rs; the task of tcp.rs holds one frame. *)
THEOREM Bounded == Spec => []ParkingIsBounded
<1>1. KeptInv => ParkingIsBounded
  BY DEF KeptInv
<1>2. QED
  BY <1>1, KeptAtFirst, KeptByEveryStep, PTL DEF Spec

LEMMA EitherQueue ==
    ASSUME NEW q \in Seq(Chunks), NEW r \in Seq(Chunks), NEW c \in ToSet(q \o r)
    PROVE  (\E i \in DOMAIN q : q[i] = c) \/ (\E i \in DOMAIN r : r[i] = c)
<1>1. PICK i \in DOMAIN (q \o r) : (q \o r)[i] = c
  BY DEF ToSet
<1>2. /\ DOMAIN (q \o r) = 1 .. Len(q) + Len(r) /\ Len(q) \in Nat /\ Len(r) \in Nat
      /\ DOMAIN q = 1 .. Len(q) /\ DOMAIN r = 1 .. Len(r)
  OBVIOUS
<1>3. CASE i <= Len(q)
  <2>1. i \in DOMAIN q /\ (q \o r)[i] = q[i]
    BY <1>2, <1>3
  <2>2. QED
    BY <1>1, <2>1
<1>4. CASE ~(i <= Len(q))
  <2>1. i - Len(q) \in DOMAIN r /\ (q \o r)[i] = r[i - Len(q)]
    BY <1>2, <1>4
  <2>2. QED
    BY <1>1, <2>1
<1>5. QED
  BY <1>3, <1>4

(* No byte of a body is lost or doubled on its way, and one that reads as
   complete is all there: whatever the sizes of the body, its chunks, the
   channel and the caps, and however the loop's passes fall between the
   worker's reads.  pump_uploads of main.rs, handle of tcp.rs, Reader of
   body.rs. *)
THEOREM AllThere == Spec => []NothingLost
<1>1. KeptInv => NothingLost
  <2> SUFFICES ASSUME KeptInv PROVE NothingLost
    OBVIOUS
  <2>1. channel \in Seq(Chunks) /\ overflow \in Seq(Chunks) /\ HoldInv
    BY TypesHold DEF KeptInv
  <2>2. ASSUME upload = "live", Receiving
        PROVE  /\ Len(got) + BodyLen(channel) + BodyLen(overflow) = read
               /\ ToSet(got) \cap UNION {c.from + 1 .. c.to : c \in ToSet(channel \o overflow)} = {}
    <3>1. Once
      BY <2>1, <2>2 DEF HoldInv
    <3>2. ASSUME NEW b \in ToSet(got), NEW c \in ToSet(channel \o overflow), b \in c.from + 1 .. c.to
          PROVE  FALSE
      <4>1. (\E i \in DOMAIN channel : channel[i] = c) \/ (\E i \in DOMAIN overflow : overflow[i] = c)
        BY <2>1, EitherQueue
      <4>2. c \in Chunks
        BY <2>1, <4>1
      <4>3. c.from < b /\ b <= c.to
        BY <3>2, <4>2, ChunkBounds
      <4>4. Has(channel, b) \/ Has(overflow, b)
        BY <4>1, <4>3 DEF Has
      <4>5. QED
        BY <3>1, <4>4 DEF Once
    <3>3. QED
      BY <3>1, <3>2 DEF Once
  <2>3. ASSUME outcome = "complete", ending = "fin", conn
        PROVE  ToSet(got) = 1 .. sent
    BY <2>1, <2>3 DEF HoldInv
  <2>4. QED
    BY <2>2, <2>3 DEF NothingLost
<1>2. QED
  BY <1>1, KeptAtFirst, KeptByEveryStep, PTL DEF Spec
=============================================================================
