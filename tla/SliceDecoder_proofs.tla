------------------------ MODULE SliceDecoder_proofs ------------------------
(***************************************************************************)
(* Proofs about SliceDecoder, for any number of threads and buffers and    *)
(* pictures of any length.                                                 *)
(***************************************************************************)
EXTENDS SliceDecoder, SequenceTheorems, FiniteSetTheorems, TLAPS

\* What type correctness rests on: the decoder thread looks for a buffer only
\* for a slice that fits, and whoever works on a buffer has one.
Filling == {"getbuf", "any", "anySleep", "anyTest", "fill"}

Holding ==
  /\ pc \in Filling => sent < MaxSlices
  /\ pc = "fill" => slice \in Buffers
  /\ \A w \in Workers : worker[w] \in {"run", "free", "finish"} => task[w] \in Buffers

TypeInv == TypeOK /\ Holding

\* Where the parser is, by the decoder thread's position.
Position ==
  /\ pc \in Filling \cup {"slices", "ended"} => action = "slices"
  /\ pc \in {"headers", "invalid"} => action = "headers"
  /\ pc \in {"wait", "waitSleep"} /\ after = "ended" => action = "slices"
  /\ pc \in {"wait", "waitSleep"} /\ after = "invalid" => action = "headers"
  /\ pc = "caller" /\ ret \in {"SLICE", "INVALID"} => action = "headers"

\* Nothing is queued or running outside the slices of a picture: what the
\* wait after the slice loop, or after an abort, establishes.
Quiet ==
  /\ \/ pc \in {"closed", "headers", "ended", "invalid", "stop", "signal", "join"}
     \/ pc = "caller" /\ action = "headers"
     => queue = <<>> /\ busy_count = 0
  /\ pc \in {"wait", "waitSleep"} /\ after # "ended" => queue = <<>>

\* No slice of the picture has been given up.
Intact ==
  /\ pc \notin {"closed", "invalid", "stop", "signal", "join"}
  /\ ~(pc \in {"wait", "waitSleep"} /\ after # "ended")
  /\ ~(pc = "caller" /\ ret = "INVALID")

\* The slices sent are those decoded and those whose buffer is still queued
\* or not yet decoded by a worker.
Pending(s) ==
  \/ \E i \in DOMAIN queue : chunk[queue[i]] = s
  \/ \E w \in Workers : worker[w] = "run" /\ chunk[task[w]] = s

Accounted ==
  Intact => \A s \in 0 .. MaxSlices : s \in 1 .. sent <=> s \in decoded \/ Pending(s)

-----------------------------------------------------------------------------
(* Type correctness *)

LEMMA InitTypeInv == Init => TypeInv
<1> SUFFICES ASSUME Init PROVE TypeInv
  OBVIOUS
<1>1. PoolTypeOK
  <2>1. queue \in Seq(Params)
    BY EmptySeq DEF Init, PoolAbsent
  <2>2. /\ worker \in [Workers -> WorkerStates]
        /\ task \in [Workers -> Params \cup {None}]
    BY DEF Init, PoolAbsent, WorkerStates
  <2>3. FlagsOK
    BY DEF Init, PoolAbsent, FlagsOK
  <2>4. QED
    BY <2>1, <2>2, <2>3 DEF Init, PoolAbsent, PoolTypeOK
<1>2. TypeOK
  <2>1. nb_decode \in BOOLEAN
    BY DEF Init
  <2>2. QED
    BY <1>1, <2>1, SliceAssumption DEF Init, TypeOK, PCs
<1>3. Holding
  BY DEF Init, PoolAbsent, Holding, Filling
<1>4. QED
  BY <1>2, <1>3 DEF TypeInv

\* The pool's variables keep their types in the critical sections that the
\* decoder thread enters.
LEMMA ClientPoolTypes ==
  ASSUME PoolTypeOK,
         \/ UNCHANGED poolVars
         \/ PoolCreate
         \/ \E p \in Params : Enqueue(p)
         \/ Abort
         \/ ArmFinished
         \/ SetStop
         \/ SignalStop
         \/ PoolFree
  PROVE  PoolTypeOK'
<1>1. CASE UNCHANGED poolVars
  BY <1>1 DEF PoolTypeOK, FlagsOK, poolVars
<1>2. CASE PoolCreate
  <2>1. FlagsOK'
    BY <1>2 DEF PoolCreate, FlagsOK
  <2>2. queue' \in Seq(Params)
    BY <1>2, EmptySeq DEF PoolCreate
  <2>3. QED
    BY <1>2, <2>1, <2>2 DEF PoolCreate, PoolTypeOK, WorkerStates
<1>3. CASE \E p \in Params : Enqueue(p)
  <2>1. FlagsOK'
    BY <1>3 DEF Enqueue, PoolTypeOK, FlagsOK
  <2>2. QED
    BY <1>3, <2>1 DEF Enqueue, PoolTypeOK
<1>4. CASE Abort
  <2>1. FlagsOK'
    BY <1>4 DEF Abort, PoolTypeOK, FlagsOK
  <2>2. queue' \in Seq(Params) /\ Len(queue) \in Nat
    BY <1>4, EmptySeq, LenProperties DEF Abort, PoolTypeOK
  <2>3. QED
    BY <1>4, <2>1, <2>2 DEF Abort, PoolTypeOK
<1>5. CASE ArmFinished
  <2>1. FlagsOK'
    BY <1>5 DEF ArmFinished, PoolTypeOK, FlagsOK
  <2>2. QED
    BY <1>5, <2>1 DEF ArmFinished, PoolTypeOK
<1>6. CASE SetStop \/ SignalStop
  <2>1. FlagsOK'
    BY <1>6 DEF SetStop, SignalStop, PoolTypeOK, FlagsOK
  <2>2. QED
    BY <1>6, <2>1 DEF SetStop, SignalStop, PoolTypeOK
<1>7. CASE PoolFree
  <2>1. FlagsOK'
    BY <1>7 DEF PoolFree, FlagsOK
  <2>2. queue' \in Seq(Params)
    BY <1>7, EmptySeq DEF PoolFree
  <2>3. QED
    BY <1>7, <2>1, <2>2 DEF PoolFree, PoolTypeOK
<1>8. QED
  BY <1>1, <1>2, <1>3, <1>4, <1>5, <1>6, <1>7

LEMMA WorkerTypeInv ==
  ASSUME TypeInv, NEW w \in Workers, Worker(w)
  PROVE  TypeInv'
<1> USE DEF TypeInv
<1>1. CASE (WorkerExit(w) \/ WorkerSleep(w) \/ WorkerWake(w)) /\ UNCHANGED decoderVars
  <2>1. FlagsOK'
    BY <1>1 DEF WorkerExit, WorkerSleep, WorkerWake, TypeOK, PoolTypeOK, FlagsOK
  <2>2. PoolTypeOK'
    BY <1>1, <2>1 DEF WorkerExit, WorkerSleep, WorkerWake, TypeOK, PoolTypeOK, WorkerStates
  <2>3. TypeOK'
    BY <1>1, <2>2 DEF TypeOK, decoderVars, Buffers
  <2>4. Holding'
    BY <1>1 DEF WorkerExit, WorkerSleep, WorkerWake, TypeOK, PoolTypeOK, Holding,
                decoderVars, Buffers
  <2>5. QED
    BY <2>3, <2>4
<1>2. CASE WorkerTake(w) /\ UNCHANGED decoderVars
  <2>1. Head(queue) \in Params /\ Tail(queue) \in Seq(Params)
    BY <1>2, HeadTailProperties DEF WorkerTake, TypeOK, PoolTypeOK
  <2>2. FlagsOK'
    BY <1>2 DEF WorkerTake, TypeOK, PoolTypeOK, FlagsOK
  <2>3. PoolTypeOK'
    BY <1>2, <2>1, <2>2 DEF WorkerTake, TypeOK, PoolTypeOK, WorkerStates
  <2>4. TypeOK'
    BY <1>2, <2>3 DEF TypeOK, decoderVars, Buffers
  <2>5. Holding'
    BY <1>2, <2>1 DEF WorkerTake, TypeOK, PoolTypeOK, Holding, decoderVars, Buffers
  <2>6. QED
    BY <2>4, <2>5
<1>3. CASE WorkerFinish(w) /\ UNCHANGED decoderVars
  <2>1. FlagsOK'
    BY <1>3 DEF WorkerFinish, TypeOK, PoolTypeOK, FlagsOK
  <2>2. PoolTypeOK'
    BY <1>3, <2>1 DEF WorkerFinish, TypeOK, PoolTypeOK, WorkerStates
  <2>3. TypeOK'
    BY <1>3, <2>2 DEF TypeOK, decoderVars, Buffers
  <2>4. Holding'
    BY <1>3 DEF WorkerFinish, TypeOK, PoolTypeOK, Holding, decoderVars, Buffers
  <2>5. QED
    BY <2>3, <2>4
<1>4. CASE DecodeSlice(w) \/ FreeSliceBuffer(w)
  <2>1. task[w] \in Buffers
    BY <1>4 DEF DecodeSlice, FreeSliceBuffer, Holding
  <2>2. FlagsOK'
    BY <1>4 DEF DecodeSlice, FreeSliceBuffer, TypeOK, PoolTypeOK, FlagsOK
  <2>3. PoolTypeOK'
    BY <1>4, <2>2 DEF DecodeSlice, FreeSliceBuffer, TypeOK, PoolTypeOK, WorkerStates
  <2>4. TypeOK'
    <3>1. nb_decode' \in BOOLEAN
      BY <1>4 DEF DecodeSlice, FreeSliceBuffer, TypeOK
    <3>2. CASE DecodeSlice(w)
      BY <2>1, <2>3, <3>1, <3>2 DEF DecodeSlice, TypeOK
    <3>3. CASE FreeSliceBuffer(w)
      BY <2>1, <2>3, <3>1, <3>3, SliceAssumption DEF FreeSliceBuffer, TypeOK
    <3>4. QED
      BY <1>4, <3>2, <3>3
  <2>5. Holding'
    BY <1>4, <2>1 DEF DecodeSlice, FreeSliceBuffer, TypeOK, PoolTypeOK, Holding, Buffers
  <2>6. QED
    BY <2>4, <2>5
<1>5. QED
  BY <1>1, <1>2, <1>3, <1>4 DEF Worker, WorkerLoop

\* The steps of the decoder thread that only move it, or move the parser.
Moves ==
  \/ Parse \/ HeaderReturn \/ NeedData \/ SliceFound \/ SlicesEnd \/ NoBuffer
  \/ PictureEnd \/ SkipSlice \/ InvalidReturn \/ AnyWake \/ WaitWake

LEMMA MovesTypeInv == ASSUME TypeInv, Moves PROVE TypeInv'
<1> USE DEF TypeInv, Moves, Return
<1>1. UNCHANGED <<poolVars, free_slice_buf, slice, chunk, sent, decoded, old_busy_count, nb_decode>>
  BY DEF Parse, HeaderReturn, NeedData, SliceFound, SlicesEnd, NoBuffer, PictureEnd,
         SkipSlice, InvalidReturn, AnyWake, WaitWake
<1>2. PoolTypeOK'
  BY <1>1, ClientPoolTypes DEF TypeOK
<1>3. nb_decode' \in BOOLEAN
  BY <1>1 DEF TypeOK
<1>4. pc' \in PCs /\ after' \in {"ended", "invalid", "stop"}
  BY DEF Parse, HeaderReturn, NeedData, SliceFound, SlicesEnd, NoBuffer, PictureEnd,
         SkipSlice, InvalidReturn, AnyWake, WaitWake, TypeOK, PCs
<1>5. /\ ret' \in {"none", "BUFFER", "HEADER", "SLICE", "INVALID"}
      /\ action' \in {"headers", "slices"}
  BY DEF Parse, HeaderReturn, NeedData, SliceFound, SlicesEnd, NoBuffer, PictureEnd,
         SkipSlice, InvalidReturn, AnyWake, WaitWake, TypeOK
<1>6. TypeOK'
  BY <1>1, <1>2, <1>3, <1>4, <1>5 DEF TypeOK
<1>7. pc' # "fill" /\ (pc' \in Filling => pc \in Filling \/ sent < MaxSlices)
  BY DEF Parse, HeaderReturn, NeedData, SliceFound, SlicesEnd, NoBuffer, PictureEnd,
         SkipSlice, InvalidReturn, AnyWake, WaitWake, TypeOK, Filling
<1>8. Holding'
  BY <1>1, <1>7 DEF Holding, poolVars
<1>9. QED
  BY <1>6, <1>8

LEMMA SliceStepTypeInv ==
  ASSUME TypeInv, SliceStart \/ GetBuffer \/ FillAndEnqueue
  PROVE  TypeInv'
<1> USE DEF TypeInv
<1>1. CASE SliceStart
  <2>1. PoolTypeOK'
    BY <1>1, ClientPoolTypes DEF SliceStart, TypeOK
  <2>2. TypeOK'
    BY <1>1, <2>1, SliceAssumption DEF SliceStart, TypeOK, PCs
  <2>3. Holding'
    BY <1>1 DEF SliceStart, Holding, Filling, poolVars
  <2>4. QED
    BY <2>2, <2>3
<1>2. CASE GetBuffer
  <2>1. PoolTypeOK'
    BY <1>2, ClientPoolTypes DEF GetBuffer, TypeOK
  <2>2. nb_decode' \in BOOLEAN
    BY <1>2 DEF GetBuffer, TypeOK
  <2>3. TypeOK'
    BY <1>2, <2>1, <2>2 DEF GetBuffer, TypeOK, PCs
  <2>4. Holding'
    BY <1>2 DEF GetBuffer, TypeOK, Holding, Filling, poolVars
  <2>5. QED
    BY <2>3, <2>4
<1>3. CASE FillAndEnqueue
  <2>1. slice \in Params /\ sent + 1 \in 0 .. MaxSlices
    BY <1>3, SliceAssumption DEF FillAndEnqueue, Holding, TypeOK, Buffers, Filling
  <2>2. PoolTypeOK'
    BY <1>3, <2>1, ClientPoolTypes DEF FillAndEnqueue, TypeOK
  <2>3. nb_decode' \in BOOLEAN
    BY <1>3 DEF FillAndEnqueue, TypeOK
  <2>4. TypeOK'
    BY <1>3, <2>1, <2>2, <2>3 DEF FillAndEnqueue, TypeOK, PCs, Buffers
  <2>5. Holding'
    BY <1>3 DEF FillAndEnqueue, Enqueue, TypeOK, Holding, Filling
  <2>6. QED
    BY <2>4, <2>5
<1>4. QED
  BY <1>1, <1>2, <1>3

LEMMA WaitStepTypeInv ==
  ASSUME TypeInv, AnyEnter \/ AnyTest \/ WaitTest
  PROVE  TypeInv'
<1> USE DEF TypeInv
<1>1. ArmFinished \/ UNCHANGED poolVars
  BY DEF AnyEnter, AnyTest, WaitTest
<1>2. PoolTypeOK'
  BY <1>1, ClientPoolTypes DEF TypeOK
<1>3. nb_decode' \in BOOLEAN
  BY DEF AnyEnter, AnyTest, WaitTest, TypeOK
<1>4. old_busy_count' \in Int
  BY DEF AnyEnter, AnyTest, WaitTest, TypeOK, PoolTypeOK
<1>5. pc' \in PCs /\ pc' # "fill" /\ (pc' \in Filling => pc \in Filling)
  BY DEF AnyEnter, AnyTest, WaitTest, TypeOK, PCs, Filling
<1>6. UNCHANGED <<ret, action, free_slice_buf, slice, chunk, sent, decoded>>
  BY DEF AnyEnter, AnyTest, WaitTest
<1>7. after' \in {"ended", "invalid", "stop"}
  BY DEF AnyEnter, AnyTest, WaitTest, TypeOK
<1>8. TypeOK'
  BY <1>2, <1>3, <1>4, <1>5, <1>6, <1>7 DEF TypeOK
<1>9. Holding'
  BY <1>1, <1>5, <1>6 DEF Holding, ArmFinished, poolVars
<1>10. QED
  BY <1>8, <1>9

LEMMA LifeStepTypeInv ==
  ASSUME TypeInv,
         Open \/ Close \/ ChunkOverflow \/ CloseStop \/ CloseSignal \/ CloseFree
  PROVE  TypeInv'
<1> USE DEF TypeInv
<1>1. CASE Open
  <2>1. PoolTypeOK'
    BY <1>1, ClientPoolTypes DEF Open, TypeOK
  <2>2. nb_decode' \in BOOLEAN
    BY <1>1 DEF Open
  <2>3. TypeOK'
    BY <1>1, <2>1, <2>2, SliceAssumption DEF Open, TypeOK, PCs
  <2>4. Holding'
    BY <1>1 DEF Open, PoolCreate, Holding, Filling
  <2>5. QED
    BY <2>3, <2>4
<1>2. CASE Close \/ ChunkOverflow
  <2>1. AbortSlices
    BY <1>2 DEF Close, ChunkOverflow
  <2>2. PoolTypeOK'
    BY <2>1, ClientPoolTypes DEF AbortSlices, TypeOK
  <2>3. nb_decode' \in BOOLEAN
    BY <1>2 DEF Close, ChunkOverflow, TypeOK
  <2>4. {queue[i] : i \in DOMAIN queue} \subseteq Buffers
    BY LenProperties, ElementOfSeq DEF TypeOK, PoolTypeOK, Buffers
  <2>5. free_slice_buf' \in SUBSET Buffers /\ chunk' \in [Buffers -> 0 .. MaxSlices]
    BY <2>1, <2>4, SliceAssumption DEF AbortSlices, TypeOK
  <2>6. TypeOK'
    BY <1>2, <2>2, <2>3, <2>5 DEF Close, ChunkOverflow, TypeOK, PCs
  <2>7. Holding'
    BY <1>2, <2>1 DEF Close, ChunkOverflow, AbortSlices, Abort, Holding, Filling
  <2>8. QED
    BY <2>6, <2>7
<1>3. CASE CloseStop \/ CloseSignal \/ CloseFree
  <2>1. PoolTypeOK'
    BY <1>3, ClientPoolTypes DEF CloseStop, CloseSignal, CloseFree, TypeOK
  <2>2. nb_decode' \in BOOLEAN
    BY <1>3 DEF CloseStop, CloseSignal, CloseFree, TypeOK
  <2>3. TypeOK'
    BY <1>3, <2>1, <2>2 DEF CloseStop, CloseSignal, CloseFree, TypeOK, PCs
  <2>4. Holding'
    BY <1>3 DEF CloseStop, CloseSignal, CloseFree, SetStop, SignalStop, PoolFree,
                Holding, Filling
  <2>5. QED
    BY <2>3, <2>4
<1>4. QED
  BY <1>1, <1>2, <1>3

LEMMA NextTypeInv == ASSUME TypeInv, [Next]_vars PROVE TypeInv'
<1>1. CASE UNCHANGED vars
  <2>1. PoolTypeOK'
    BY <1>1, ClientPoolTypes DEF vars, TypeInv, TypeOK
  <2>2. nb_decode' \in BOOLEAN
    BY <1>1 DEF vars, decoderVars, TypeInv, TypeOK
  <2>3. QED
    BY <1>1, <2>1, <2>2 DEF vars, decoderVars, poolVars, TypeInv, TypeOK, Holding
<1>2. CASE \E w \in Workers : Worker(w)
  BY <1>2, WorkerTypeInv
<1>3. CASE Open \/ Parse \/ Close \/ Library
  BY <1>3, MovesTypeInv, SliceStepTypeInv, WaitStepTypeInv, LifeStepTypeInv
     DEF Library, Moves
<1>4. QED
  BY <1>1, <1>2, <1>3 DEF Next

\* Every variable of the slice layer keeps its type, whatever the number of
\* threads and the length of the pictures.
THEOREM TypeCorrect == Spec => []TypeOK
<1>1. TypeInv => TypeOK
  BY DEF TypeInv
<1>2. Spec => []TypeInv
  BY InitTypeInv, NextTypeInv, PTL DEF Spec
<1>3. QED
  BY <1>1, <1>2, PTL

-----------------------------------------------------------------------------
(* The accounting of the pool *)

LEMMA TailOf ==
  ASSUME NEW S, NEW q \in Seq(S), q # <<>>
  PROVE  /\ Len(q) \in Nat \ {0}
         /\ DOMAIN q = 1 .. Len(q)
         /\ Tail(q) \in Seq(S)
         /\ DOMAIN Tail(q) = 1 .. Len(q) - 1
         /\ \A i \in 1 .. Len(q) - 1 : Tail(q)[i] = q[i + 1]
         /\ Head(q) = q[1]
<1>1. Len(q) \in Nat \ {0} /\ DOMAIN q = 1 .. Len(q)
  BY EmptySeq, LenProperties
<1>2. Tail(q) \in Seq(S) /\ Len(Tail(q)) = Len(q) - 1
  BY HeadTailProperties
<1>3. DOMAIN Tail(q) = 1 .. Len(q) - 1
  BY <1>2, LenProperties
<1>4. \A i \in 1 .. Len(q) - 1 : Tail(q)[i] = q[i + 1]
  BY <1>2, HeadTailProperties
<1>5. QED
  BY <1>1, <1>2, <1>3, <1>4

LEMMA AppendOf ==
  ASSUME NEW S, NEW q \in Seq(S), NEW e \in S
  PROVE  /\ Len(q) \in Nat
         /\ DOMAIN q = 1 .. Len(q)
         /\ Append(q, e) \in Seq(S)
         /\ DOMAIN Append(q, e) = 1 .. Len(q) + 1
         /\ \A i \in 1 .. Len(q) : Append(q, e)[i] = q[i]
         /\ Append(q, e)[Len(q) + 1] = e
BY LenProperties

LEMMA BusyFinite == IsFiniteSet(Busy) /\ Cardinality(Busy) \in Nat
                    /\ (Cardinality(Busy) = 0 <=> Busy = {})
<1>1. Busy \in SUBSET Workers
  BY DEF Busy
<1>2. IsFiniteSet(Busy)
  BY <1>1, PoolAssumption, FS_Subset
<1>3. QED
  BY <1>2, FS_CardinalityType, FS_EmptySet

LEMMA BusyInv ==
  ASSUME TypeInv, BusyIsRunning, [Next]_vars
  PROVE  BusyIsRunning'
<1> USE DEF BusyIsRunning, TypeInv, TypeOK, PoolTypeOK
<1>1. CASE UNCHANGED <<busy_count, worker>>
  BY <1>1 DEF Busy
<1>2. ASSUME NEW w \in Workers, Worker(w)
      PROVE  BusyIsRunning'
  <2>1. CASE WorkerTake(w)
    <3>1. Busy' = Busy \cup {w} /\ w \notin Busy /\ busy_count' = busy_count + 1
      BY <2>1 DEF WorkerTake, Busy
    <3>2. QED
      BY <3>1, BusyFinite, FS_AddElement
  <2>2. CASE WorkerFinish(w)
    <3>1. Busy' = Busy \ {w} /\ w \in Busy /\ busy_count' = busy_count - 1
      BY <2>2 DEF WorkerFinish, Busy
    <3>2. QED
      BY <3>1, BusyFinite, FS_RemoveElement
  <2>3. CASE \/ WorkerExit(w) \/ WorkerSleep(w) \/ WorkerWake(w)
             \/ DecodeSlice(w) \/ FreeSliceBuffer(w)
    <3>1. Busy' = Busy /\ busy_count' = busy_count
      BY <2>3 DEF WorkerExit, WorkerSleep, WorkerWake, DecodeSlice, FreeSliceBuffer, Busy
    <3>2. QED
      BY <3>1
  <2>4. QED
    BY <1>2, <2>1, <2>2, <2>3 DEF Worker, WorkerLoop
<1>3. CASE Open
  <2>1. Busy' = {} /\ busy_count' = 0
    BY <1>3 DEF Open, PoolCreate, Busy
  <2>2. QED
    BY <2>1, FS_EmptySet
<1>4. CASE CloseFree
  <2>1. Busy' = {} /\ busy_count' = 0
    BY <1>4 DEF CloseFree, PoolFree, AllExited, Busy
  <2>2. QED
    BY <2>1, FS_EmptySet
<1>5. CASE Parse \/ Close \/ (Library /\ ~CloseFree)
  <2>1. UNCHANGED <<busy_count, worker>>
    BY <1>5
       DEF Library, Parse, Close, HeaderReturn, SliceStart, NeedData, SliceFound,
           ChunkOverflow, SlicesEnd, GetBuffer, NoBuffer, FillAndEnqueue, PictureEnd,
           SkipSlice, InvalidReturn, AnyEnter, AnyWake, AnyTest, WaitTest, WaitWake,
           CloseStop, CloseSignal, AbortSlices, Abort, Enqueue, ArmFinished, SetStop,
           SignalStop, poolVars
  <2>2. QED
    BY <2>1, <1>1
<1>6. CASE UNCHANGED vars
  BY <1>1, <1>6 DEF vars, poolVars
<1>7. QED
  BY <1>2, <1>3, <1>4, <1>5, <1>6 DEF Next

\* Steps that leave the pool and the buffers alone.
Still == UNCHANGED <<poolVars, free_slice_buf, slice, chunk>>

LEMMA MovesStill == ASSUME Moves PROVE Still /\ UNCHANGED <<sent, decoded>>
BY DEF Moves, Return, Still, Parse, HeaderReturn, NeedData, SliceFound, SlicesEnd,
       NoBuffer, PictureEnd, SkipSlice, InvalidReturn, AnyWake, WaitWake

LEMMA PositionInv ==
  ASSUME TypeInv, Position, [Next]_vars
  PROVE  Position'
<1> USE DEF Position, Filling
<1>1. CASE UNCHANGED vars
  BY <1>1 DEF vars, decoderVars
<1>2. ASSUME NEW w \in Workers, Worker(w)
      PROVE  Position'
  BY <1>2 DEF Worker, DecodeSlice, FreeSliceBuffer, decoderVars
<1>3. CASE Parse
  BY <1>3 DEF Parse, TypeInv, TypeOK
<1>4. CASE HeaderReturn \/ SliceStart
  BY <1>4 DEF HeaderReturn, SliceStart, Return
<1>5. CASE NeedData \/ SliceFound \/ SlicesEnd \/ NoBuffer \/ PictureEnd \/ SkipSlice
  BY <1>5 DEF NeedData, SliceFound, SlicesEnd, NoBuffer, PictureEnd, SkipSlice, Return
<1>6. CASE InvalidReturn \/ AnyWake \/ WaitWake \/ AnyEnter \/ AnyTest
  BY <1>6 DEF InvalidReturn, AnyWake, WaitWake, AnyEnter, AnyTest, Return
<1>7. CASE WaitTest
  <2>1. CASE after = "ended"
    BY <1>7, <2>1 DEF WaitTest
  <2>2. CASE after = "invalid"
    BY <1>7, <2>2 DEF WaitTest
  <2>3. CASE after = "stop"
    BY <1>7, <2>3 DEF WaitTest
  <2>4. QED
    BY <2>1, <2>2, <2>3 DEF TypeInv, TypeOK
<1>8. CASE GetBuffer \/ FillAndEnqueue
  BY <1>8 DEF GetBuffer, FillAndEnqueue
<1>9. CASE Open \/ Close \/ ChunkOverflow
  BY <1>9 DEF Open, Close, ChunkOverflow
<1>10. CASE CloseStop \/ CloseSignal \/ CloseFree
  BY <1>10 DEF CloseStop, CloseSignal, CloseFree
<1>11. QED
  BY <1>1, <1>2, <1>3, <1>4, <1>5, <1>6, <1>7, <1>8, <1>9, <1>10 DEF Next, Library

LEMMA QuietInv ==
  ASSUME TypeInv, BusyIsRunning, Position, Quiet, [Next]_vars
  PROVE  Quiet'
<1> USE DEF Quiet
<1>1. CASE UNCHANGED vars
  BY <1>1 DEF vars, poolVars, decoderVars
<1>2. ASSUME NEW w \in Workers, Worker(w)
      PROVE  Quiet'
  <2>1. pc' = pc /\ action' = action /\ after' = after
    BY <1>2 DEF Worker, DecodeSlice, FreeSliceBuffer, decoderVars
  <2>2. queue = <<>> => queue' = <<>>
    BY <1>2 DEF Worker, WorkerLoop, WorkerExit, WorkerSleep, WorkerWake, WorkerTake,
                WorkerFinish, DecodeSlice, FreeSliceBuffer
  <2>3. ASSUME queue = <<>>, busy_count = 0
        PROVE  busy_count' = 0
    <3>1. Busy = {}
      BY <2>3, BusyFinite DEF BusyIsRunning
    <3>2. ~WorkerTake(w) /\ ~WorkerFinish(w)
      BY <2>3, <3>1 DEF WorkerTake, WorkerFinish, Busy
    <3>3. QED
      BY <1>2, <2>3, <3>2
         DEF Worker, WorkerLoop, WorkerExit, WorkerSleep, WorkerWake, DecodeSlice,
             FreeSliceBuffer
  <2>4. queue = <<>> /\ busy_count = 0 => queue' = <<>> /\ busy_count' = 0
    BY <2>2, <2>3
  <2>5. QED
    BY <2>1, <2>2, <2>4
<1>3. CASE Parse \/ HeaderReturn \/ SliceStart
  BY <1>3 DEF Parse, HeaderReturn, SliceStart, Return, poolVars, TypeInv, TypeOK
<1>4. CASE NeedData \/ SliceFound \/ SlicesEnd
  BY <1>4 DEF NeedData, SliceFound, SlicesEnd, Return, poolVars, Position
<1>5. CASE NoBuffer \/ GetBuffer \/ FillAndEnqueue
  BY <1>5 DEF NoBuffer, GetBuffer, FillAndEnqueue
<1>6. CASE PictureEnd \/ SkipSlice \/ InvalidReturn
  BY <1>6 DEF PictureEnd, SkipSlice, InvalidReturn, Return, poolVars
<1>7. CASE AnyEnter \/ AnyWake \/ AnyTest
  BY <1>7 DEF AnyEnter, AnyWake, AnyTest
<1>8. CASE WaitTest
  <2>1. CASE Unfinished
    BY <1>8, <2>1 DEF WaitTest, ArmFinished
  <2>2. CASE ~Unfinished
    <3>1. queue' = <<>> /\ busy_count' = 0 /\ pc' \in {"ended", "invalid", "stop"}
      BY <1>8, <2>2 DEF WaitTest, Unfinished, poolVars, TypeInv, TypeOK
    <3>2. QED
      BY <3>1
  <2>3. QED
    BY <2>1, <2>2
<1>9. CASE WaitWake
  BY <1>9 DEF WaitWake, poolVars
<1>10. CASE Close \/ ChunkOverflow
  BY <1>10 DEF Close, ChunkOverflow, AbortSlices, Abort
<1>11. CASE Open \/ CloseFree
  BY <1>11 DEF Open, PoolCreate, CloseFree, PoolFree
<1>12. CASE CloseStop \/ CloseSignal
  BY <1>12 DEF CloseStop, CloseSignal, SetStop, SignalStop
<1>13. QED
  BY <1>1, <1>2, <1>3, <1>4, <1>5, <1>6, <1>7, <1>8, <1>9, <1>10, <1>11, <1>12
     DEF Next, Library

-----------------------------------------------------------------------------
(* The counters and the positions, as one invariant *)

ControlInv == TypeInv /\ BusyIsRunning /\ Position /\ Quiet

LEMMA InitControl == Init => ControlInv
<1> SUFFICES ASSUME Init PROVE ControlInv
  OBVIOUS
<1>1. BusyIsRunning
  <2>1. Busy = {} /\ busy_count = 0
    BY DEF Init, PoolAbsent, Busy
  <2>2. QED
    BY <2>1, FS_EmptySet DEF BusyIsRunning
<1>2. Position /\ Quiet
  BY DEF Init, PoolAbsent, Position, Filling, Quiet
<1>3. QED
  BY <1>1, <1>2, InitTypeInv DEF ControlInv

LEMMA NextControl == ControlInv /\ [Next]_vars => ControlInv'
BY NextTypeInv, BusyInv, PositionInv, QuietInv DEF ControlInv

LEMMA ControlCorrect == Spec => []ControlInv
BY InitControl, NextControl, PTL DEF Spec

\* busy_count is the number of workers between the two critical sections of
\* worker_thread (thread_win.c), in every reachable state and for any number
\* of threads: wait and wait_any, which read it, read the truth.
THEOREM BusyCounted == Spec => []BusyIsRunning
<1>1. ControlInv => BusyIsRunning
  BY DEF ControlInv
<1>2. QED
  BY <1>1, ControlCorrect, PTL

\* mpeg2_header_slice_start writes the state that the workers read
\* (decode.c, header.c) only when no task is queued and no worker runs one:
\* the wait after the slice loop, or the abort, has emptied the pool.
THEOREM SetUpAlone == Spec => PictureSetUpAlone
<1>1. ASSUME ControlInv, pc = "headers"
      PROVE  queue = <<>> /\ \A w \in Workers : worker[w] \notin {"run", "free", "finish"}
  <2>1. queue = <<>> /\ busy_count = 0
    BY <1>1 DEF ControlInv, Quiet
  <2>2. Busy = {}
    BY <1>1, <2>1, BusyFinite DEF ControlInv, BusyIsRunning
  <2>3. QED
    BY <2>1, <2>2 DEF Busy
<1>2. ControlInv => (pc = "headers" /\ pc' = "slices" =>
         queue = <<>> /\ \A w \in Workers : worker[w] \notin {"run", "free", "finish"})
  BY <1>1
<1>3. QED
  BY <1>2, ControlCorrect, PTL DEF PictureSetUpAlone

-----------------------------------------------------------------------------
(* The slice buffers *)

\* No buffer changes hands.
SameHands ==
  /\ queue' = queue
  /\ free_slice_buf' = free_slice_buf
  /\ slice' = slice
  /\ \A w \in Workers : Reading(w)' = Reading(w) /\ (Reading(w) => task'[w] = task[w])
  /\ pc' = "fill" <=> pc = "fill"
  /\ pc' = "closed" <=> pc = "closed"

LEMMA SameHandsKeeps ==
  ASSUME SameHands, BuffersPartitioned
  PROVE  BuffersPartitioned'
<1> USE DEF SameHands, BuffersPartitioned
<1>1. OneHolder'
  BY DEF OneHolder
<1>2. NoneLost'
  BY DEF NoneLost
<1>3. QED
  BY <1>1, <1>2

LEMMA SameHandsSteps ==
  ASSUME TypeInv,
         \/ UNCHANGED vars \/ Moves \/ SliceStart \/ AnyEnter \/ AnyTest \/ WaitTest
         \/ CloseStop \/ CloseSignal
         \/ \E w \in Workers : \/ WorkerExit(w) /\ UNCHANGED decoderVars
                               \/ WorkerSleep(w) /\ UNCHANGED decoderVars
                               \/ WorkerWake(w) /\ UNCHANGED decoderVars
                               \/ WorkerFinish(w) /\ UNCHANGED decoderVars
                               \/ DecodeSlice(w)
  PROVE  SameHands
<1> USE DEF SameHands, Reading
<1>1. CASE UNCHANGED vars
  BY <1>1 DEF vars, poolVars, decoderVars
<1>2. CASE Moves
  BY <1>2 DEF Moves, Return, poolVars, Parse, HeaderReturn, NeedData, SliceFound, SlicesEnd,
              NoBuffer, PictureEnd, SkipSlice, InvalidReturn, AnyWake, WaitWake,
              TypeInv, TypeOK
<1>3. CASE SliceStart \/ AnyEnter \/ AnyTest \/ WaitTest
  BY <1>3 DEF SliceStart, AnyEnter, AnyTest, WaitTest, ArmFinished, poolVars, TypeInv, TypeOK
<1>4. CASE CloseStop \/ CloseSignal
  BY <1>4 DEF CloseStop, SetStop, CloseSignal, SignalStop
<1>5. ASSUME NEW w \in Workers,
             \/ WorkerExit(w) /\ UNCHANGED decoderVars
             \/ WorkerSleep(w) /\ UNCHANGED decoderVars
             \/ WorkerWake(w) /\ UNCHANGED decoderVars
             \/ WorkerFinish(w) /\ UNCHANGED decoderVars
             \/ DecodeSlice(w)
      PROVE  SameHands
  BY <1>5 DEF WorkerExit, WorkerSleep, WorkerWake, WorkerFinish, DecodeSlice, decoderVars,
              TypeInv, TypeOK, PoolTypeOK
<1>6. QED
  BY <1>1, <1>2, <1>3, <1>4, <1>5

\* A worker takes the head of the queue.
LEMMA TakeKeeps ==
  ASSUME TypeInv, BuffersPartitioned,
         NEW w \in Workers, WorkerTake(w), UNCHANGED decoderVars
  PROVE  BuffersPartitioned'
<1> USE DEF BuffersPartitioned
<1>1. /\ queue \in Seq(Params) /\ queue # <<>> /\ queue' = Tail(queue)
      /\ pc' = pc /\ slice' = slice /\ free_slice_buf' = free_slice_buf
      /\ task' = [task EXCEPT ![w] = Head(queue)]
      /\ worker' = [worker EXCEPT ![w] = "run"]
      /\ worker[w] = "test"
  BY DEF WorkerTake, decoderVars, TypeInv, TypeOK, PoolTypeOK
<1>2. /\ DOMAIN queue = 1 .. Len(queue) /\ Len(queue) \in Nat \ {0}
      /\ DOMAIN queue' = 1 .. Len(queue) - 1
      /\ \A i \in 1 .. Len(queue) - 1 : queue'[i] = queue[i + 1]
      /\ Head(queue) = queue[1]
  BY <1>1, TailOf
<1>3. /\ task'[w] = queue[1] /\ Reading(w)' /\ ~Reading(w)
      /\ \A v \in Workers : v # w => Reading(v)' = Reading(v) /\ task'[v] = task[v]
  BY <1>1, <1>2 DEF Reading, TypeInv, TypeOK, PoolTypeOK
<1>4. OneHolder'
  <2>1. \A i \in DOMAIN queue' :
          /\ queue'[i] \notin free_slice_buf'
          /\ \A j \in DOMAIN queue' : queue'[i] = queue'[j] => i = j
    BY <1>1, <1>2 DEF OneHolder
  <2>2. \A v \in Workers : Reading(v)' =>
          /\ task'[v] \notin free_slice_buf'
          /\ \A i \in DOMAIN queue' : queue'[i] # task'[v]
          /\ \A u \in Workers : Reading(u)' /\ task'[u] = task'[v] => u = v
    BY <1>1, <1>2, <1>3 DEF OneHolder
  <2>3. pc' = "fill" =>
          /\ slice' \notin free_slice_buf'
          /\ \A i \in DOMAIN queue' : queue'[i] # slice'
          /\ \A v \in Workers : Reading(v)' => task'[v] # slice'
    BY <1>1, <1>2, <1>3 DEF OneHolder
  <2>4. QED
    BY <2>1, <2>2, <2>3 DEF OneHolder
<1>5. NoneLost'
  <2>1. SUFFICES ASSUME pc # "closed", NEW b \in Buffers
                 PROVE  \/ b \in free_slice_buf'
                        \/ \E i \in DOMAIN queue' : queue'[i] = b
                        \/ \E v \in Workers : Reading(v)' /\ task'[v] = b
                        \/ pc' = "fill" /\ slice' = b
    BY <1>1 DEF NoneLost
  <2>2. CASE \E i \in DOMAIN queue : queue[i] = b
    <3>1. PICK i \in DOMAIN queue : queue[i] = b
      BY <2>2
    <3>2. CASE i = 1
      BY <3>1, <3>2, <1>3
    <3>3. CASE i # 1
      <4>1. i - 1 \in DOMAIN queue' /\ queue'[i - 1] = b
        BY <3>1, <3>3, <1>2
      <4>2. QED
        BY <4>1
    <3>4. QED
      BY <3>2, <3>3
  <2>3. CASE ~\E i \in DOMAIN queue : queue[i] = b
    BY <2>1, <2>3, <1>1, <1>3 DEF NoneLost
  <2>4. QED
    BY <2>2, <2>3
<1>6. QED
  BY <1>4, <1>5

\* A worker puts its buffer back.
LEMMA FreeKeeps ==
  ASSUME TypeInv, BuffersPartitioned, NEW w \in Workers, FreeSliceBuffer(w)
  PROVE  BuffersPartitioned'
<1> USE DEF BuffersPartitioned
<1>1. /\ queue' = queue /\ pc' = pc /\ slice' = slice /\ task' = task
      /\ free_slice_buf' = free_slice_buf \cup {task[w]}
      /\ Reading(w) /\ ~Reading(w)'
      /\ \A v \in Workers : v # w => Reading(v)' = Reading(v)
  BY DEF FreeSliceBuffer, Reading, TypeInv, TypeOK, PoolTypeOK
<1>2. OneHolder'
  BY <1>1 DEF OneHolder
<1>3. NoneLost'
  BY <1>1 DEF NoneLost
<1>4. QED
  BY <1>2, <1>3

\* The abort of the pool frees what is queued.
LEMMA AbortKeeps ==
  ASSUME TypeInv, BuffersPartitioned, AbortSlices,
         UNCHANGED slice, pc # "closed", pc # "fill", pc' # "fill"
  PROVE  BuffersPartitioned'
<1> USE DEF BuffersPartitioned
<1>1. /\ queue' = <<>> /\ DOMAIN queue' = {}
      /\ free_slice_buf' = free_slice_buf \cup Queued
      /\ \A v \in Workers : Reading(v)' = Reading(v) /\ task'[v] = task[v]
  BY DEF AbortSlices, Abort, Queued, Reading
<1>2. \A b : b \in Queued <=> \E i \in DOMAIN queue : queue[i] = b
  BY DEF Queued
<1>3. OneHolder'
  BY <1>1, <1>2 DEF OneHolder
<1>4. NoneLost'
  BY <1>1, <1>2 DEF NoneLost
<1>5. QED
  BY <1>3, <1>4

\* The decoder thread takes a free buffer.
LEMMA GetKeeps ==
  ASSUME TypeInv, BuffersPartitioned, GetBuffer
  PROVE  BuffersPartitioned'
<1> USE DEF BuffersPartitioned
<1>1. PICK b \in free_slice_buf :
        /\ slice' = b /\ free_slice_buf' = free_slice_buf \ {b}
        /\ pc = "getbuf" /\ pc' = "fill" /\ queue' = queue
        /\ \A v \in Workers : Reading(v)' = Reading(v) /\ task'[v] = task[v]
  BY DEF GetBuffer, poolVars, Reading
<1>2. OneHolder'
  BY <1>1 DEF OneHolder
<1>3. NoneLost'
  BY <1>1 DEF NoneLost
<1>4. QED
  BY <1>2, <1>3

\* The decoder thread queues the buffer it has filled.
LEMMA EnqueueKeeps ==
  ASSUME TypeInv, BuffersPartitioned, FillAndEnqueue
  PROVE  BuffersPartitioned'
<1> USE DEF BuffersPartitioned
<1>1. /\ queue \in Seq(Params) /\ slice \in Params /\ queue' = Append(queue, slice)
      /\ free_slice_buf' = free_slice_buf
      /\ pc = "fill" /\ pc' = "slices"
      /\ \A v \in Workers : Reading(v)' = Reading(v) /\ task'[v] = task[v]
  BY DEF FillAndEnqueue, Enqueue, Reading, TypeInv, Holding, TypeOK, PoolTypeOK, Buffers
<1>2. /\ Len(queue) \in Nat /\ DOMAIN queue = 1 .. Len(queue)
      /\ DOMAIN queue' = 1 .. Len(queue) + 1
      /\ \A i \in 1 .. Len(queue) : queue'[i] = queue[i]
      /\ queue'[Len(queue) + 1] = slice
  BY <1>1, AppendOf
<1>3. OneHolder'
  <2>1. \A i \in DOMAIN queue' :
          /\ queue'[i] \notin free_slice_buf'
          /\ \A j \in DOMAIN queue' : queue'[i] = queue'[j] => i = j
    BY <1>1, <1>2 DEF OneHolder
  <2>2. \A v \in Workers : Reading(v)' =>
          /\ task'[v] \notin free_slice_buf'
          /\ \A i \in DOMAIN queue' : queue'[i] # task'[v]
          /\ \A u \in Workers : Reading(u)' /\ task'[u] = task'[v] => u = v
    BY <1>1, <1>2 DEF OneHolder
  <2>3. QED
    BY <1>1, <2>1, <2>2 DEF OneHolder
<1>4. NoneLost'
  <2>1. \A i \in DOMAIN queue : i \in DOMAIN queue' /\ queue'[i] = queue[i]
    BY <1>2
  <2>2. \E i \in DOMAIN queue' : queue'[i] = slice
    BY <1>2
  <2>3. QED
    BY <1>1, <2>1, <2>2 DEF NoneLost
<1>5. QED
  BY <1>3, <1>4

\* A new decoder has every buffer free; a closed one has none.
LEMMA LifeKeeps ==
  ASSUME TypeInv, BuffersPartitioned, Open \/ CloseFree
  PROVE  BuffersPartitioned'
<1>1. /\ queue' = <<>> /\ DOMAIN queue' = {} /\ pc' # "fill"
      /\ \A v \in Workers : ~Reading(v)'
  BY DEF Open, PoolCreate, CloseFree, PoolFree, AllExited, Reading
<1>2. pc' # "closed" => free_slice_buf' = Buffers
  BY DEF Open, CloseFree
<1>3. QED
  BY <1>1, <1>2 DEF BuffersPartitioned, OneHolder, NoneLost

LEMMA BuffersInv ==
  ASSUME TypeInv, BuffersPartitioned, [Next]_vars
  PROVE  BuffersPartitioned'
<1>1. CASE \/ UNCHANGED vars \/ Moves \/ SliceStart \/ AnyEnter \/ AnyTest \/ WaitTest
           \/ CloseStop \/ CloseSignal
  BY <1>1, SameHandsSteps, SameHandsKeeps
<1>2. ASSUME NEW w \in Workers, Worker(w)
      PROVE  BuffersPartitioned'
  <2>1. CASE WorkerTake(w) /\ UNCHANGED decoderVars
    BY <2>1, TakeKeeps
  <2>2. CASE FreeSliceBuffer(w)
    BY <2>2, FreeKeeps
  <2>3. CASE \/ WorkerExit(w) /\ UNCHANGED decoderVars
             \/ WorkerSleep(w) /\ UNCHANGED decoderVars
             \/ WorkerWake(w) /\ UNCHANGED decoderVars
             \/ WorkerFinish(w) /\ UNCHANGED decoderVars
             \/ DecodeSlice(w)
    BY <2>3, SameHandsSteps, SameHandsKeeps
  <2>4. QED
    BY <1>2, <2>1, <2>2, <2>3 DEF Worker, WorkerLoop
<1>3. CASE Close \/ ChunkOverflow
  BY <1>3, AbortKeeps DEF Close, ChunkOverflow
<1>4. CASE GetBuffer \/ FillAndEnqueue
  BY <1>4, GetKeeps, EnqueueKeeps
<1>5. CASE Open \/ CloseFree
  BY <1>5, LifeKeeps
<1>6. QED
  BY <1>1, <1>2, <1>3, <1>4, <1>5 DEF Next, Library, Moves

LEMMA InitBuffers == Init => BuffersPartitioned
<1>1. ASSUME Init
      PROVE  queue = <<>> /\ DOMAIN queue = {} /\ pc = "closed"
             /\ \A w \in Workers : ~Reading(w)
  BY <1>1 DEF Init, PoolAbsent, Reading
<1>2. QED
  BY <1>1 DEF BuffersPartitioned, OneHolder, NoneLost

\* No slice buffer is ever in two hands or lost, whatever the number of
\* threads, and whenever the parser aborts or the decoder is closed.
THEOREM BuffersSafe == Spec => []BuffersPartitioned
<1>1. ControlInv => TypeInv
  BY DEF ControlInv
<1>2. TypeInv /\ BuffersPartitioned /\ [Next]_vars => BuffersPartitioned'
  BY BuffersInv
<1>3. QED
  BY <1>1, <1>2, InitBuffers, ControlCorrect, PTL DEF Spec

-----------------------------------------------------------------------------
(* The slices of the picture *)

\* No slice is sent, taken or decoded, and what was given up stays so.
SameSlices ==
  /\ queue' = queue /\ sent' = sent /\ decoded' = decoded /\ chunk' = chunk
  /\ \A w \in Workers : /\ worker'[w] = "run" <=> worker[w] = "run"
                        /\ worker[w] = "run" => task'[w] = task[w]
  /\ Intact' => Intact

LEMMA SameSlicesKeeps ==
  ASSUME SameSlices, Accounted
  PROVE  Accounted'
<1>1. \A s : Pending(s)' <=> Pending(s)
  BY DEF SameSlices, Pending
<1>2. QED
  BY <1>1 DEF SameSlices, Accounted

LEMMA SameSlicesSteps ==
  ASSUME TypeInv,
         \/ UNCHANGED vars \/ Moves \/ AnyEnter \/ AnyTest \/ WaitTest \/ GetBuffer
         \/ CloseStop \/ CloseSignal
         \/ \E w \in Workers : \/ WorkerExit(w) /\ UNCHANGED decoderVars
                               \/ WorkerSleep(w) /\ UNCHANGED decoderVars
                               \/ WorkerWake(w) /\ UNCHANGED decoderVars
                               \/ WorkerFinish(w) /\ UNCHANGED decoderVars
  PROVE  SameSlices
<1> USE DEF SameSlices
<1>1. CASE UNCHANGED vars
  BY <1>1 DEF vars, poolVars, decoderVars, Intact
<1>2. CASE Moves
  <2>1. Intact' => Intact
    BY <1>2 DEF Moves, Return, Parse, HeaderReturn, NeedData, SliceFound, SlicesEnd, NoBuffer,
                PictureEnd, SkipSlice, InvalidReturn, AnyWake, WaitWake, Intact
  <2>2. QED
    BY <1>2, <2>1, MovesStill DEF Still, poolVars
<1>3. CASE AnyEnter \/ AnyTest \/ WaitTest \/ GetBuffer
  <2>1. Intact' => Intact
    BY <1>3 DEF AnyEnter, AnyTest, WaitTest, GetBuffer, TypeInv, TypeOK, Intact
  <2>2. QED
    BY <1>3, <2>1 DEF AnyEnter, AnyTest, WaitTest, GetBuffer, ArmFinished, poolVars
<1>4. CASE CloseStop \/ CloseSignal
  BY <1>4 DEF CloseStop, SetStop, CloseSignal, SignalStop, Intact
<1>5. ASSUME NEW w \in Workers,
             \/ WorkerExit(w) /\ UNCHANGED decoderVars
             \/ WorkerSleep(w) /\ UNCHANGED decoderVars
             \/ WorkerWake(w) /\ UNCHANGED decoderVars
             \/ WorkerFinish(w) /\ UNCHANGED decoderVars
      PROVE  SameSlices
  <2>1. /\ queue' = queue
        /\ \A v \in Workers : /\ worker'[v] = "run" <=> worker[v] = "run"
                              /\ worker[v] = "run" => task'[v] = task[v]
    BY <1>5 DEF WorkerExit, WorkerSleep, WorkerWake, WorkerFinish, TypeInv, TypeOK, PoolTypeOK
  <2>2. QED
    BY <1>5, <2>1 DEF decoderVars, Intact
<1>6. QED
  BY <1>1, <1>2, <1>3, <1>4, <1>5

\* The slice goes from the queue to the worker that takes it.
LEMMA TakeAccounts ==
  ASSUME TypeInv, Accounted, NEW w \in Workers, WorkerTake(w), UNCHANGED decoderVars
  PROVE  Accounted'
<1>1. /\ queue \in Seq(Params) /\ queue # <<>> /\ queue' = Tail(queue)
      /\ UNCHANGED decoderVars
      /\ worker[w] = "test" /\ worker'[w] = "run" /\ task'[w] = Head(queue)
      /\ \A v \in Workers : v # w => worker'[v] = worker[v] /\ task'[v] = task[v]
  BY DEF WorkerTake, TypeInv, TypeOK, PoolTypeOK
<1>2. /\ DOMAIN queue = 1 .. Len(queue) /\ Len(queue) \in Nat \ {0}
      /\ DOMAIN queue' = 1 .. Len(queue) - 1
      /\ \A i \in 1 .. Len(queue) - 1 : queue'[i] = queue[i + 1]
      /\ Head(queue) = queue[1]
  BY <1>1, TailOf
<1>3. ASSUME NEW s
      PROVE  Pending(s)' <=> Pending(s)
  <2>1. ASSUME NEW i \in DOMAIN queue, chunk[queue[i]] = s
        PROVE  Pending(s)'
    <3>1. CASE i = 1
      BY <1>1, <1>2, <2>1, <3>1 DEF Pending, decoderVars
    <3>2. CASE i # 1
      <4>1. i - 1 \in DOMAIN queue' /\ queue'[i - 1] = queue[i]
        BY <1>2, <3>2
      <4>2. QED
        BY <1>1, <2>1, <4>1 DEF Pending, decoderVars
    <3>3. QED
      BY <3>1, <3>2
  <2>2. ASSUME NEW v \in Workers, worker[v] = "run", chunk[task[v]] = s
        PROVE  Pending(s)'
    BY <1>1, <2>2 DEF Pending, decoderVars
  <2>3. ASSUME NEW i \in DOMAIN queue', chunk'[queue'[i]] = s
        PROVE  Pending(s)
    <3>1. i + 1 \in DOMAIN queue /\ queue'[i] = queue[i + 1]
      BY <1>2
    <3>2. QED
      BY <1>1, <2>3, <3>1 DEF Pending, decoderVars
  <2>4. ASSUME NEW v \in Workers, worker'[v] = "run", chunk'[task'[v]] = s
        PROVE  Pending(s)
    BY <1>1, <1>2, <2>4 DEF Pending, decoderVars
  <2>5. Pending(s) => Pending(s)'
    BY <2>1, <2>2 DEF Pending
  <2>6. Pending(s)' => Pending(s)
    BY <2>3, <2>4 DEF Pending
  <2>7. QED
    BY <2>5, <2>6
<1>4. UNCHANGED <<sent, decoded>> /\ (Intact' => Intact)
  BY <1>1 DEF decoderVars, Intact
<1>5. QED
  BY <1>3, <1>4 DEF Accounted

\* ... then to the decoded ones.
LEMMA DecodeAccounts ==
  ASSUME TypeInv, Accounted, NEW w \in Workers, DecodeSlice(w)
  PROVE  Accounted'
<1>1. /\ queue' = queue /\ task' = task /\ chunk' = chunk /\ sent' = sent
      /\ worker[w] = "run" /\ worker'[w] = "free"
      /\ decoded' = decoded \cup {chunk[task[w]]}
      /\ \A v \in Workers : v # w => worker'[v] = worker[v]
  BY DEF DecodeSlice, TypeInv, TypeOK, PoolTypeOK
<1>2. \A s : s \in decoded' \/ Pending(s)' <=> s \in decoded \/ Pending(s)
  BY <1>1 DEF Pending
<1>3. Intact' => Intact
  BY DEF DecodeSlice, Intact
<1>4. QED
  BY <1>1, <1>2, <1>3 DEF Accounted

\* A buffer that is put back no longer holds a slice that matters.
LEMMA FreeAccounts ==
  ASSUME TypeInv, OneHolder, Accounted, NEW w \in Workers, FreeSliceBuffer(w)
  PROVE  Accounted'
<1>1. /\ queue' = queue /\ task' = task /\ sent' = sent /\ decoded' = decoded
      /\ worker[w] = "free" /\ worker'[w] = "finish"
      /\ \A v \in Workers : v # w => worker'[v] = worker[v]
      /\ \A b \in Buffers : b # task[w] => chunk'[b] = chunk[b]
  BY DEF FreeSliceBuffer, TypeInv, TypeOK, PoolTypeOK
<1>2. \A i \in DOMAIN queue : queue[i] \in Buffers /\ queue[i] # task[w]
  <2>1. \A i \in DOMAIN queue : queue[i] \in Params
    BY LenProperties DEF TypeInv, TypeOK, PoolTypeOK
  <2>2. QED
    BY <1>1, <2>1 DEF OneHolder, Reading, Buffers
<1>3. \A v \in Workers : worker[v] = "run" => task[v] \in Buffers /\ task[v] # task[w]
  BY <1>1 DEF OneHolder, Reading, TypeInv, Holding
<1>4. \A s : Pending(s)' <=> Pending(s)
  BY <1>1, <1>2, <1>3 DEF Pending
<1>5. Intact' => Intact
  BY DEF FreeSliceBuffer, Intact
<1>6. QED
  BY <1>1, <1>4, <1>5 DEF Accounted

\* A slice that is sent is queued.
LEMMA EnqueueAccounts ==
  ASSUME TypeInv, OneHolder, Accounted, FillAndEnqueue
  PROVE  Accounted'
<1>1. /\ queue \in Seq(Params) /\ slice \in Params /\ queue' = Append(queue, slice)
      /\ worker' = worker /\ task' = task /\ decoded' = decoded
      /\ sent' = sent + 1 /\ sent \in 0 .. MaxSlices /\ MaxSlices \in Nat
      /\ chunk'[slice] = sent + 1
      /\ \A b \in Buffers : b # slice => chunk'[b] = chunk[b]
      /\ pc = "fill"
  BY SliceAssumption DEF FillAndEnqueue, Enqueue, TypeInv, Holding, TypeOK, PoolTypeOK, Buffers
<1>2. /\ Len(queue) \in Nat /\ DOMAIN queue = 1 .. Len(queue)
      /\ DOMAIN queue' = 1 .. Len(queue) + 1
      /\ \A i \in 1 .. Len(queue) : queue'[i] = queue[i]
      /\ queue'[Len(queue) + 1] = slice
  BY <1>1, AppendOf
<1>3. \A i \in DOMAIN queue : queue[i] \in Buffers /\ queue[i] # slice
  BY <1>1, LenProperties DEF OneHolder, Buffers
<1>4. \A v \in Workers : worker[v] = "run" => task[v] \in Buffers /\ task[v] # slice
  BY <1>1 DEF OneHolder, Reading, TypeInv, Holding
<1>5. ASSUME NEW s
      PROVE  Pending(s)' <=> Pending(s) \/ s = sent + 1
  <2>1. (\E i \in DOMAIN queue' : chunk'[queue'[i]] = s)
        <=> (\E i \in DOMAIN queue : chunk[queue[i]] = s) \/ s = sent + 1
    <3>1. \A i \in DOMAIN queue : i \in DOMAIN queue' /\ chunk'[queue'[i]] = chunk[queue[i]]
      BY <1>1, <1>2, <1>3
    <3>2. Len(queue) + 1 \in DOMAIN queue' /\ chunk'[queue'[Len(queue) + 1]] = sent + 1
      BY <1>1, <1>2
    <3>3. \A i \in DOMAIN queue' : i \in DOMAIN queue \/ i = Len(queue) + 1
      BY <1>2
    <3>4. QED
      BY <3>1, <3>2, <3>3
  <2>2. \A v \in Workers : worker'[v] = "run" /\ chunk'[task'[v]] = s
                           <=> worker[v] = "run" /\ chunk[task[v]] = s
    BY <1>1, <1>4
  <2>3. QED
    BY <2>1, <2>2 DEF Pending
<1>6. Intact
  BY <1>1 DEF Intact
<1>7. \A s \in 0 .. MaxSlices : s \in 1 .. sent' <=> s \in 1 .. sent \/ s = sent + 1
  BY <1>1
<1>8. QED
  BY <1>1, <1>5, <1>6, <1>7 DEF Accounted

LEMMA AccountedInv ==
  ASSUME ControlInv, OneHolder, Accounted, [Next]_vars
  PROVE  Accounted'
<1> USE DEF ControlInv
<1>1. CASE \/ UNCHANGED vars \/ Moves \/ AnyEnter \/ AnyTest \/ WaitTest \/ GetBuffer
           \/ CloseStop \/ CloseSignal
  BY <1>1, SameSlicesSteps, SameSlicesKeeps
<1>2. ASSUME NEW w \in Workers, Worker(w)
      PROVE  Accounted'
  <2>1. CASE WorkerTake(w) /\ UNCHANGED decoderVars
    BY <2>1, TakeAccounts
  <2>2. CASE DecodeSlice(w)
    BY <2>2, DecodeAccounts
  <2>3. CASE FreeSliceBuffer(w)
    BY <2>3, FreeAccounts
  <2>4. CASE \/ WorkerExit(w) /\ UNCHANGED decoderVars
             \/ WorkerSleep(w) /\ UNCHANGED decoderVars
             \/ WorkerWake(w) /\ UNCHANGED decoderVars
             \/ WorkerFinish(w) /\ UNCHANGED decoderVars
    BY <2>4, SameSlicesSteps, SameSlicesKeeps
  <2>5. QED
    BY <1>2, <2>1, <2>2, <2>3, <2>4 DEF Worker, WorkerLoop
<1>3. CASE Close \/ ChunkOverflow \/ CloseFree
  <2>1. ~Intact'
    BY <1>3 DEF Close, ChunkOverflow, CloseFree, Intact
  <2>2. QED
    BY <2>1 DEF Accounted
<1>4. CASE FillAndEnqueue
  BY <1>4, EnqueueAccounts
<1>5. CASE SliceStart
  <2>1. queue' = <<>> /\ sent' = 0 /\ decoded' = {} /\ worker' = worker
    BY <1>5 DEF SliceStart, Quiet, poolVars
  <2>2. \A w \in Workers : worker[w] # "run"
    <3>1. Busy = {}
      BY <1>5, BusyFinite DEF SliceStart, Quiet, BusyIsRunning
    <3>2. QED
      BY <3>1 DEF Busy
  <2>3. \A s : ~Pending(s)'
    BY <2>1, <2>2 DEF Pending
  <2>4. QED
    BY <2>1, <2>3 DEF Accounted
<1>6. CASE Open
  <2>1. queue' = <<>> /\ sent' = 0 /\ decoded' = {} /\ worker' = [w \in Workers |-> "test"]
    BY <1>6 DEF Open, PoolCreate
  <2>2. \A s : ~Pending(s)'
    BY <2>1 DEF Pending
  <2>3. QED
    BY <2>1, <2>2 DEF Accounted
<1>7. QED
  BY <1>1, <1>2, <1>3, <1>4, <1>5, <1>6 DEF Next, Library, Moves

LEMMA InitAccounted == Init => Accounted
BY DEF Init, Accounted, Intact

\* When mpeg2_parse returns STATE_SLICE, the slices of the picture that were
\* sent to the pool have all been decoded (decode.c 238-305), for any number
\* of threads and any number of slices: the frame that the filter then
\* displays or references is complete.
THEOREM FramesComplete == Spec => []FrameComplete
<1> DEFINE All == ControlInv /\ BuffersPartitioned /\ Accounted
<1>1. Init => All
  BY InitControl, InitBuffers, InitAccounted
<1>2. All /\ [Next]_vars => All'
  BY NextControl, BuffersInv, AccountedInv DEF ControlInv, BuffersPartitioned
<1>3. All => FrameComplete
  <2>1. SUFFICES ASSUME All, pc = "caller", ret = "SLICE"
                 PROVE  decoded = 1 .. sent
    BY DEF FrameComplete
  <2>2. queue = <<>> /\ Busy = {}
    BY <2>1, BusyFinite DEF ControlInv, Position, Quiet, BusyIsRunning
  <2>3. \A s : ~Pending(s)
    BY <2>2 DEF Pending, Busy
  <2>4. Intact
    BY <2>1 DEF Intact
  <2>5. \A s \in 0 .. MaxSlices : s \in 1 .. sent <=> s \in decoded
    BY <2>1, <2>3, <2>4 DEF Accounted
  <2>6. decoded \in SUBSET (0 .. MaxSlices) /\ sent \in 0 .. MaxSlices /\ MaxSlices \in Nat
    BY <2>1, SliceAssumption DEF ControlInv, TypeInv, TypeOK
  <2>7. \A s \in 1 .. sent : s \in 0 .. MaxSlices
    BY <2>6
  <2>8. \A s : s \in decoded <=> s \in 1 .. sent
    BY <2>5, <2>6, <2>7, Zenon
  <2>9. QED
    BY <2>8, Zenon
<1>4. QED
  BY <1>1, <1>2, <1>3, PTL DEF Spec

-----------------------------------------------------------------------------
(* The events *)

\* A pool is stopped only by a close, after the queue has been emptied.
Stopped == stop => pc \in {"signal", "join"}

\* The local variable of wait_any is read only when somebody was running.
OldCount == pc \in {"anySleep", "anyTest"} => old_busy_count > 0

EventInv == Stopped /\ OldCount /\ NoStrandedTask /\ SleeperIsWoken

LEMMA MovesPlaces ==
  ASSUME Moves, Position, TypeInv
  PROVE  /\ pc \notin {"signal", "join"}
         /\ pc' \notin {"signal", "join", "anySleep", "waitSleep"}
         /\ pc' = "anyTest" => pc = "anySleep"
BY DEF Moves, Return, Parse, HeaderReturn, NeedData, SliceFound, SlicesEnd, NoBuffer,
       PictureEnd, SkipSlice, InvalidReturn, AnyWake, WaitWake, TypeInv, TypeOK

LEMMA StoppedInv ==
  ASSUME ControlInv, Stopped, [Next]_vars
  PROVE  Stopped'
<1> USE DEF Stopped
<1>1. CASE UNCHANGED vars
  BY <1>1 DEF vars, poolVars, decoderVars
<1>2. ASSUME NEW w \in Workers, Worker(w)
      PROVE  Stopped'
  BY <1>2 DEF Worker, WorkerLoop, WorkerExit, WorkerSleep, WorkerWake, WorkerTake, WorkerFinish,
              DecodeSlice, FreeSliceBuffer, decoderVars
<1>3. CASE Moves
  BY <1>3, MovesStill, MovesPlaces DEF Still, poolVars, ControlInv
<1>4. CASE SliceStart \/ AnyEnter \/ AnyTest \/ WaitTest \/ GetBuffer \/ FillAndEnqueue
  BY <1>4 DEF SliceStart, AnyEnter, AnyTest, WaitTest, GetBuffer, FillAndEnqueue,
              ArmFinished, Enqueue, poolVars
<1>5. CASE Close \/ ChunkOverflow
  BY <1>5 DEF Close, ChunkOverflow, AbortSlices, Abort
<1>6. CASE Open \/ CloseStop \/ CloseSignal \/ CloseFree
  BY <1>6 DEF Open, PoolCreate, CloseStop, CloseSignal, SignalStop, CloseFree, PoolFree
<1>7. QED
  BY <1>1, <1>2, <1>3, <1>4, <1>5, <1>6 DEF Next, Library, Moves

LEMMA OldCountInv ==
  ASSUME ControlInv, OldCount, [Next]_vars
  PROVE  OldCount'
<1> USE DEF OldCount
<1>1. CASE UNCHANGED vars
  BY <1>1 DEF vars, decoderVars
<1>2. ASSUME NEW w \in Workers, Worker(w)
      PROVE  OldCount'
  BY <1>2 DEF Worker, DecodeSlice, FreeSliceBuffer, decoderVars
<1>3. CASE Moves
  <2>1. UNCHANGED old_busy_count
    BY <1>3 DEF Moves, Parse, HeaderReturn, NeedData, SliceFound, SlicesEnd, NoBuffer,
                PictureEnd, SkipSlice, InvalidReturn, AnyWake, WaitWake
  <2>2. QED
    BY <1>3, <2>1, MovesPlaces DEF ControlInv
<1>4. CASE AnyEnter
  <2>1. busy_count \in Nat
    BY BusyFinite DEF ControlInv, BusyIsRunning
  <2>2. QED
    BY <1>4, <2>1 DEF AnyEnter
<1>5. CASE AnyTest
  BY <1>5 DEF AnyTest
<1>6. CASE SliceStart \/ WaitTest \/ GetBuffer \/ FillAndEnqueue \/ Close \/ ChunkOverflow
  BY <1>6 DEF SliceStart, WaitTest, GetBuffer, FillAndEnqueue, Close, ChunkOverflow,
              ControlInv, TypeInv, TypeOK
<1>7. CASE Open \/ CloseStop \/ CloseSignal \/ CloseFree
  BY <1>7 DEF Open, CloseStop, CloseSignal, CloseFree
<1>8. QED
  BY <1>1, <1>2, <1>3, <1>4, <1>5, <1>6, <1>7 DEF Next, Library, Moves

LEMMA StrandedInv ==
  ASSUME ControlInv, Stopped, NoStrandedTask, [Next]_vars
  PROVE  NoStrandedTask'
<1> USE DEF NoStrandedTask
<1>1. CASE UNCHANGED <<queue, queue_event, worker>>
  BY <1>1
<1>2. ASSUME NEW w \in Workers, Worker(w)
      PROVE  NoStrandedTask'
  <2>1. CASE WorkerExit(w)
    <3>1. queue' = <<>>
      BY <2>1 DEF WorkerExit, Stopped, ControlInv, Quiet
    <3>2. QED
      BY <3>1
  <2>2. CASE WorkerSleep(w)
    BY <2>2 DEF WorkerSleep
  <2>3. CASE \/ WorkerWake(w) \/ WorkerTake(w) \/ WorkerFinish(w)
             \/ DecodeSlice(w) \/ FreeSliceBuffer(w)
    <3>1. worker'[w] \in {"test", "run", "free", "finish"}
      BY <2>3 DEF WorkerWake, WorkerTake, WorkerFinish, DecodeSlice, FreeSliceBuffer,
                  ControlInv, TypeInv, TypeOK, PoolTypeOK
    <3>2. QED
      BY <3>1
  <2>4. QED
    BY <1>2, <2>1, <2>2, <2>3 DEF Worker, WorkerLoop
<1>3. CASE FillAndEnqueue
  BY <1>3 DEF FillAndEnqueue, Enqueue
<1>4. CASE Close \/ ChunkOverflow \/ Open \/ CloseFree
  <2>1. queue' = <<>>
    BY <1>4 DEF Close, ChunkOverflow, AbortSlices, Abort, Open, PoolCreate, CloseFree, PoolFree
  <2>2. QED
    BY <2>1
<1>5. CASE CloseSignal
  BY <1>5 DEF CloseSignal, SignalStop
<1>6. CASE Moves \/ UNCHANGED vars
  BY <1>1, <1>6, MovesStill DEF Still, poolVars, vars
<1>7. CASE SliceStart \/ AnyEnter \/ AnyTest \/ WaitTest \/ GetBuffer \/ CloseStop
  BY <1>1, <1>7 DEF SliceStart, AnyEnter, AnyTest, WaitTest, GetBuffer, CloseStop, SetStop,
                    ArmFinished, poolVars
<1>8. QED
  BY <1>2, <1>3, <1>4, <1>5, <1>6, <1>7 DEF Next, Library, Moves

LEMMA SleeperInv ==
  ASSUME ControlInv, OldCount, SleeperIsWoken, [Next]_vars
  PROVE  SleeperIsWoken'
<1> USE DEF SleeperIsWoken, Unfinished
<1>1. busy_count \in Nat
  BY BusyFinite DEF ControlInv, BusyIsRunning
<1>2. CASE UNCHANGED vars
  BY <1>2 DEF vars, poolVars, decoderVars
<1>3. ASSUME NEW w \in Workers, Worker(w)
      PROVE  SleeperIsWoken'
  <2>1. pc' = pc
    BY <1>3 DEF Worker, DecodeSlice, FreeSliceBuffer, decoderVars
  <2>2. CASE WorkerTake(w)
    <3>1. busy_count' > 0 /\ busy_count' # 0
      BY <1>1, <2>2 DEF WorkerTake
    <3>2. QED
      BY <3>1
  <2>3. CASE WorkerFinish(w)
    <3>1. finished_event' = TRUE
      BY <2>3 DEF WorkerFinish
    <3>2. QED
      BY <3>1, Zenon
  <2>4. CASE \/ WorkerExit(w) \/ WorkerSleep(w) \/ WorkerWake(w)
             \/ DecodeSlice(w) \/ FreeSliceBuffer(w)
    <3>1. UNCHANGED <<queue, busy_count, finished_event>>
      BY <2>4 DEF WorkerExit, WorkerSleep, WorkerWake, DecodeSlice, FreeSliceBuffer
    <3>2. QED
      BY <2>1, <3>1
  <2>5. QED
    BY <1>3, <2>2, <2>3, <2>4 DEF Worker, WorkerLoop
<1>4. CASE Moves
  BY <1>4, MovesPlaces DEF ControlInv
<1>5. CASE AnyEnter
  BY <1>1, <1>5 DEF AnyEnter, ArmFinished
<1>6. CASE AnyTest
  BY <1>1, <1>6 DEF AnyTest, ArmFinished, OldCount, ControlInv, TypeInv, TypeOK
<1>7. CASE WaitTest
  BY <1>7 DEF WaitTest, ArmFinished, ControlInv, TypeInv, TypeOK
<1>8. CASE SliceStart \/ GetBuffer \/ FillAndEnqueue \/ Close \/ ChunkOverflow
  BY <1>8 DEF SliceStart, GetBuffer, FillAndEnqueue, Close, ChunkOverflow
<1>9. CASE Open \/ CloseStop \/ CloseSignal \/ CloseFree
  BY <1>9 DEF Open, CloseStop, CloseSignal, CloseFree
<1>10. QED
  BY <1>2, <1>3, <1>4, <1>5, <1>6, <1>7, <1>8, <1>9 DEF Next, Library, Moves

LEMMA EventsCorrect == Spec => []EventInv
<1>1. Init => EventInv
  BY DEF Init, PoolAbsent, EventInv, Stopped, OldCount, NoStrandedTask, SleeperIsWoken
<1>2. ControlInv /\ EventInv /\ [Next]_vars => EventInv'
  BY StoppedInv, OldCountInv, StrandedInv, SleeperInv DEF EventInv
<1>3. QED
  BY <1>1, <1>2, ControlCorrect, PTL DEF Spec

\* No queued task is ever left with every worker asleep and no event set to
\* wake one (thread_win.c 84-120), though a take resets queue_event with tasks
\* still queued.
THEOREM TasksNotStranded == Spec => []NoStrandedTask
<1>1. EventInv => NoStrandedTask
  BY DEF EventInv
<1>2. QED
  BY <1>1, EventsCorrect, PTL

\* The decoder thread never waits for finished_event when nobody is left to
\* set it (thread_win.c 243-274): the safety half of the end of every wait.
THEOREM SleepersWoken == Spec => []SleeperIsWoken
<1>1. EventInv => SleeperIsWoken
  BY DEF EventInv
<1>2. QED
  BY <1>1, EventsCorrect, PTL

\* Both halves: no thread of the pool and no caller of its waits sleeps for
\* good while there is work to do.
THEOREM WakeUpsKept == Spec => []NoLostWakeUp
<1>1. NoStrandedTask /\ SleeperIsWoken => NoLostWakeUp
  BY DEF NoLostWakeUp
<1>2. QED
  BY <1>1, TasksNotStranded, SleepersWoken, PTL

-----------------------------------------------------------------------------
(* The task nodes *)

\* Queued buffers are distinct, so that there is one left for each slice that
\* is enqueued.
LEMMA QueueFits ==
  ASSUME TypeInv, OneHolder, pc = "fill"
  PROVE  Len(queue) + 1 <= Cardinality(Buffers)
<1> DEFINE q == Append(queue, slice)
           n == Len(queue) + 1
<1>1. queue \in Seq(Buffers) /\ slice \in Buffers
  BY DEF TypeInv, TypeOK, PoolTypeOK, Holding, Buffers
<1>2. /\ Len(queue) \in Nat /\ n \in Nat /\ DOMAIN queue = 1 .. Len(queue)
      /\ q \in [1 .. n -> Buffers]
      /\ \A i \in 1 .. Len(queue) : q[i] = queue[i]
      /\ q[n] = slice
  <2>1. q \in Seq(Buffers) /\ Len(q) = n
    BY <1>1, LenProperties
  <2>2. q \in [1 .. n -> Buffers]
    BY <2>1, LenProperties
  <2>3. QED
    BY <1>1, <2>2, AppendOf
<1>3. ASSUME NEW i \in 1 .. n, NEW j \in 1 .. n, q[i] = q[j]
      PROVE  i = j
  <2>1. \A k \in 1 .. n : k = n \/ k \in 1 .. Len(queue)
    BY <1>2
  <2>2. \A k \in 1 .. Len(queue) : queue[k] # slice
    BY <1>2 DEF OneHolder
  <2>3. QED
    BY <1>2, <1>3, <2>1, <2>2 DEF OneHolder
<1> HIDE DEF q, n
<1>4. q \in Injection(1 .. n, Buffers)
  BY <1>2, <1>3 DEF Injection, IsInjective
<1>5. Cardinality(1 .. n) <= Cardinality(Buffers)
  BY <1>4, SliceAssumption, FS_Injection
<1>6. Cardinality(1 .. n) = n
  BY <1>2, FS_Interval
<1>7. QED
  BY <1>5, <1>6 DEF n

LEMMA BusyBounded == Cardinality(Busy) <= Cardinality(Workers)
<1>1. Busy \in SUBSET Workers
  BY DEF Busy
<1>2. QED
  BY <1>1, PoolAssumption, FS_Subset

LEMMA NodesInv ==
  ASSUME ControlInv, OneHolder, NodesBounded, [Next]_vars
  PROVE  NodesBounded'
<1> DEFINE B == Cardinality(Buffers)
           W == Cardinality(Workers)
<1>1. /\ B \in Nat /\ W \in Nat
      /\ free_tasks \in Nat /\ Len(queue) \in Nat
      /\ busy_count = Cardinality(Busy) /\ busy_count \in Nat /\ busy_count <= W
      /\ free_tasks + Len(queue) + busy_count <= B + W
  <2>1. B \in Nat /\ W \in Nat
    BY PoolAssumption, SliceAssumption, FS_CardinalityType
  <2>2. busy_count = Cardinality(Busy) /\ busy_count \in Nat /\ busy_count <= W
    BY BusyFinite, BusyBounded DEF ControlInv, BusyIsRunning
  <2>3. free_tasks \in Nat /\ Len(queue) \in Nat
    BY LenProperties DEF ControlInv, TypeInv, TypeOK, PoolTypeOK
  <2>4. QED
    BY <2>1, <2>2, <2>3 DEF NodesBounded
<1>2. busy_count' = Cardinality(Busy)'
  BY BusyInv DEF ControlInv, BusyIsRunning
<1>3. SUFFICES free_tasks' + Len(queue') + busy_count' <= B + W
  BY <1>2 DEF NodesBounded
<1> HIDE DEF B, W
<1>4. CASE UNCHANGED <<free_tasks, queue, busy_count>>
  BY <1>1, <1>4
<1>5. ASSUME NEW w \in Workers, Worker(w)
      PROVE  free_tasks' + Len(queue') + busy_count' <= B + W
  <2>1. CASE WorkerTake(w)
    <3>1. Len(queue') = Len(queue) - 1
      BY <2>1, HeadTailProperties DEF WorkerTake, ControlInv, TypeInv, TypeOK, PoolTypeOK
    <3>2. free_tasks' = free_tasks /\ busy_count' = busy_count + 1
      BY <2>1 DEF WorkerTake
    <3>3. QED
      BY <1>1, <3>1, <3>2
  <2>2. CASE WorkerFinish(w)
    BY <1>1, <2>2 DEF WorkerFinish
  <2>3. CASE \/ WorkerExit(w) \/ WorkerSleep(w) \/ WorkerWake(w)
             \/ DecodeSlice(w) \/ FreeSliceBuffer(w)
    BY <1>4, <2>3 DEF WorkerExit, WorkerSleep, WorkerWake, DecodeSlice, FreeSliceBuffer
  <2>4. QED
    BY <1>5, <2>1, <2>2, <2>3 DEF Worker, WorkerLoop
<1>6. CASE Open \/ CloseFree
  <2>1. free_tasks' = 0 /\ queue' = <<>> /\ busy_count' = 0
    BY <1>6 DEF Open, PoolCreate, CloseFree, PoolFree
  <2>2. Len(queue') = 0
    BY <2>1
  <2>3. QED
    BY <1>1, <2>1, <2>2
<1>7. CASE Close \/ ChunkOverflow
  <2>1. free_tasks' = free_tasks + Len(queue) /\ queue' = <<>> /\ busy_count' = busy_count
    BY <1>7 DEF Close, ChunkOverflow, AbortSlices, Abort
  <2>2. Len(queue') = 0
    BY <2>1
  <2>3. QED
    BY <1>1, <2>1, <2>2
<1>8. CASE FillAndEnqueue
  <2>1. /\ free_tasks' = IF free_tasks > 0 THEN free_tasks - 1 ELSE 0
        /\ queue' = Append(queue, slice) /\ busy_count' = busy_count
    BY <1>8 DEF FillAndEnqueue, Enqueue
  <2>2. Len(queue') = Len(queue) + 1
    BY <1>8, <2>1, LenProperties
       DEF FillAndEnqueue, ControlInv, TypeInv, TypeOK, PoolTypeOK, Holding, Buffers
  <2>3. Len(queue) + 1 <= B
    BY <1>8, QueueFits DEF FillAndEnqueue, ControlInv, B
  <2>4. QED
    BY <1>1, <2>1, <2>2, <2>3
<1>9. CASE Parse \/ (Library /\ ~CloseFree /\ ~ChunkOverflow /\ ~FillAndEnqueue)
  BY <1>4, <1>9
     DEF Library, Parse, HeaderReturn, SliceStart, NeedData, SliceFound, SlicesEnd, GetBuffer,
         NoBuffer, PictureEnd, SkipSlice, InvalidReturn, AnyEnter, AnyWake, AnyTest, WaitTest,
         WaitWake, CloseStop, CloseSignal, ArmFinished, SetStop, SignalStop, poolVars
<1>10. CASE UNCHANGED vars
  BY <1>4, <1>10 DEF vars, poolVars
<1>11. QED
  BY <1>5, <1>6, <1>7, <1>8, <1>9, <1>10 DEF Next

\* mpeg2_thread_pool_enqueue allocates a node when its list is empty
\* (thread_win.c 178-208); there are never more nodes than slice buffers and
\* threads, however long the stream, for any number of threads.
THEOREM NodesStayBounded == Spec => []NodesBounded
<1>1. Init => NodesBounded
  <2>1. SUFFICES ASSUME Init PROVE NodesBounded
    OBVIOUS
  <2>2. free_tasks = 0 /\ Len(queue) = 0 /\ Cardinality(Busy) = 0
    <3>1. Busy = {}
      BY <2>1 DEF Init, PoolAbsent, Busy
    <3>2. QED
      BY <2>1, <3>1, FS_EmptySet DEF Init, PoolAbsent
  <2>3. Cardinality(Buffers) \in Nat /\ Cardinality(Workers) \in Nat
    BY PoolAssumption, SliceAssumption, FS_CardinalityType
  <2>4. QED
    BY <2>2, <2>3 DEF NodesBounded
<1>2. QED
  BY <1>1, NodesInv, ControlCorrect, BuffersSafe, PTL DEF Spec, BuffersPartitioned
-----------------------------------------------------------------------------
(* The promise of SliceWork *)

\* The buffers of the slices that are queued or being decoded.
InFlight == Queued \cup InWorker({"run"})

\* Each holds a slice of its own, also when the picture has been given up.
Distinct ==
  \A b \in InFlight : chunk[b] \in 1 .. sent /\ \A c \in InFlight : chunk[b] = chunk[c] => b = c

PromiseInv == ControlInv /\ OneHolder /\ Accounted /\ Distinct

SameFlight == InFlight' = InFlight /\ \A b \in InFlight : chunk'[b] = chunk[b]

LEMMA FlightMembers ==
  /\ \A b : b \in InFlight <=> \/ \E i \in DOMAIN queue : queue[i] = b
                               \/ \E w \in Workers : worker[w] = "run" /\ task[w] = b
  /\ \A b : b \in InFlight' <=> \/ \E i \in DOMAIN queue' : queue'[i] = b
                                \/ \E w \in Workers : worker'[w] = "run" /\ task'[w] = b
BY DEF InFlight, Queued, InWorker

LEMMA FlightTypes == ASSUME TypeInv PROVE InFlight \in SUBSET Buffers
<1>1. \A i \in DOMAIN queue : queue[i] \in Buffers
  BY LenProperties DEF TypeInv, TypeOK, PoolTypeOK, Buffers
<1>2. \A w \in Workers : worker[w] = "run" => task[w] \in Buffers
  BY DEF TypeInv, Holding
<1>3. QED
  BY <1>1, <1>2, FlightMembers

\* What nobody queues, takes or decodes stays in flight.
LEMMA FlightStays ==
  ASSUME SameSlices PROVE SameFlight
<1>1. \A b : b \in InFlight' <=> b \in InFlight
  BY FlightMembers DEF SameSlices
<1>2. QED
  BY <1>1, Zenon DEF SameSlices, SameFlight

\* In flight is what Pending counts, and nothing between two pictures.
LEMMA FlightPending ==
  /\ \A s : Pending(s) <=> \E b \in InFlight : chunk[b] = s
  /\ \A s : s \in PendingSlices <=> \E b \in InFlight : chunk[b] = s
  /\ \A s : s \in PendingSlices' <=> \E b \in InFlight' : chunk'[b] = s
<1>1. \A s : Pending(s) <=> \E b \in InFlight : chunk[b] = s
  BY FlightMembers DEF Pending
<1>2. QED
  BY <1>1 DEF PendingSlices, InFlight

LEMMA QuietFlight ==
  ASSUME ControlInv, queue = <<>>, busy_count = 0
  PROVE  InFlight = {}
<1>1. Busy = {}
  BY BusyFinite DEF ControlInv, BusyIsRunning
<1>2. QED
  BY <1>1, FlightMembers DEF Busy

LEMMA TakeFlight ==
  ASSUME TypeInv, NEW w \in Workers, WorkerTake(w), UNCHANGED decoderVars
  PROVE  SameFlight
<1>1. /\ queue \in Seq(Params) /\ queue # <<>> /\ queue' = Tail(queue)
      /\ worker[w] = "test" /\ worker'[w] = "run" /\ task'[w] = Head(queue)
      /\ \A v \in Workers : v # w => worker'[v] = worker[v] /\ task'[v] = task[v]
  BY DEF WorkerTake, TypeInv, TypeOK, PoolTypeOK
<1>2. /\ DOMAIN queue = 1 .. Len(queue) /\ Len(queue) \in Nat \ {0}
      /\ DOMAIN queue' = 1 .. Len(queue) - 1
      /\ \A i \in 1 .. Len(queue) - 1 : queue'[i] = queue[i + 1]
      /\ task'[w] = queue[1]
  BY <1>1, TailOf
<1>3. ASSUME NEW b
      PROVE  (\E i \in DOMAIN queue : queue[i] = b)
             <=> (\E i \in DOMAIN queue' : queue'[i] = b) \/ task'[w] = b
  <2>1. ASSUME NEW i \in DOMAIN queue, queue[i] = b
        PROVE  (\E j \in DOMAIN queue' : queue'[j] = b) \/ task'[w] = b
    <3>1. i = 1 \/ (i - 1 \in DOMAIN queue' /\ queue'[i - 1] = queue[i])
      BY <1>2
    <3>2. QED
      BY <1>2, <2>1, <3>1
  <2>2. ASSUME NEW i \in DOMAIN queue', queue'[i] = b
        PROVE  \E j \in DOMAIN queue : queue[j] = b
    <3>1. i + 1 \in DOMAIN queue /\ queue'[i] = queue[i + 1]
      BY <1>2
    <3>2. QED
      BY <2>2, <3>1
  <2>3. 1 \in DOMAIN queue
    BY <1>2
  <2>4. QED
    BY <1>2, <2>1, <2>2, <2>3
<1>4. \A b : (\E v \in Workers : worker'[v] = "run" /\ task'[v] = b)
             <=> (\E v \in Workers : worker[v] = "run" /\ task[v] = b) \/ task'[w] = b
  BY <1>1
<1>5. \A b : b \in InFlight' <=> b \in InFlight
  BY <1>3, <1>4, FlightMembers
<1>6. QED
  BY <1>5, Zenon DEF SameFlight, decoderVars

\* A slice that has been decoded is in flight no more.
LEMMA DecodeFlight ==
  ASSUME TypeInv, OneHolder, NEW w \in Workers, DecodeSlice(w)
  PROVE  /\ task[w] \in InFlight /\ chunk' = chunk
         /\ InFlight' = InFlight \ {task[w]}
<1>1. /\ queue' = queue /\ task' = task /\ chunk' = chunk
      /\ worker[w] = "run" /\ worker'[w] = "free"
      /\ \A v \in Workers : v # w => worker'[v] = worker[v]
  BY DEF DecodeSlice, TypeInv, TypeOK, PoolTypeOK
<1>2. /\ \A i \in DOMAIN queue : queue[i] # task[w]
      /\ \A v \in Workers : worker[v] = "run" /\ task[v] = task[w] => v = w
  BY <1>1 DEF OneHolder, Reading
<1>3. task[w] \in InFlight
  BY <1>1, FlightMembers
<1>4. \A b : b \in InFlight' <=> b \in InFlight /\ b # task[w]
  BY <1>1, <1>2, FlightMembers
<1>5. QED
  BY <1>1, <1>3, <1>4

LEMMA FreeFlight ==
  ASSUME TypeInv, OneHolder, NEW w \in Workers, FreeSliceBuffer(w)
  PROVE  SameFlight
<1>1. /\ queue' = queue /\ task' = task
      /\ worker[w] = "free" /\ worker'[w] = "finish"
      /\ \A v \in Workers : v # w => worker'[v] = worker[v]
      /\ \A b \in Buffers : b # task[w] => chunk'[b] = chunk[b]
  BY DEF FreeSliceBuffer, TypeInv, TypeOK, PoolTypeOK
<1>2. \A b : b \in InFlight' <=> b \in InFlight
  BY <1>1, FlightMembers
<1>3. task[w] \notin InFlight
  BY <1>1, FlightMembers DEF OneHolder, Reading
<1>4. \A b \in InFlight : chunk'[b] = chunk[b]
  BY <1>1, <1>3, FlightTypes
<1>5. QED
  BY <1>2, <1>4, Zenon DEF SameFlight

\* The slice that is sent is one more.
LEMMA EnqueueFlight ==
  ASSUME TypeInv, OneHolder, FillAndEnqueue
  PROVE  /\ InFlight' = InFlight \cup {slice} /\ slice \notin InFlight
         /\ chunk'[slice] = sent + 1
         /\ \A b \in InFlight : chunk'[b] = chunk[b]
<1>1. /\ queue \in Seq(Params) /\ slice \in Params /\ queue' = Append(queue, slice)
      /\ worker' = worker /\ task' = task
      /\ chunk'[slice] = sent + 1
      /\ \A b \in Buffers : b # slice => chunk'[b] = chunk[b]
      /\ pc = "fill"
  BY DEF FillAndEnqueue, Enqueue, TypeInv, Holding, TypeOK, PoolTypeOK, Buffers
<1>2. /\ Len(queue) \in Nat /\ DOMAIN queue = 1 .. Len(queue)
      /\ DOMAIN queue' = 1 .. Len(queue) + 1
      /\ \A i \in 1 .. Len(queue) : queue'[i] = queue[i]
      /\ queue'[Len(queue) + 1] = slice
  BY <1>1, AppendOf
<1>3. slice \notin InFlight
  BY <1>1, FlightMembers DEF OneHolder, Reading
<1>4. /\ \A i \in DOMAIN queue : i \in DOMAIN queue' /\ queue'[i] = queue[i]
      /\ Len(queue) + 1 \in DOMAIN queue'
      /\ \A i \in DOMAIN queue' : i \in DOMAIN queue \/ i = Len(queue) + 1
  BY <1>2
<1>5. \A b : (\E i \in DOMAIN queue' : queue'[i] = b)
             <=> (\E i \in DOMAIN queue : queue[i] = b) \/ b = slice
  BY <1>2, <1>4
<1>6. \A b : b \in InFlight' <=> b \in InFlight \/ b = slice
  BY <1>1, <1>5, FlightMembers
<1>7. InFlight' = InFlight \cup {slice}
  BY <1>6
<1>8. \A b \in InFlight : chunk'[b] = chunk[b]
  BY <1>1, <1>3, FlightTypes
<1>9. QED
  BY <1>1, <1>3, <1>7, <1>8

\* An abort leaves what runs.
LEMMA AbortFlight ==
  ASSUME TypeInv, OneHolder, AbortSlices
  PROVE  InFlight' \in SUBSET InFlight /\ \A b \in InFlight' : chunk'[b] = chunk[b]
<1>1. /\ queue' = <<>> /\ DOMAIN queue' = {} /\ worker' = worker /\ task' = task
      /\ \A b \in Buffers : b \notin Queued => chunk'[b] = chunk[b]
  BY DEF AbortSlices, Abort, Queued
<1>2. \A b : b \in Queued <=> \E i \in DOMAIN queue : queue[i] = b
  BY DEF Queued
<1>3. \A b \in InFlight' : b \in InFlight /\ b \notin Queued
  BY <1>1, <1>2, FlightMembers DEF OneHolder, Reading
<1>4. QED
  BY <1>1, <1>3, FlightTypes
LEMMA SameDistinct ==
  ASSUME SameFlight, Distinct, sent' = sent
  PROVE  Distinct'
BY DEF SameFlight, Distinct

LEMMA DistinctInv ==
  ASSUME ControlInv, OneHolder, Distinct, [Next]_vars
  PROVE  Distinct'
<1> USE DEF ControlInv
<1>1. CASE \/ UNCHANGED vars \/ Moves \/ AnyEnter \/ AnyTest \/ WaitTest \/ GetBuffer
           \/ CloseStop \/ CloseSignal
  BY <1>1, SameSlicesSteps, FlightStays, SameDistinct DEF SameSlices
<1>2. ASSUME NEW w \in Workers, Worker(w)
      PROVE  Distinct'
  <2>1. CASE WorkerTake(w) /\ UNCHANGED decoderVars
    BY <2>1, TakeFlight, SameDistinct DEF decoderVars
  <2>2. CASE DecodeSlice(w)
    <3>1. InFlight' \in SUBSET InFlight /\ chunk' = chunk /\ sent' = sent
      BY <2>2, DecodeFlight DEF DecodeSlice
    <3>2. QED
      BY <3>1 DEF Distinct
  <2>3. CASE FreeSliceBuffer(w)
    BY <2>3, FreeFlight, SameDistinct DEF FreeSliceBuffer
  <2>4. CASE \/ WorkerExit(w) /\ UNCHANGED decoderVars
             \/ WorkerSleep(w) /\ UNCHANGED decoderVars
             \/ WorkerWake(w) /\ UNCHANGED decoderVars
             \/ WorkerFinish(w) /\ UNCHANGED decoderVars
    BY <2>4, SameSlicesSteps, FlightStays, SameDistinct DEF SameSlices
  <2>5. QED
    BY <1>2, <2>1, <2>2, <2>3, <2>4 DEF Worker, WorkerLoop
<1>3. CASE Close \/ ChunkOverflow
  <2>1. AbortSlices /\ sent' = sent
    BY <1>3 DEF Close, ChunkOverflow
  <2>2. InFlight' \in SUBSET InFlight /\ \A b \in InFlight' : chunk'[b] = chunk[b]
    BY <2>1, AbortFlight
  <2>3. QED
    BY <2>1, <2>2 DEF Distinct
<1>4. CASE FillAndEnqueue
  <2>1. /\ InFlight' = InFlight \cup {slice} /\ slice \notin InFlight
        /\ chunk'[slice] = sent + 1
        /\ \A b \in InFlight : chunk'[b] = chunk[b]
    BY <1>4, EnqueueFlight
  <2>2. sent \in Nat /\ sent' = sent + 1
    BY <1>4, SliceAssumption DEF FillAndEnqueue, TypeInv, TypeOK
  <2>3. \A b \in InFlight : chunk'[b] \in 1 .. sent' /\ chunk'[b] # chunk'[slice]
    <3>1. \A b \in InFlight : chunk[b] \in 1 .. sent
      BY DEF Distinct
    <3>2. QED
      BY <2>1, <2>2, <3>1
  <2>4. chunk'[slice] \in 1 .. sent'
    BY <2>1, <2>2
  <2>5. \A b, c \in InFlight : chunk'[b] = chunk'[c] => b = c
    BY <2>1 DEF Distinct
  <2>6. ASSUME NEW b \in InFlight' PROVE b \in InFlight \/ b = slice
    BY <2>1
  <2>7. QED
    BY <2>3, <2>4, <2>5, <2>6 DEF Distinct
<1>5. CASE Open \/ SliceStart \/ CloseFree
  <2>1. queue' = <<>> /\ DOMAIN queue' = {}
    BY <1>5 DEF Open, PoolCreate, SliceStart, Quiet, poolVars, CloseFree, PoolFree
  <2>2. \A w \in Workers : worker'[w] # "run"
    <3>1. CASE Open
      BY <3>1 DEF Open, PoolCreate
    <3>2. CASE SliceStart
      <4>1. Busy = {}
        BY <3>2, BusyFinite DEF SliceStart, Quiet, BusyIsRunning
      <4>2. QED
        BY <3>2, <4>1 DEF SliceStart, poolVars, Busy
    <3>3. CASE CloseFree
      BY <3>3 DEF CloseFree, PoolFree, AllExited
    <3>4. QED
      BY <1>5, <3>1, <3>2, <3>3
  <2>3. \A b : b \notin InFlight'
    BY <2>1, <2>2, FlightMembers
  <2>4. QED
    BY <2>3 DEF Distinct
<1>6. QED
  BY <1>1, <1>2, <1>3, <1>4, <1>5 DEF Next, Library, Moves

LEMMA PromiseInvCorrect == Spec => []PromiseInv
<1>1. Init => PromiseInv
  <2>1. Init => Distinct
    BY FlightMembers DEF Init, PoolAbsent, Distinct
  <2>2. QED
    BY <2>1, InitControl, InitBuffers, InitAccounted DEF PromiseInv, BuffersPartitioned
<1>2. ControlInv /\ BuffersPartitioned /\ PromiseInv /\ [Next]_vars => PromiseInv'
  <2>1. SUFFICES ASSUME ControlInv, BuffersPartitioned, PromiseInv, [Next]_vars
                 PROVE  PromiseInv'
    OBVIOUS
  <2>2. OneHolder /\ Accounted /\ Distinct
    BY <2>1 DEF PromiseInv
  <2>3. ControlInv' /\ BuffersPartitioned'
    BY <2>1, NextControl, BuffersInv DEF ControlInv
  <2>4. QED
    BY <2>1, <2>2, <2>3, AccountedInv, DistinctInv DEF PromiseInv, BuffersPartitioned
<1>3. QED
  BY <1>1, <1>2, ControlCorrect, BuffersSafe, PTL DEF Spec

\* A picture is open or between two others until it is given up.
LEMMA PhaseIs ==
  /\ pc = "closed" => Phase = "none"
  /\ pc # "closed" /\ ~Intact => Phase = "abandoned"
  /\ Intact => Phase = IF action = "slices" THEN "picture" ELSE "between"
  /\ pc' = "closed" => Phase' = "none"
  /\ pc' # "closed" /\ ~Intact' => Phase' = "abandoned"
  /\ Intact' => Phase' = IF action' = "slices" THEN "picture" ELSE "between"
<1>1. pc = "closed" => Phase = "none"
  BY DEF Phase
<1>2. pc # "closed" /\ ~Intact => Phase = "abandoned"
  BY DEF Phase, Intact
<1>3. Intact => Phase = IF action = "slices" THEN "picture" ELSE "between"
  BY DEF Phase, Intact
<1>4. pc' = "closed" => Phase' = "none"
  BY DEF Phase
<1>5. pc' # "closed" /\ ~Intact' => Phase' = "abandoned"
  BY DEF Phase, Intact
<1>6. Intact' => Phase' = IF action' = "slices" THEN "picture" ELSE "between"
  BY DEF Phase, Intact
<1>7. QED
  BY <1>1, <1>2, <1>3, <1>4, <1>5, <1>6

\* The steps that SliceWork does not see.
LEMMA StutterRefines ==
  ASSUME SameFlight, UNCHANGED <<sent, decoded>>, Phase' = Phase
  PROVE  UNCHANGED Promise!abstractVars
<1>1. \A s : s \in PendingSlices' <=> s \in PendingSlices
  BY FlightPending DEF SameFlight
<1>2. PendingSlices' = PendingSlices
  <2>1. PendingSlices' = {chunk'[b] : b \in InFlight'} /\ PendingSlices = {chunk[b] : b \in InFlight}
    BY DEF PendingSlices, InFlight
  <2>2. QED
    BY <2>1 DEF SameFlight
<1>3. QED
  BY <1>2 DEF Promise!abstractVars

LEMMA PhaseStays ==
  ASSUME pc # "closed", pc' # "closed", Intact' <=> Intact, action' = action
  PROVE  Phase' = Phase
BY PhaseIs

\* The decoder thread only moves.
LEMMA MovesRefine ==
  ASSUME PromiseInv, Moves \/ AnyEnter \/ AnyTest \/ WaitTest \/ GetBuffer \/ CloseStop \/ CloseSignal
  PROVE  [Promise!Next]_(Promise!abstractVars)
<1>1. TypeInv /\ Position /\ Quiet /\ ControlInv
  BY DEF PromiseInv, ControlInv
<1>2. SameSlices
  BY <1>1, SameSlicesSteps
<1>3. SameFlight /\ UNCHANGED <<sent, decoded>>
  BY <1>2, FlightStays DEF SameSlices
<1>4. PendingSlices' = PendingSlices
  BY <1>3 DEF PendingSlices, SameFlight, InFlight
<1>5. pc # "closed" /\ pc' # "closed"
  BY <1>1 DEF Moves, Return, Parse, HeaderReturn, NeedData, SliceFound, SlicesEnd, NoBuffer, PictureEnd,
              SkipSlice, InvalidReturn, AnyWake, WaitWake, AnyEnter, AnyTest, WaitTest, GetBuffer,
              CloseStop, CloseSignal, TypeInv, TypeOK
<1>6. CASE pc \in {"headers", "ended"} /\ ret' = "INVALID" /\ (HeaderReturn \/ PictureEnd)
  <2>1. Intact /\ ~Intact'
    BY <1>6 DEF HeaderReturn, PictureEnd, Return, Intact
  <2>2. Phase \in {"between", "picture"} /\ Phase' = "abandoned"
    BY <1>5, <2>1, PhaseIs
  <2>3. Promise!Abandon
    BY <1>3, <1>4, <2>2 DEF Promise!Abandon
  <2>4. QED
    BY <2>3 DEF Promise!Next
<1>7. CASE PictureEnd /\ ret' = "SLICE"
  <2>1. pc = "ended" /\ Intact /\ Intact' /\ action = "slices" /\ action' = "headers"
    BY <1>1, <1>7 DEF PictureEnd, Return, Intact, Position
  <2>2. Phase = "picture" /\ Phase' = "between"
    BY <2>1, PhaseIs
  <2>3. InFlight = {}
    BY <1>1, <2>1, QuietFlight DEF Quiet
  <2>4. PendingSlices = {}
    BY <2>3 DEF PendingSlices, InFlight
  <2>5. decoded = 1 .. sent
    <3>1. \A s \in 0 .. MaxSlices : s \in 1 .. sent <=> s \in decoded
      BY <2>1, <2>3, FlightPending DEF PromiseInv, Accounted
    <3>2. decoded \in SUBSET (0 .. MaxSlices) /\ sent \in 0 .. MaxSlices /\ MaxSlices \in Nat
      BY <1>1, SliceAssumption DEF TypeInv, TypeOK
    <3>3. \A s \in 1 .. sent : s \in 0 .. MaxSlices
      BY <3>2
    <3>4. \A s : s \in decoded <=> s \in 1 .. sent
      BY <3>1, <3>2, <3>3, Zenon
    <3>5. QED
      BY <3>4, Zenon
  <2>6. Promise!End
    BY <1>3, <1>4, <2>2, <2>4, <2>5 DEF Promise!End
  <2>7. QED
    BY <2>6 DEF Promise!Next
<1>8. CASE ~(HeaderReturn /\ ret' = "INVALID") /\ ~PictureEnd
  <2>1. (Intact' <=> Intact) /\ action' = action
    BY <1>1, <1>8
       DEF Moves, Return, Parse, HeaderReturn, NeedData, SliceFound, SlicesEnd, NoBuffer,
           SkipSlice, InvalidReturn, AnyWake, WaitWake, AnyEnter, AnyTest, WaitTest, GetBuffer,
           CloseStop, CloseSignal, TypeInv, TypeOK, PCs, Intact
  <2>2. QED
    BY <1>3, <1>5, <2>1, PhaseStays, StutterRefines
<1>9. HeaderReturn \/ PictureEnd => pc \in {"headers", "ended"}
  BY DEF HeaderReturn, PictureEnd
<1>10. PictureEnd => ret' \in {"SLICE", "INVALID"}
  BY DEF PictureEnd, Return
<1>11. QED
  BY <1>6, <1>7, <1>8, <1>9, <1>10

LEMMA WorkerRefines ==
  ASSUME PromiseInv, NEW w \in Workers, Worker(w)
  PROVE  [Promise!Next]_(Promise!abstractVars)
<1>1. TypeInv /\ OneHolder /\ Distinct
  BY DEF PromiseInv, ControlInv
<1>2. UNCHANGED <<pc, ret, action, after, sent>>
  BY DEF Worker, WorkerLoop, DecodeSlice, FreeSliceBuffer, decoderVars
<1>3. Phase' = Phase
  BY <1>2 DEF Phase
<1>4. CASE DecodeSlice(w)
  <2> DEFINE s == chunk[task[w]]
  <2>1. /\ task[w] \in InFlight /\ chunk' = chunk /\ InFlight' = InFlight \ {task[w]}
    BY <1>1, <1>4, DecodeFlight
  <2>2. s \in 1 .. sent /\ \A c \in InFlight : chunk[c] = s => c = task[w]
    BY <1>1, <2>1 DEF Distinct
  <2>3. s \in 1 .. MaxSlices
    <3>1. sent \in 0 .. MaxSlices /\ MaxSlices \in Nat
      BY <1>1, SliceAssumption DEF TypeInv, TypeOK
    <3>2. QED
      BY <2>2, <3>1
  <2>4. s \in PendingSlices
    BY <2>1, FlightPending
  <2>5. decoded' = decoded \cup {s}
    BY <1>4 DEF DecodeSlice
  <2> HIDE DEF s
  <2>6. \A x : x \in PendingSlices' <=> x \in PendingSlices /\ x # s
    BY <2>1, <2>2, FlightPending DEF s
  <2>7. PendingSlices' = PendingSlices \ {s}
    BY <2>6
  <2>8. Promise!Decode(s)
    BY <1>2, <1>3, <2>4, <2>5, <2>7 DEF Promise!Decode
  <2>9. QED
    BY <2>3, <2>8 DEF Promise!Next
<1>5. CASE ~DecodeSlice(w)
  <2>1. SameFlight
    <3>1. CASE WorkerTake(w) /\ UNCHANGED decoderVars
      BY <1>1, <3>1, TakeFlight
    <3>2. CASE FreeSliceBuffer(w)
      BY <1>1, <3>2, FreeFlight
    <3>3. CASE \/ WorkerExit(w) /\ UNCHANGED decoderVars
               \/ WorkerSleep(w) /\ UNCHANGED decoderVars
               \/ WorkerWake(w) /\ UNCHANGED decoderVars
               \/ WorkerFinish(w) /\ UNCHANGED decoderVars
      BY <1>1, <3>3, SameSlicesSteps, FlightStays
    <3>4. QED
      BY <1>5, <3>1, <3>2, <3>3 DEF Worker, WorkerLoop
  <2>2. decoded' = decoded
    BY <1>5 DEF Worker, FreeSliceBuffer, decoderVars
  <2>3. QED
    BY <1>2, <1>3, <2>1, <2>2, StutterRefines
<1>6. QED
  BY <1>4, <1>5

\* The steps that open, hand over, give up and close.
LEMMA WorkRefines ==
  ASSUME PromiseInv, PromiseInv',
         Open \/ SliceStart \/ FillAndEnqueue \/ Close \/ ChunkOverflow \/ CloseFree
  PROVE  [Promise!Next]_(Promise!abstractVars)
<1>1. TypeInv /\ Position /\ Quiet /\ ControlInv /\ OneHolder
  BY DEF PromiseInv, ControlInv
<1>2. /\ InFlight = {} => PendingSlices = {}
      /\ InFlight' = {} => PendingSlices' = {}
  BY DEF PendingSlices, InFlight
<1>3. CASE Open
  <2>1. pc = "closed" /\ pc' = "caller" /\ Intact' /\ action' = "headers" /\ decoded' = {} /\ sent' = 0
    BY <1>3 DEF Open, Intact
  <2>2. Phase = "none" /\ Phase' = "between"
    BY <2>1, PhaseIs
  <2>3. PendingSlices = {}
    BY <1>1, <1>2, <2>1, QuietFlight DEF Quiet
  <2>4. PendingSlices' = {}
    <3>1. DOMAIN queue' = {} /\ \A w \in Workers : worker'[w] # "run"
      BY <1>3 DEF Open, PoolCreate
    <3>2. InFlight' = {}
      BY <3>1, FlightMembers
    <3>3. QED
      BY <1>2, <3>2
  <2>5. Promise!Open
    BY <2>1, <2>2, <2>3, <2>4 DEF Promise!Open
  <2>6. QED
    BY <2>5 DEF Promise!Next
<1>4. CASE SliceStart
  <2>1. /\ pc = "headers" /\ Intact /\ Intact' /\ action = "headers" /\ action' = "slices"
        /\ decoded' = {} /\ sent' = 0 /\ UNCHANGED <<poolVars, chunk>>
    BY <1>1, <1>4 DEF SliceStart, Intact, Position
  <2>2. Phase = "between" /\ Phase' = "picture"
    BY <2>1, PhaseIs
  <2>3. InFlight = {}
    BY <1>1, <2>1, QuietFlight DEF Quiet
  <2>4. InFlight' = InFlight
    BY <2>1 DEF InFlight, Queued, InWorker, poolVars
  <2>5. Promise!Begin
    BY <1>2, <2>1, <2>2, <2>3, <2>4 DEF Promise!Begin
  <2>6. QED
    BY <2>5 DEF Promise!Next
<1>5. CASE FillAndEnqueue
  <2>1. /\ pc = "fill" /\ Intact /\ Intact' /\ action = "slices" /\ action' = "slices"
        /\ decoded' = decoded /\ sent' = sent + 1 /\ sent < MaxSlices
    BY <1>1, <1>5 DEF FillAndEnqueue, Intact, Position, Filling, TypeInv, Holding
  <2>2. Phase = "picture" /\ Phase' = "picture"
    BY <2>1, PhaseIs
  <2>3. /\ InFlight' = InFlight \cup {slice}
        /\ chunk'[slice] = sent'
        /\ \A b \in InFlight : chunk'[b] = chunk[b]
    BY <1>1, <1>5, <2>1, EnqueueFlight
  <2>4. \A x : x \in PendingSlices' <=> x \in PendingSlices \/ x = sent'
    BY <2>3, FlightPending
  <2>5. PendingSlices' = PendingSlices \cup {sent'}
    BY <2>4
  <2>6. Promise!Submit
    BY <2>1, <2>2, <2>5 DEF Promise!Submit
  <2>7. QED
    BY <2>6 DEF Promise!Next
<1>6. CASE Close \/ ChunkOverflow
  <2>1. AbortSlices /\ pc \in {"caller", "slices"} /\ pc' = "wait" /\ ~Intact'
        /\ UNCHANGED <<sent, decoded>>
    BY <1>6 DEF Close, ChunkOverflow, Intact
  <2>2. Phase' = "abandoned"
    BY <2>1, PhaseIs
  <2>3. InFlight' \in SUBSET InFlight /\ \A b \in InFlight' : chunk'[b] = chunk[b]
    BY <1>1, <2>1, AbortFlight
  <2>4. PendingSlices' \in SUBSET PendingSlices
    BY <2>3, FlightPending
  <2>5. CASE Intact
    <3>1. Phase \in {"between", "picture"}
      BY <2>5, PhaseIs
    <3>2. Promise!Abandon
      BY <2>1, <2>2, <2>4, <3>1 DEF Promise!Abandon
    <3>3. QED
      BY <3>2 DEF Promise!Next
  <2>6. CASE ~Intact
    <3>1. pc = "caller" /\ ret = "INVALID"
      BY <2>1, <2>6 DEF Intact
    <3>2. Phase = "abandoned"
      BY <2>6, <3>1, PhaseIs
    <3>3. InFlight = {}
      BY <1>1, <3>1, QuietFlight DEF Position, Quiet
    <3>4. PendingSlices = {} /\ PendingSlices' = {}
      BY <1>2, <2>4, <3>3
    <3>5. QED
      BY <2>1, <2>2, <3>2, <3>4 DEF Promise!abstractVars
  <2>7. QED
    BY <2>5, <2>6
<1>7. CASE CloseFree
  <2>1. pc = "join" /\ ~Intact /\ pc' = "closed" /\ UNCHANGED <<sent, decoded>>
    BY <1>7 DEF CloseFree, Intact
  <2>2. Phase = "abandoned" /\ Phase' = "none"
    BY <2>1, PhaseIs
  <2>3. PendingSlices = {}
    BY <1>1, <1>2, <2>1, QuietFlight DEF Quiet
  <2>4. PendingSlices' = {}
    <3>1. DOMAIN queue' = {} /\ \A w \in Workers : worker'[w] # "run"
      BY <1>7 DEF CloseFree, PoolFree, AllExited
    <3>2. InFlight' = {}
      BY <3>1, FlightMembers
    <3>3. QED
      BY <1>2, <3>2
  <2>5. Promise!Close
    BY <2>1, <2>2, <2>3, <2>4 DEF Promise!Close
  <2>6. QED
    BY <2>5 DEF Promise!Next
<1>8. QED
  BY <1>3, <1>4, <1>5, <1>6, <1>7

\* The slice layer (decode.c 186-309 on the pool of thread_win.c) does what
\* SliceWork promises to the parser, for any number of threads and slices: a
\* picture is opened and ended only when no slice is outstanding and every one
\* handed over has been decoded, each once; slices are given up only with the
\* picture. This is KeepsPromise without its fairness.
THEOREM PromiseKept == Spec => Promise!Init /\ [][Promise!Next]_(Promise!abstractVars)
<1>1. Init => Promise!Init
  <2>1. SUFFICES ASSUME Init PROVE Promise!Init
    OBVIOUS
  <2>2. InFlight = {}
    BY <2>1, FlightMembers DEF Init, PoolAbsent
  <2>3. PendingSlices = {}
    BY <2>2 DEF PendingSlices, InFlight
  <2>4. QED
    BY <2>1, <2>3, PhaseIs DEF Init, Promise!Init
<1>2. PromiseInv /\ PromiseInv' /\ [Next]_vars => [Promise!Next]_(Promise!abstractVars)
  <2>1. SUFFICES ASSUME PromiseInv, PromiseInv', [Next]_vars
                 PROVE  [Promise!Next]_(Promise!abstractVars)
    OBVIOUS
  <2>2. CASE UNCHANGED vars
    BY <2>2 DEF vars, poolVars, decoderVars, Promise!abstractVars, Phase, PendingSlices, Queued, InWorker
  <2>3. CASE Next
    BY <2>1, <2>3, MovesRefine, WorkerRefines, WorkRefines DEF Next, Library, Moves
  <2>4. QED
    BY <2>1, <2>2, <2>3
<1>3. QED
  BY <1>1, <1>2, PromiseInvCorrect, PTL DEF Spec
=============================================================================
