---------------------------- MODULE SliceDecoder ----------------------------
(***************************************************************************)
(* The multi-threaded slice layer of libmpeg2 (libmpeg2/libmpeg2/decode.c):*)
(* the decoder thread, which runs mpeg2_parse for its caller, cuts the     *)
(* stream into slices, copies each into a slice buffer and gives it to the *)
(* thread pool; the workers decode the slices and put the buffers back.    *)
(*                                                                         *)
(* The caller is CMpeg2Decoder and, above it, CTVTestVideoDecoder::        *)
(* Transform or CTVTestVideoFrameDecoder::InputStream: one thread at a     *)
(* time (m_csReceive, m_csProps), which calls Open, Parse and Close, and   *)
(* closes and reopens the decoder when Parse says STATE_INVALID.           *)
(*                                                                         *)
(* The stream is the environment: at each point any outcome of the scan    *)
(* for a start code is possible.  A slice is its number in the picture.    *)
(***************************************************************************)
EXTENDS ThreadPool

CONSTANTS
  MaxSlices  \* bound: slices of a picture that are sent to the pool

\* mpeg2_init allocates two slice buffers per thread.
Buffers == Params

ASSUME SliceAssumption ==
  /\ IsFiniteSet(Buffers)
  /\ Cardinality(Buffers) = 2 * Cardinality(Workers)
  /\ MaxSlices \in Nat

VARIABLES
  pc,             \* the decoder thread
  ret,            \* what the last mpeg2_parse returned
  action,         \* the parser is at headers or (action = NULL) in the slices
  nb_decode,      \* nb_decode_slices is not 0: slices are decoded, not skipped
  after,          \* where the decoder thread goes after thread_pool_wait
  old_busy_count, \* the local variable of wait_any
  free_slice_buf, \* the free list (guarded by slice_buf_mutex)
  slice,          \* the buffer the decoder thread is filling
  chunk,          \* the slice each buffer holds, 0 when its content is dead
  sent,           \* slices of the picture given to the pool
  decoded         \* slices of the picture that mpeg2_slice has decoded

decoderVars == <<pc, ret, action, nb_decode, after, old_busy_count,
                 free_slice_buf, slice, chunk, sent, decoded>>
vars == <<poolVars, decoderVars>>

(***************************************************************************)
(* Positions of the decoder thread: "closed" (no mpeg2dec) and "caller"    *)
(* are outside the library; "headers" and "slices" are the two halves of   *)
(* mpeg2_parse; "getbuf", "any", "anySleep", "anyTest" the search for a    *)
(* buffer with wait_any; "fill" the copy of the chunk; "wait", "waitSleep" *)
(* thread_pool_wait; "ended" the code after the slice loop; "stop",        *)
(* "signal", "join" the rest of mpeg2_thread_pool_close.                   *)
(***************************************************************************)
PCs == {"closed", "caller", "headers", "slices", "getbuf", "any", "anySleep",
        "anyTest", "fill", "wait", "waitSleep", "ended", "invalid", "stop",
        "signal", "join"}

TypeOK ==
  /\ PoolTypeOK
  /\ pc \in PCs
  /\ ret \in {"none", "BUFFER", "HEADER", "SLICE", "INVALID"}
  /\ action \in {"headers", "slices"}
  /\ nb_decode \in BOOLEAN
  /\ after \in {"ended", "invalid", "stop"}
  /\ old_busy_count \in Int
  /\ free_slice_buf \in SUBSET Buffers
  /\ slice \in Buffers \cup {None}
  /\ chunk \in [Buffers -> 0 .. MaxSlices]
  /\ sent \in 0 .. MaxSlices
  /\ decoded \in SUBSET (0 .. MaxSlices)

Init ==
  /\ PoolAbsent
  /\ pc = "closed"
  /\ ret = "none"
  /\ action = "headers"
  /\ nb_decode = TRUE
  /\ after = "ended"
  /\ old_busy_count = 0
  /\ free_slice_buf = {}
  /\ slice = None
  /\ chunk = [b \in Buffers |-> 0]
  /\ sent = 0
  /\ decoded = {}

-----------------------------------------------------------------------------
(* The calls of the client *)

\* Fault: no abort_func is given to the pool.
AbortWithoutFree ==
  /\ Abort
  /\ UNCHANGED <<free_slice_buf, chunk>>

\* mpeg2_thread_pool_abort with slice_abort: every queued buffer is freed.
AbortSlices ==
  LET aborted == {queue[i] : i \in DOMAIN queue}
  IN  /\ Abort
      /\ free_slice_buf' = free_slice_buf \cup aborted
      /\ chunk' = [b \in Buffers |-> IF b \in aborted THEN 0 ELSE chunk[b]]

\* CMpeg2Decoder::Open, mpeg2_init: a pool, every buffer free; the abort of
\* the mpeg2_reset inside finds nothing to wait for.
Open ==
  /\ pc = "closed"
  /\ PoolCreate
  /\ pc' = "caller"
  /\ ret' = "none"
  /\ action' = "headers"
  /\ nb_decode' = TRUE
  /\ free_slice_buf' = Buffers
  /\ chunk' = [b \in Buffers |-> 0]
  /\ sent' = 0
  /\ decoded' = {}
  /\ UNCHANGED <<after, old_busy_count, slice>>

\* mpeg2_parse is entered where the parser stopped.  Both clients reopen
\* the decoder after STATE_INVALID before they parse again.  (ret and after are
\* cleared when they are read no more.)
Parse ==
  /\ pc = "caller"
  /\ ret # "INVALID"
  /\ pc' = action
  /\ ret' = "none"
  /\ UNCHANGED <<poolVars, action, nb_decode, after, old_busy_count,
                 free_slice_buf, slice, chunk, sent, decoded>>

\* CMpeg2Decoder::Close, mpeg2_close: abort what is queued, at any moment
\* between two calls of mpeg2_parse; slice_abort frees each buffer.
Close ==
  /\ pc = "caller"
  /\ AbortSlices
  /\ pc' = "wait"
  /\ after' = "stop"
  /\ UNCHANGED <<ret, action, nb_decode, old_busy_count, slice, sent, decoded>>

Return(status) ==
  /\ pc' = "caller"
  /\ ret' = status

-----------------------------------------------------------------------------
(* mpeg2_parse *)

\* seek_header and parse_header: the data ends, a header is complete, or the
\* stream is not legal.
HeaderReturn ==
  /\ pc = "headers"
  /\ \E status \in {"BUFFER", "HEADER", "INVALID"} : Return(status)
  /\ UNCHANGED <<poolVars, action, nb_decode, after, old_busy_count,
                 free_slice_buf, slice, chunk, sent, decoded>>

\* mpeg2_header_slice_start: the state the workers read is set up for the
\* next picture (or field), which the client skips or not (mpeg2_skip).
SliceStart ==
  /\ pc = "headers"
  /\ pc' = "slices"
  /\ action' = "slices"
  /\ nb_decode' \in BOOLEAN
  /\ sent' = 0
  /\ decoded' = {}
  /\ UNCHANGED <<poolVars, ret, after, old_busy_count, free_slice_buf, slice, chunk>>

\* copy_chunk runs out of data: return, with the workers at work.
NeedData ==
  /\ pc = "slices"
  /\ nb_decode
  /\ Return("BUFFER")
  /\ UNCHANGED <<poolVars, action, nb_decode, after, old_busy_count,
                 free_slice_buf, slice, chunk, sent, decoded>>

\* A whole slice is in the chunk buffer.
SliceFound ==
  /\ pc = "slices"
  /\ nb_decode
  /\ sent < MaxSlices
  /\ pc' = "getbuf"
  /\ UNCHANGED <<poolVars, ret, action, nb_decode, after, old_busy_count,
                 free_slice_buf, slice, chunk, sent, decoded>>

\* The chunk buffer is full and no start code was found: abort the queued
\* slices, then wait and return STATE_INVALID.
ChunkOverflow ==
  /\ pc = "slices"
  /\ nb_decode
  /\ action' = "headers"
  /\ AbortSlices
  /\ pc' = "wait"
  /\ after' = "invalid"
  /\ UNCHANGED <<ret, nb_decode, old_busy_count, slice, sent, decoded>>

\* The start code is not one of a slice to decode: the wait after the loop.
SlicesEnd ==
  /\ pc = "slices"
  /\ pc' = "wait"
  /\ after' = "ended"
  /\ UNCHANGED <<poolVars, ret, action, nb_decode, old_busy_count,
                 free_slice_buf, slice, chunk, sent, decoded>>

\* Take the first free buffer ...
GetBuffer ==
  /\ pc = "getbuf"
  /\ \E b \in free_slice_buf :
       /\ slice' = b
       /\ free_slice_buf' = free_slice_buf \ {b}
  /\ pc' = "fill"
  /\ UNCHANGED <<poolVars, ret, action, nb_decode, after, old_busy_count,
                 chunk, sent, decoded>>

\* ... or, when there is none, call wait_any.
NoBuffer ==
  /\ pc = "getbuf"
  /\ free_slice_buf = {}
  /\ pc' = "any"
  /\ UNCHANGED <<poolVars, ret, action, nb_decode, after, old_busy_count,
                 free_slice_buf, slice, chunk, sent, decoded>>

\* The copy into the buffer, then mpeg2_thread_pool_enqueue.
FillAndEnqueue ==
  /\ pc = "fill"
  /\ chunk' = [chunk EXCEPT ![slice] = sent + 1]
  /\ sent' = sent + 1
  /\ Enqueue(slice)
  /\ slice' = None
  /\ pc' = "slices"
  /\ UNCHANGED <<ret, action, nb_decode, after, old_busy_count, free_slice_buf, decoded>>

\* After the wait that ends the slices: the next start code is that of a
\* header, the end or something illegal ...
PictureEnd ==
  /\ pc = "ended"
  /\ action' = "headers"
  /\ \E status \in {"SLICE", "INVALID"} : Return(status)
  /\ UNCHANGED <<poolVars, nb_decode, after, old_busy_count, free_slice_buf,
                 slice, chunk, sent, decoded>>

\* ... or, in a picture that is skipped, a slice: seek_chunk goes to the next
\* start code or returns for want of data.
SkipSlice ==
  /\ pc = "ended"
  /\ ~nb_decode
  /\ \/ pc' = "slices" /\ UNCHANGED ret
     \/ Return("BUFFER")
  /\ UNCHANGED <<poolVars, action, nb_decode, after, old_busy_count,
                 free_slice_buf, slice, chunk, sent, decoded>>

\* The return after the abort of ChunkOverflow.
InvalidReturn ==
  /\ pc = "invalid"
  /\ Return("INVALID")
  /\ UNCHANGED <<poolVars, action, nb_decode, after, old_busy_count,
                 free_slice_buf, slice, chunk, sent, decoded>>

-----------------------------------------------------------------------------
(* mpeg2_thread_pool_wait_any, as the decoder thread runs it *)

AnyEnter ==
  /\ pc = "any"
  /\ old_busy_count' = busy_count
  /\ IF busy_count # 0
       THEN ArmFinished /\ pc' = "anySleep"
       ELSE UNCHANGED poolVars /\ pc' = "getbuf"
  /\ UNCHANGED <<ret, action, nb_decode, after, free_slice_buf, slice, chunk, sent, decoded>>

AnyWake ==
  /\ pc = "anySleep"
  /\ finished_event
  /\ pc' = "anyTest"
  /\ UNCHANGED <<poolVars, ret, action, nb_decode, after, old_busy_count,
                 free_slice_buf, slice, chunk, sent, decoded>>

AnyTest ==
  /\ pc = "anyTest"
  /\ IF busy_count >= old_busy_count
       THEN ArmFinished /\ pc' = "anySleep" /\ UNCHANGED old_busy_count
       ELSE UNCHANGED poolVars /\ pc' = "getbuf" /\ old_busy_count' = 0
  /\ UNCHANGED <<ret, action, nb_decode, after, free_slice_buf, slice, chunk, sent, decoded>>

(* mpeg2_thread_pool_wait *)

WaitTest ==
  /\ pc = "wait"
  /\ IF Unfinished
       THEN ArmFinished /\ pc' = "waitSleep"
       ELSE UNCHANGED poolVars /\ pc' = after
  /\ after' = IF Unfinished THEN after ELSE "ended"
  /\ UNCHANGED <<ret, action, nb_decode, old_busy_count, free_slice_buf,
                 slice, chunk, sent, decoded>>

WaitWake ==
  /\ pc = "waitSleep"
  /\ finished_event
  /\ pc' = "wait"
  /\ UNCHANGED <<poolVars, ret, action, nb_decode, after, old_busy_count,
                 free_slice_buf, slice, chunk, sent, decoded>>

(* The rest of mpeg2_thread_pool_close and of mpeg2_close *)

CloseStop ==
  /\ pc = "stop"
  /\ SetStop
  /\ pc' = "signal"
  /\ UNCHANGED <<ret, action, nb_decode, after, old_busy_count, free_slice_buf,
                 slice, chunk, sent, decoded>>

CloseSignal ==
  /\ pc = "signal"
  /\ SignalStop
  /\ pc' = "join"
  /\ UNCHANGED <<ret, action, nb_decode, after, old_busy_count, free_slice_buf,
                 slice, chunk, sent, decoded>>

CloseFree ==
  /\ pc = "join"
  /\ AllExited
  /\ PoolFree
  /\ pc' = "closed"
  /\ ret' = "none"
  /\ free_slice_buf' = {}
  /\ UNCHANGED <<action, nb_decode, after, old_busy_count, slice, chunk, sent, decoded>>

-----------------------------------------------------------------------------
(* slice_thread, the task function *)

\* mpeg2_slice: decode the slice that the buffer holds.
DecodeSlice(w) ==
  /\ worker[w] = "run"
  /\ decoded' = decoded \cup {chunk[task[w]]}
  /\ worker' = [worker EXCEPT ![w] = "free"]
  /\ UNCHANGED <<queue, free_tasks, busy_count, stop, queue_event, finished_event, task>>
  /\ UNCHANGED <<pc, ret, action, nb_decode, after, old_busy_count,
                 free_slice_buf, slice, chunk, sent>>

\* free_slice_buffer, before the worker tells the pool that it has finished.
FreeSliceBuffer(w) ==
  /\ worker[w] = "free"
  /\ free_slice_buf' = free_slice_buf \cup {task[w]}
  /\ chunk' = [chunk EXCEPT ![task[w]] = 0]
  /\ worker' = [worker EXCEPT ![w] = "finish"]
  /\ UNCHANGED <<queue, free_tasks, busy_count, stop, queue_event, finished_event, task>>
  /\ UNCHANGED <<pc, ret, action, nb_decode, after, old_busy_count, slice, sent, decoded>>

Worker(w) ==
  \/ WorkerLoop(w) /\ UNCHANGED decoderVars
  \/ DecodeSlice(w)
  \/ FreeSliceBuffer(w)

\* The steps of the decoder thread inside the library.
Library ==
  \/ HeaderReturn \/ SliceStart
  \/ NeedData \/ SliceFound \/ ChunkOverflow \/ SlicesEnd
  \/ GetBuffer \/ NoBuffer \/ FillAndEnqueue
  \/ PictureEnd \/ SkipSlice \/ InvalidReturn
  \/ AnyEnter \/ AnyWake \/ AnyTest
  \/ WaitTest \/ WaitWake
  \/ CloseStop \/ CloseSignal \/ CloseFree

Next ==
  \/ Open \/ Parse \/ Close
  \/ Library
  \/ \E w \in Workers : Worker(w)

Spec == Init /\ [][Next]_vars

(***************************************************************************)
(* The scheduler runs every thread that can run, and EnterCriticalSection  *)
(* lets every thread in.  Nothing obliges the caller to call.              *)
(***************************************************************************)
FairSpec ==
  /\ Spec
  /\ WF_vars(Library)
  /\ \A w \in Workers : WF_vars(Worker(w))

-----------------------------------------------------------------------------
(* Properties *)

Queued == {queue[i] : i \in DOMAIN queue}
InWorker(S) == {task[w] : w \in {v \in Workers : worker[v] \in S}}
Reading(w) == worker[w] \in {"run", "free"}

\* A buffer is never in two hands: on the free list, queued (once), read by a
\* worker, or filled by the decoder thread.
OneHolder ==
  /\ \A i \in DOMAIN queue :
       /\ queue[i] \notin free_slice_buf
       /\ \A j \in DOMAIN queue : queue[i] = queue[j] => i = j
  /\ \A w \in Workers : Reading(w) =>
       /\ task[w] \notin free_slice_buf
       /\ \A i \in DOMAIN queue : queue[i] # task[w]
       /\ \A v \in Workers : Reading(v) /\ task[v] = task[w] => v = w
  /\ pc = "fill" =>
       /\ slice \notin free_slice_buf
       /\ \A i \in DOMAIN queue : queue[i] # slice
       /\ \A w \in Workers : Reading(w) => task[w] # slice

\* No buffer is lost: the decoder thread would wait for it for ever.
NoneLost ==
  pc # "closed" =>
    \A b \in Buffers :
      \/ b \in free_slice_buf
      \/ \E i \in DOMAIN queue : queue[i] = b
      \/ \E w \in Workers : Reading(w) /\ task[w] = b
      \/ pc = "fill" /\ slice = b

\* Each slice buffer is in exactly one place, across free_slice_buffer, the
\* abort of the pool and the search for a buffer in mpeg2_parse.
BuffersPartitioned == OneHolder /\ NoneLost

\* busy_count, on which wait and wait_any rest, is the number of workers
\* between the two critical sections of worker_thread.
BusyIsRunning == busy_count = Cardinality(Busy)

\* Resetting queue_event with tasks still queued strands none of them: a
\* queued task always has a worker that will look at the queue again.
NoStrandedTask ==
  queue # <<>> =>
    queue_event \/ \E w \in Workers : worker[w] \in {"test", "run", "free", "finish"}

\* The decoder thread never sleeps on finished_event without a worker that
\* will set it: one is running, or a task is queued that one will run.
SleeperIsWoken ==
  /\ pc = "anySleep" => finished_event \/ busy_count > 0
  /\ pc = "waitSleep" => finished_event \/ Unfinished

\* No wake-up is lost on either side, although both events are reset by whoever
\* comes along: nobody sleeps for good while there is work to do.
NoLostWakeUp == NoStrandedTask /\ SleeperIsWoken

\* When mpeg2_parse returns STATE_SLICE, and the caller displays the frame,
\* every slice of the picture has been decoded.
FrameComplete == pc = "caller" /\ ret = "SLICE" => decoded = 1 .. sent

\* The slice buffer goes back to the free list before the task node does, so
\* there may be more nodes than buffers, but never more than one per buffer
\* and one per worker (enqueue allocates a node when the list is empty).
NodesBounded ==
  free_tasks + Len(queue) + Cardinality(Busy)
    <= Cardinality(Buffers) + Cardinality(Workers)

\* The state that the workers read (decoder, dest, the matrices) is set up
\* for the next picture only when no slice is queued or being decoded.
PictureSetUpAlone ==
  [][pc = "headers" /\ pc' = "slices" =>
       queue = <<>> /\ \A w \in Workers : worker[w] \notin {"run", "free", "finish"}]_vars

\* Every call returns: the search for a buffer, the waits and the close end,
\* because every wait is on a worker that will finish.
CallReturns == pc \in {"getbuf", "any", "wait", "stop"} ~> pc \in {"slices", "caller", "closed"}

-----------------------------------------------------------------------------
(* The slice layer keeps the promise of SliceWork. *)

Phase ==
  CASE pc = "closed" -> "none"
    [] \/ pc \in {"wait", "waitSleep"} /\ after # "ended"
       \/ pc \in {"invalid", "stop", "signal", "join"}
       \/ pc = "caller" /\ ret = "INVALID" -> "abandoned"
    [] OTHER -> IF action = "slices" THEN "picture" ELSE "between"

PendingSlices == {chunk[b] : b \in Queued \cup InWorker({"run"})}

Promise == INSTANCE SliceWork
             WITH phase <- Phase, pending <- PendingSlices, done <- decoded, count <- sent

\* Refinement, with the promise that every pending slice is decoded or given
\* up (Spec of SliceWork).
KeepsPromise == Promise!Spec
=============================================================================
