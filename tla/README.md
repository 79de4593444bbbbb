# TVTestVideoDecoder in TLA+

Specifications of TVTestVideoDecoder, a DirectShow filter (and a COM object)
that decodes MPEG-2 video, in software with a multi-threaded libmpeg2, or with
DXVA2 or Direct3D 11. Paths below are relative to the repository (`src/`), and
`TV` is `src/src/TVTestVideoDecoder.cpp`, `MD` `src/src/Mpeg2DecoderD3D11.cpp`,
`decode.c`, `header.c` and `thread_win.c` are files of
`src/src/libmpeg2/libmpeg2/`. `PROJECT.json` lists, definition by definition,
the lines each module stands for.

Contents: 1 the system, 2 the plan, 3 the modules and what their runs show,
4 the proofs, 5 disagreements found, 6 what is not modelled.

## 1. The system

| part | state it keeps | operations | works with |
|---|---|---|---|
| slice thread pool, `thread_win.c` | queue of tasks, free task nodes, busy count, two manual-reset events, stop flag | create, enqueue, abort, wait, wait for any, close; the worker thread | called by the slice layer; calls back task and abort functions |
| slice dispatch, `decode.c` | slice buffers (two per thread) and their free list, position in the stream | init, parse (the slice half), close | cuts slices, fills buffers, gives tasks to the pool |
| macroblocks, `slice.c` | of each slice: position, predictors of vectors and DC coefficients | mpeg2_init_fbuf, slice_init, mpeg2_slice with one function per motion type | run by the pool's threads; reads the header layer's references |
| header layer, `header.c` and the header half of `decode.c` | sequence and new sequence, four picture records, three frame buffers in use, the `first` flag, the state of the parser | one handler per header, slice start, sequence end | returns one state per unit; `info` says what to display |
| Transform loop, `TV` 600-1078 | the time of each picture record, key-frame wait, telecine window, the frame being delivered | Receive, Transform, DeliverFrame, Deliver | drives the library, delivers to the renderer |
| Direct3D 11 decoder, `MD` | samples of the frame buffers, two reference samples, pool of 8 surfaces, ring of delayed frames | DecodeFrame, GetDisplayFrame, GetQueuedFrame, ClearFrameQueue, ResetDecoding, device creation | takes over the slices through a hook; the GPU |
| DXVA2 decoder, `Mpeg2DecoderDXVA2.cpp` | device manager, service, video decoder, the renderer's surfaces | connect, open, close, DecodeFrame, recommit | the filter's own allocator, the renderer |
| sample allocators, `BaseClasses/amfilter.cpp`, `DXVA2Allocator.cpp`, `D3D11Allocator.cpp` | free list, counts, committed and decommitting, semaphore, references to itself | SetProperties, Commit, Decommit, GetBuffer, ReleaseBuffer | decoder and pin as owners; the renderer's thread returns samples |
| filter control, `TV`, `BaseVideoFilter.cpp` (`BV`), base classes | filter state, flushing flag, the decoder object, options, output format | Stop, Pause, BeginFlush, EndFlush, EndOfStream, connect, disconnect, InitDecode | locks `m_csFilter`, `m_csReceive`, `m_csProps`, `m_csStats` |
| output and delivery, `BV`, DeliverFrame | dimensions, output type, the sample in hand | ReconnectOutput, GetDeliveryBuffer, Deliver | allocator and input pin of the renderer |
| telecine detection and deinterlacers, SetFrameStatus, `Deinterlace_Yadif.cpp` | window of frame types, mode; the frames Yadif keeps | one call per displayed frame | chosen by flags of the stream and options |
| video frame decoder, `VideoFrameDecoder.cpp` | a decoder and its deinterlacers | Open, Close, InputStream | the same loop as Transform under one lock; calls OnFrame back |
| frame capture, colour, statistics, options, property pages | buffers, tables, counters | callbacks, getters, setters | called in Deliver, or by the application |

Threads: the source's streaming thread (Receive and EndOfStream, under
`m_csReceive`), the application's control thread (flush, stop, start, connect,
under `m_csFilter`), property pages and statistics (under `m_csProps` and
`m_csStats`), the pool's workers, and the GPU.

What is hard, and what makes each part correct:

- *Pool and slice layer.* Manual-reset events that are reset by one thread and
  set by others; a busy count kept across two critical sections; waits that test
  and sleep in separate steps; abort and close in the middle of a picture. It is
  correct if no wake-up is lost, each buffer has one owner, a picture is
  reported only when all its slices are decoded, and every call returns.
- *Macroblocks.* Vectors and DC coefficients are differences to predictors with rules of
  their own for each kind of macroblock, in a structure that is reused; vectors may point
  out of the picture. They are correct if every read stays inside, each macroblock is
  decoded to its address, and decoder and sender agree on what it is predicted from.
- *Header layer.* Reordering by alternating records and rotating buffers, with
  conditions on the previous picture, two fields to a frame, sequences that end,
  repeat or change, streams with holes. It is correct if frames come out in
  display order, each once, with the record and the time that belong to them,
  and are predicted from the buffers of their references.
- *Frame queue.* A ring shared by the streaming thread and, during a flush, the
  control thread; failures that leave holes. It is correct if each frame comes
  out exactly the delay later, once, and nothing survives a flush.
- *Direct3D 11 samples.* A bounded pool whose surfaces are in use by the
  decoder, as references and for display. It is correct if a picture is never
  decoded into a surface that is still needed, and the wait for a surface ends.
- *Allocators.* A semaphore that is signalled lazily, a decommit that the last
  sample completes from another thread, a commit that cancels it. They are
  correct if every sample is accounted for, nobody sleeps who could be served,
  and the allocator lives as long as anyone can still come back to it.
- *Life cycle.* The decoder object replaced on connection, error, discontinuity
  and device loss, with pointers and locks of others. It is correct if nobody
  uses a decoder that is gone, what is decoded fits the output, and a lost
  device is replaced.
- *Output.* A format that is renegotiated while the renderer keeps samples,
  stops or refuses. It is correct if each sample is filled in the format both
  sides know, while it is in the filter's hand, and no path waits for itself.
- *Telecine and deinterlacing.* A window of frame types that switches the mode;
  a deinterlacer that keeps two frames and withholds one. They are correct if
  the mode follows the material, neighbours are neighbours, frames leave in
  order, and a change costs at most one frame.

The full list, with lines, is under `hazards` in `PROJECT.json`, each with the
properties that cover it or a note saying why none does.

## 2. The plan

| order | module | on top of | state |
|---|---|---|---|
| 1 | `ThreadPool`, `SliceDecoder`, `SliceWork` (abstract), `SliceDecoder_proofs` | - | checked; all safety proved, the safety part of the refinement included |
| 2 | `FrameQueue`, `FrameQueue_proofs` | - | checked; all safety proved |
| 3 | `PictureOrder`, proved in the first half of `HardwareSamples_proofs` | - | checked; all properties proved |
| 4 | `HardwareSamples`: DecodeFrame of both hardware decoders, the sample of each frame buffer, reference samples, the pool of eight surfaces, the renderer of DXVA2; `HardwareSamples_proofs` | `PictureOrder` | checked; all properties proved |
| 5 | `SampleAllocator`, `SampleAllocator_proofs` | - | checked; all safety proved |
| 6 | `FilterLifecycle`: choice, fallback and repair of the decoder, DXVA2 surfaces, connections, locks; `FilterLifecycle_proofs` | takes the allocator as `SampleAllocator` shows it | checked; all safety proved |
| 7 | `OutputDelivery`, `OutputDelivery_proofs` | - | checked; all safety proved |
| 8 | `FrameOutput`: SetFrameStatus, deinterlacers, `VideoFrameDecoder`; `FrameOutput_proofs` | takes the ring as `FrameQueue` shows it | checked; all properties proved |
| 9 | `MacroblockDecode`, `MacroblockDecode_proofs` | - | checked; all properties proved |
| 10 | the C++ pool as a second implementation of the pool's calls; the matrix of the frame capture | - | to do |

Abstract specifications: `SliceWork` (done: what the slice layer promises to the
parser). `FrameOutput` uses a plain queue in place of the ring and
`FilterLifecycle` a set of surfaces in place of an allocator; `DelayedInOrder` and
`AllAccounted` are what makes these two fit.

Every safety property that a run checks is a theorem; see 4 for what is only model-checked.

## 3. Modules and runs

### ThreadPool and SliceDecoder

`ThreadPool` has the pool's variables under their names in `thread_win.c`. All
accesses lie in critical sections of `queue_lock`, so a critical section is one
action; a wait on an event is a position between two of them, because anything
can happen there. Workers go through `test`, `sleep`, `run` (the slice is
decoded), `free` (the buffer is put back), `finish` (the second critical
section). The client's critical sections are given as state changes, which
`SliceDecoder` puts in the order of `decode.c`: `mpeg2_parse` looks for a
buffer, waits for any task, fills, enqueues; waits for the picture at its end;
aborts on a chunk overflow and on close. The stream is the environment: at each
point every outcome of the scan for a start code is possible. The client may
close between any two calls, as the filter does when it restarts decoding.
Two writes lie outside the lock in the code, `stop` and the event of
`mpeg2_thread_pool_close`; they are actions of their own.

`SliceWork` is the contract without threads: slices are handed over while a
picture is open, each is decoded once or given up with its picture, and a
picture is opened and closed only when nothing is outstanding.

| run | shows |
|---|---|
| `slices` | `TypeOK`; `BuffersPartitioned`, each buffer in exactly one place; `NoLostWakeUp`, no task in the list with every worker asleep (`NoStrandedTask`), no parser asleep that nothing will wake (`SleeperIsWoken`); `NodesBounded`, the pool's memory does not grow; `CallReturns`, every wait ends; `KeepsPromise`, the layer implements `SliceWork`, with its promise that every slice is decoded or given up |

`BusyIsRunning` (the count the waits rest on), `FrameComplete` and
`PictureSetUpAlone` (what the workers read changes only when none reads it) are
proved; the refinement contains the last two.

Bounds: two threads and, as the code has it, four buffers; five slices to a
picture, so that every buffer is in use, one is used twice and the parser has to
wait. Free buffers are taken in order (`LowestFirst`), as the code's search does.
Fairness (`FairSpec`): weak fairness of the library's thread once it is in a
call, and of each worker, because the scheduler runs every thread that can run
and a critical section lets every thread in eventually. The caller and
`Open`, `Parse`, `Close` have no fairness.

### MacroblockDecode

What `SliceDecoder` takes as one step: the decoding of a slice. Slices write different
macroblocks of one picture and share nothing else, so one `slice_decode_t` is followed,
used for one slice after another and one picture after another, as the pool does. Its
members have their names; `dest` is the line that the pointer is at, `dc` the macroblock
that `dc_dct_pred` comes from (-1 for the reset value), `pc` the place in the loop of
`mpeg2_slice`. `last` holds the blocks the last macroblock read, and the vectors and the
DC prediction it used. `InitFbuf` and `SliceInit` are the functions of these names,
`Intra`, `Inter` and `InterZero` the three kinds of coded macroblock, each with
NEXT_MACROBLOCK (`Advance`), `Increment` and `Skip` the skipped ones. Each `motion_xxx` is
an operator (`fr_field`, `fi_dmv`, ...), as are MOTION, MOTION_FIELD and MOTION_DMV, with
the arithmetic of the code, where division is towards zero in one place and a shift in another.

The sender of the stream is external. It means vectors and sends differences, modulo the
range of the f_code, to the predictions it makes from the macroblocks it sent before
(`history`), by the rules of the standard stated once in `Resets` and `Leaves`. The
decoder sees the differences only.

| run | shows |
|---|---|
| `macroblocks` | `PredictionsInside`: whatever the vectors, each block read lies inside its plane, with the column and row more of a half pixel, in 4:2:0 and 4:2:2, frames and fields; `MacroblocksInPlace`: pointer, position and address keep step over rows and skipped macroblocks, and nothing is decoded past the end; `DecodedAsMeant`: vectors, reference fields (also the first field of the same frame), predictors and DC predictions are those the sender meant |

Bounds: a picture of two by two macroblocks, so that a slice spans rows and a field has one
row; slices of three macroblocks, enough for a predictor that is left, used and
reset (two in B frames with field motion, `Shorter`); ten pictures (`MCPictures`) in which every
motion type and every source of a reference occurs; two vectors that point beyond opposite edges and differ by more than half
the range, so that differences wrap. The decoded pixels do not matter to the next step, hence no
state of the reference pictures. The row of the chrominance is unsigned in the code and
may pass zero before the rest is added; the addition brings it back, since the stride is even.

### FrameQueue

The ring `m_FrameQueue`, its position and size under their names. The streaming
thread's program counter says where it is: outside, in the loop of Transform,
between the halves of GetDisplayFrame (storing a frame; returning another), in
DeliverFrame, in the loop of FlushFrameQueue, about to pass on the end of the
stream. The control thread flushes in the two steps of the base class (the
filter's EndFlush, then the pin's), stops (waiting for `m_csReceive`), starts and
reconnects with a new queue size. Creation and mapping of textures and delivery
may fail wherever the code tests for it, and where it does not (the result of
`CopySampleTextureToStagingTexture`, `MD` 881). A frame is its number in display
order. `gone` collects what was cleared or lost to a failure.

| run | shows |
|---|---|
| `queue_safety` | `NoneForgotten`: the ring keeps its type, overwrites and forgets nothing; `DelayedInOrder`: Transform delivers a frame when exactly the queue size of later ones have been displayed, whatever was cleared or lost before, and in order; `FlushedEmpty`: a flush leaves nothing, if the last Receive had returned; `FlushDrains`: the queue says it is empty only when nothing is left to deliver |
| `queue_eos` | a violation, see 5 |

Bounds: `MAX_QUEUE_FRAMES = 4`, the value in `Mpeg2DecoderD3D11.h`; every size
from 0 to it, and changes between them at a reconnection; seven frames, more
than once round the ring of five slots. `queue_eos` assumes weak fairness of the
streaming thread inside the filter: a thread that runs executes its next
statement; the control thread has none, and the counterexample needs none.

### PictureOrder

The library's control over headers and the reordering of pictures, with the
Transform loop (software decoding) as its reader. A coded stream is a succession
of units (sequence header, GOP header, picture, slices, sequence end). Its
sender produces every legal one within the bounds: any number of B pictures
before each reference, frames and field pairs, P second fields of I first
fields, low delay or not, repeated and changed sequence headers. `code` is the
last start code found and `header` what follows it; as in `decode.c` a header is
processed when the start code after it is found. `action`, `state`, `sequence`,
`picture`, `pictures`, `fbuf`, `first`, `info` are those of `mpeg2dec_t`, with
records and buffers by their index. `ret` is the value `mpeg2_parse` returned,
until Transform has handled it. `mem` is what was decoded into each buffer.
`LoseUnit` loses a unit, `SpoiltHeader` makes a header fail, `LoseRest` is the
part of a sample that is lost when STATE_INVALID makes the filter start the
library again. The stream comes in samples (`Sampled`): a new one may begin at any
unit, with the time of the first picture that begins in it or without one. `rtStart` is
the variable of Transform: the time of the sample as long as no picture has taken it
(`Later` while that picture is still to come). STATE_PICTURE gives it to whichever
picture the library reports first, so that with a lost header, or a header of which the
sample before holds the start, a frame takes the time of another. The code
does nothing about this. `aligned` records whether all samples so far began where
that cannot happen (`AlignedWith`): at the headers of the frame whose time they have,
and with no other frame beginning in them before it is taken. A PES packet with a time stamp
and one picture is such a sample.

Abstractions: extensions, matrices, aspect ratio, user data and pixel data are
left out; a picture is the number of its frame in display order, and so is a time; whether frames are dropped or are preroll is a
free choice for every picture, while the code drops only B pictures, and all of
a preroll sample; conversions to another colour space and the custom buffer
interface, which the filter does not use, are left out. A picture is decoded at
its first slice: `SliceDecoder` shows that the others are done before the
picture is reported.

| run | shows |
|---|---|
| `order` | on intact streams: `FramesInOrder`, frames are delivered in display order, each once, with the record of what is in the buffer, both fields, and none held back longer than one reference; `PredictedFromReferences`, the buffers that mpeg2_init_fbuf is given for a P picture (forward, and its own frame for the other field of a second field) and for a B picture (forward and backward) hold the frames the sender predicted it from; `EndDrains`, nothing is held back at a sequence end; and whatever is lost or spoilt: `TimeFitsRecord`, while the samples are aligned no frame gets another's time, neither that of a lost picture nor one left in its record; `TargetNoReference`, no picture is decoded over a live reference |

Bounds (`Bounded`): every order of up to four frames with up to two B pictures between
references, the first two coded as frames or as fields; a second sequence after an end. A stream
with a discontinuity, a damaged unit or samples that are not aligned has two frames, one with two
damaged units has one, and only the first two frames give their time to a sample: after a restart nothing is left but the number of the last frame shown, and what is
claimed of damaged streams is proved for all of them (see 4). The input ends, so the
runs have `CHECK_DEADLOCK FALSE`.

### HardwareSamples

A hardware decoder in place of the software decoder: the library's actions
are those of `PictureOrder`, the hook counts slices, Parse submits first fields
and Transform the rest, with Direct3D 11 only when there is a frame to display, with
DXVA2 always. The two files are the same but for this, the order in which samples are
released, and where a displayed sample goes: Direct3D 11 copies it, DXVA2
hands it to the renderer, which may keep it (`kept`). A definition that
translates both is mapped to one of them. `Sample` and
`ArraySlice` are the members of `m_Samples`, `RefSample` and `RefSlice` those of
`m_RefSamples` (`SurfaceID` with DXVA2), `m_lFree` the allocator's list, in its order,
because which surface is taken next decides what is overwritten. `surface` is the frame in each
surface, `whole` the frames of which every picture was submitted. A submission
may fail before or after the GPU began. What is shown goes through the queue of
`FrameQueue`, which is left out here; the input of the runs has no times, which decide
what is delivered and not what is decoded or displayed.

| run | shows |
|---|---|
| `samples_safety` | `SamplesOwnedOnce`: the samples are shared out between the free list, the frame buffers, the references put aside and the renderer, whatever fails or restarts; `NeverWaits`: GetBuffer always finds a surface, or the streaming thread would wait for itself; `ReferencesKept`: the surface of a decoded reference keeps it while pictures are predicted from it, though its sample was released when it was displayed |
| `samples_own` | a violation, see 5 |

Bounds: `cBuffers = 8` as in DecodeFrame and CompleteConnect; four frames, with at most one
B picture between references, so that two references are displayed and released and a
B picture is decoded after them; a failed submission, a discontinuity or a sample that
the renderer keeps (up to two) costs one frame each, and the first two frames may be fields
(`Bounds`); every picture skipped or not. The renderer
returns them just before the decoder looks at the list (`ReturnsLate`); nothing
reads the list between, so that only the order of the list after a restart could differ.
The stream is intact. A reference that was skipped, given up
or submitted in part is exempt in `ReferencesKept`: nothing was decoded that
could be kept (`samples_own` shows what then happens).

### SampleAllocator

`CBaseAllocator` with the allocation of its three descendants, because one
semaphore, one free list and one count serve them all. Each operation holds the
allocator's lock and is one action; the wait of GetBuffer and the release of the
allocator's own reference lie outside it and are actions of their own. The
owner is the decoder or the pin; threads of any number call GetBuffer, and samples come
back at any time. `kind` says what Free and Alloc do: `CMemAllocator` keeps its
memory, the two surface allocators give it back.

| run | shows |
|---|---|
| `allocator` | `AllAccounted`: where the samples are decides what the allocator is (each free or out, as many as agreed while committed, a decommit pending exactly while some are out, nothing left on the list of a deleted allocator); `AliveWhileUsed`; `WaiterIsWoken`, nobody sleeps while a sample is free or after a decommit; `DecommitEndsCalls` |

Bounds: three threads on two samples, so that two wait and one is served;
signals and threads about to drop a reference are capped at two
(`MaxSignals`, `MaxReleasing`), which stops further commits, not returns of samples.
Fairness: a thread inside GetBuffer runs, and one that was signalled wakes.

### FilterLifecycle

The decoder object `d` (its kind, whether it has a device and a video decoder, whether
these are current or lost), the library's instance `lib`, the surfaces `a` of the
DXVA2 allocator and who holds them, the flags and options. InitDecode is one
action per kind of decoder; connection, pause in two halves around the lock,
stop, reconnection of the output (`Reconnects`: only when something about it has changed), recommit
of the allocator in two halves around the flush of the renderer, decoding with each of its
failures. A frame decoded in software or by Direct3D 11 is copied (`DeliverCopy`), into
a sample of the same allocator if the output is still connected for DXVA2, which may then be
reallocated too. `m_csReceive` is held whenever the streaming thread is inside. It exists
twice: Stop, Pause and the input pin take the one of CTransformFilter, Receive, InitDecode and
Deliver that of CBaseVideoFilter, which hides it. Both are taken in Receive, so that Stop waits for
Transform; BreakConnect takes neither.

| run | shows |
|---|---|
| `lifecycle` | `UsedAlive`: types, and what Transform uses is there, the decoder, the instance of the library and its records, the bytes of the sample; `DecodesForOutput`: DXVA2 decodes only for an output that takes its surfaces, into the current ones, which are large enough, although ReconnectOutput looks at them only when something has changed; `SilentForAReason`: a hardware decoder that stays without output has one of five reasons; `LossIsRepaired`: after a loss of the Direct3D 11 device it is replaced or the filter decodes in software, or playback ends |

Bounds: two sizes, so that surfaces can be too small; the counts of samples
and losses are abstracted to who holds any. Assumed of the filter upstream: after
Receive has failed the next sample is a discontinuity, which is what a source
does that stops or flushes on an error. Fairness, for `LossIsRepaired` only: calls of
Transform end; the source goes on sending samples, and these go on holding
pictures (strong fairness of `ParseBuffer` and `Slices`: it is the content of the
stream, not the scheduler, that brings the next picture).

### OutputDelivery

ReconnectOutput, GetDeliveryBuffer and DeliverFrame step by step against a renderer
that may keep, refuse and return samples, be stopped and be paused between any two
steps. The renderer's input pin is taken to be built like the filter's own
(CBaseVideoInputPin) with a CMemAllocator: the repository holds no renderer, and this
is the one its code for retries and for attached types is written for. A `size` stands for width,
height and aspect ratio, larger ones needing more bytes; the rate is 1, or 2 with a
deinterlacer that doubles it. Setting the type of the input pin never fails.

| run | shows |
|---|---|
| `delivery` | `FilledAsAgreed`: a sample is filled in the format the renderer knows or finds attached, and has room for it; `SamplesInOneHand`: never while the renderer holds it, and every path gives it back; `CommittedWhileActive`; `DeliveryEnds`: neither the retries nor the wait for a buffer last for ever, unless the renderer keeps every sample |
| `bob_stop` | a violation, see 5 |

Bounds: three sizes, one that fits what was agreed and one that does not after each
change; two samples, one kept and one in hand; two retries (`RetryTimeout`, ten in
the code), each of which may succeed, so that the count only decides how long it
lasts. Fairness: the streaming thread runs; nothing is asked of graph and renderer.
`unsettled` marks the runs in which the code itself records as agreed what was not
(see 5); `FilledAsAgreed` makes no claim there.

### FrameOutput

From displayed frame to sample or call of OnFrame: SetFrameStatus entirely, the queue of
the Direct3D 11 decoder, the deinterlacer set with the history of Yadif, pending and
skipped frames, the second field, the wait for a key frame. The same state serves
three clients: the filter with software decoding, with Direct3D 11, and the decoder object
of `VideoFrameDecoder.cpp`, whose client closes and reopens it when a callback failed.
`log` is the history of displayed frames with what became of each.

| run | shows |
|---|---|
| `frames` | `TelecineAdapts`: the mode is exactly what the last frames say, 3:2 pulldown is woven and video is not; `HistoryUnbroken`: types, and the frames Yadif keeps are successive, of one size and one session; `OnlyLastWithheld`: what Yadif withholds is sent with the next frame, so that no change costs more than one frame; `OutputForward`: samples are in order, each after the one before, from a key frame on |

Bounds: the constants 31, 10 and 180 of the detection are 3, 2 and 2, so that the
window fills, the mode starts, ends and starts again within five frames; queue sizes
1 and 3, shorter and longer than Yadif's history; up to six frames with one change, or five with
three for the decoder object, whose states are fewer. The streams of the software decoder mix
interlaced and progressive frames with repeated fields that are film (`"frame"` set) and that
are not. Every frame has a time; frames
without one are in `PictureOrder`, failing deliveries in `OutputDelivery`. The input ends,
hence `CHECK_DEADLOCK FALSE`. `stale` marks a case of 5 that the properties exempt.

## 4. Proofs

`SliceDecoder_proofs` proves, for every set of threads, every set of twice as
many buffers and every bound on the slices, that type correctness,
`BusyIsRunning`, `PictureSetUpAlone`, `BuffersPartitioned`, `FrameComplete`,
`NoStrandedTask`, `SleeperIsWoken` and `NodesBounded` hold in all behaviours of `Spec`. The
assumptions are `PoolAssumption` (at least one thread, finitely many, `None` is
not a buffer) and `SliceAssumption` (finitely many buffers, two per thread).
The inductive invariant comes in layers, each proved with the ones before it:

1. `ControlInv`: the types with `Holding` (who works on a buffer has one),
   `BusyIsRunning`, `Position` (which half of `mpeg2_parse` each position is in)
   and `Quiet` (nothing queued or running outside the slices of a picture).
   `Quiet` is what the waits establish, by `BusyIsRunning`; it gives
   `PictureSetUpAlone`, and that a new pool starts with no thread left.
2. `BuffersPartitioned`, by the step of each buffer from the free list to the
   parser, the queue, a worker and back.
3. `Accounted`: while the picture is intact the slices sent are the decoded and
   the pending ones. With `Quiet` it gives `FrameComplete`.
4. `EventInv`: `NoStrandedTask` and `SleeperIsWoken` need that a worker has left
   only after `stop` (`Stopped`), and that `wait_any` sleeps only with a busy
   thread (`OldCount`).
5. `QueueFits`: the buffers of the queue are distinct, so that queue and running threads
   never hold more nodes than there are buffers; it gives `NodesBounded`.
6. `Distinct`: every buffer in flight holds a slice of its own. With it, the slices that
   queue and workers hold are the outstanding ones of `SliceWork`, and each step of the layer is
   a step of the contract or a stutter (`PromiseKept`, the contract without its fairness).

`HardwareSamples_proofs` starts with the module that `HardwareSamples` extends. It proves every
property of `PictureOrder`, for every stream of any length,
any number of B pictures between references, any restarts and formats. Some parts hold
whatever the damage: the types (`TypeCorrect`); that `mpeg2_set_fbuf` finds a third
buffer because two are spared, which makes `TargetNoReference` inductive; and that a first
field is in the first record of a pair (`FirstOfPair`), so that a second field stays within
the four records (`PictureInBounds`). `TimesFit` (`TimeFitsRecord`, for all streams, damaged in any
way) follows the time from the sample to the record. While the samples are aligned a time not
used yet is that of the picture header the library has found, if it has found one, and that of the
frame of which the sender still owes the second field, if there is one (`InputInv`). Hence when the header of a picture
is complete, the sample has the time of this picture or none, even if a header was lost between, and
so has the record once STATE_PICTURE is handled (`StampInv`); all other records have the time of their
own picture or none (`OwnTime`), since a record is stamped whenever it is reused. `PassFacts` says what
one unit of the stream, found or lost, does to the time of the sample. The rest (`Good`) holds as long as nothing was lost, and has to
describe the sender too: where the next unit is in its stream (`PlaceInv`) and which field of
a frame (`FieldsInv`); which reference it has sent and not yet shown (`PendingInv`);
that what was displayed are the frames before that one, in order (`OrderInv`), and that what
the next state will display is the next frame (`ShowInv`, `EndInv` at the end of a
sequence, `HeldInv` for the one kept back); that the two buffers kept hold the last two
references (`ReferenceInv`), and that these are decoded there unless they were skipped, the newer
one, if it is the picture in decoding, from its first slice on (`PredictionInv`). `FramesInOrder`, `PredictedFromReferences` and `EndDrains` are consequences.
TLC agreed with each of these parts on bounded undamaged streams before they were proved.

Its second half proves, for both decoders, every stream (damaged ones too) and any
number of samples, failures and samples that the renderer keeps, that `SamplesOwnedOnce` holds, and
`NeverWaits` if there are enough samples. `HeldOnce` says of the free list, the two arrays and
the renderer that each holds different samples, no two the same one, and all of them
together every surface; each hand-over of the code has a lemma that it keeps this, whoever
gives and takes (`ReleaseSample`, `ReleaseReference`, `MoveReferences`, `KeepSample`,
`ReturnSample`, `TakeSample`, `NewAllocator`), so that the proof of an action follows the
order of its releases. `ReferenceSlices` is what makes putting a reference aside
safe: an entry of `m_RefSamples` has the sample of its own slice or none. The library's part is
that of `PictureOrder`, unchanged (`LibraryImplemented`, from each action to one of its
actions), so that its invariants `Base` and `Good` carry over. `NeverWaits` is then a count: when
the frame buffer needs a sample, two are in the other frame buffers at most, two more are references
and the renderer has `MaxKept`. Its hypothesis `EnoughSamples` asks for one more than these;
the eight that the code asks for (`Mpeg2DecoderD3D11.cpp`, `TVTestVideoDecoder.cpp`) are enough
for Direct3D 11, and for DXVA2 as long as the renderer keeps three at most.

It also proves `ReferencesKept` for every stream that arrives undamaged. The surface of a
displayed reference is no longer owned, so what keeps it is the order of the frames. `RefsInv`:
the older reference is before the newer one and before what is due next, and a
B picture is neither. `OldFrames`: when the header of a reference comes next, every frame that was
submitted or is referenced is older. `KeptInv`: the surface of a reference submitted whole
is the one `RefSlice` names and in no other buffer's sample, so no picture in decoding takes it;
while a reference is being decoded, `RefSlice[0]` is that of the reference before it. TLC checked
all three on `samples_safety` before they were proved.

`SampleAllocator_proofs` proves every safety property of the allocator for any
finite set of threads, any number of samples and any caps (`AllocatorAssumption`). The
inductive invariant adds to the checked properties what they rest on: that samples
stay while a decommit may still be cancelled and that `CMemAllocator` knows when what it
kept will do (`KeptAsAgreed`); that each reference is accounted for (`RefsCounted`),
so that the last ReleaseBuffer drops one that exists; that surfaces exist only
between a commit and the end of a decommit (`SurfacesReturned`); and the two facts
the comment on lazy signalling states (`LazySignalling`), of which `WaiterIsWoken` is
a consequence by counting.

`OutputDelivery_proofs` proves the safety of output and delivery for any number of
sizes, samples and retries (`OutputAssumption`). Its invariant says, for each
position of the streaming thread, where the sample is (`SampleInv`), what DXVA leaves
out (`ModeInv`), how the type of the pin follows the picture (`PictureInv`), what holds
when nothing is unsettled (`SettledInv`), and when the allocator is committed
(`CommitInv`).

`MacroblockDecode_proofs` proves `PredictionsInside` and `MacroblocksInPlace` for every size of
the picture, every range of the vectors, every set of vectors, and slices of any length, from
`SliceAssumption`: whole macroblocks, in each field if there are fields, positive ranges. That a field has
whole macroblocks, so that the height is a multiple of 32, is what `header.c` 220-222 makes of any sequence that is not
progressive. It does not refuse a field picture in a sequence that says it is progressive (608-620): the standard
forbids one, and nothing is claimed of it here. The first part is
arithmetic: `MotionInside` and `MotionFieldInside` follow from the limits (`Columns`) for any
integer vector at any macroblock of the picture (`Placed`). The invariant has to supply such
integers and such places: `TypeInv` (position and predictors), `HistoryInv` (what the sender
meant are vectors, so that the differences it sends are), for which each motion type has
its result typed once (`MotionResult`). `PlaceInv` adds that dest and v_offset are the same
line and that the address is the one of the position; that division by the width
finds the row again is `Division`.

The same module proves `DecodedAsMeant`, with `HeaderAssumption` about the pictures. The code justifies
it: `bound_motion_vector` (`slice.c` 211) keeps 5 + f_code bits, so the range is 16 times a
power of two, hence even; header.c has `f_code[1]`, the full_pel_vector, set for
MPEG-1 pictures only (562-567), which have neither fields nor concealment vectors; and that the sender keeps to the
range is the standard's rule, without which a difference modulo the range says nothing. The invariant
`AgreeInv` says that decoder and sender hold the same predictors, those of the backward direction at
zero in a P picture and all of them in the range (`PredictorInv`), and that `dc` is the
macroblock before, if that is intra (`DCInv`). Without the range the step fails: `DifferenceAdded`, that
adding a difference modulo the range finds the vector, needs both ends in it, and the
vertical vector of a field in a frame is not bounded by the code at all, where `BoundSmall` shows
that it need not be. `PredictorAfter` is how a macroblock changes what the sender predicts,
`VectorsDecoded` and `FieldsDecoded` compare each motion type with the sender's
view, and `MeaningAgrees` collects what every macroblock has to show.

`FrameQueue_proofs` proves the safety of the ring for every size of it and any number of
frames (`QueueAssumption`). That frames leave in order is not inductive by itself: it needs
what the slots hold. While frames come in, slot `Base + i` holds the frame displayed
`m_FrameQueueSize - i` ago or none, and frames not yet mapped are newer than all delivered
(`Aligned`, with `HandInTurn` for the frame in hand); the arithmetic of one turn of the
ring is `Turn` and `AheadInRing`. The slot that is written next has been mapped
(`AtPosition`), so that no store forgets a frame (`Accounted`). `ThreadInv` says what a
flush and a stop keep out, and from it `DrainedInv` that they leave nothing to the loop of
FlushFrameQueue. The loop itself takes the slots in order from the position on.

`FilterLifecycle_proofs` proves the three safety properties of the life cycle for any number
of picture sizes (`SizesAssumption`). The invariant says, for each part of what the callbacks
share, when it is there: the decoder while Transform runs (`PlaceInv`), the bytes and
`pInfo` of the library (`InputInv`, which needs that an error leaves `failed` behind), the
connection and the flags (`OutputInv`), the surfaces while the allocator is committed
or waits for them (`SurfaceInv`), their size (`FitInv`: while there is a video decoder for them they
have room for `m_Dimensions` except between ReconnectOutput and the recommit, which is why the early
return of ReconnectOutput does no harm), and the reason of each way to be without a video decoder
(`ReasonInv`). Lemmas such as `InitDecodeFacts` and `DecommittedFacts` state once what
the calls that several handlers make leave behind.

`FrameOutput_proofs` proves `HistoryUnbroken`, for both decoders of the filter and the decoder
object, every size of the queue and every set of methods (`OutputAssumption`). What Yadif keeps
says too little of the frames that wait for it, with the method they had when they were
displayed. The invariant (`KeptInv`) adds two parts about the queue and the method of the next
frame (`Due`). `Runs`: the frames of a method that wait are one run, at the head of the
queue if Yadif keeps frames of that method already, since choosing a method anew
initializes its deinterlacer, unless frames for it were waiting (`stale`). `Latest`: in that
case Yadif was given the last frame. `OrderInv` says that frames are displayed, wait and are
given in order, and that what waits belongs to the session. Then the next frame given
follows what its deinterlacer keeps (`HistoryExtends`, `GivenUnbroken`), and a frame displayed with the
same method or another keeps both parts (`DisplayedUnbroken`). TLC checked the invariant on
`frames` before it was proved.

`TelecineAdapts` is proved for every window, threshold and stream. `FilmInv` says what the five
variables of the detection are of the history: the number of frames of the session, the last
film frame, whether the newest frame is film, and for each place of the window whether the frame
so many places back was (`CountInv`, `LastInv`, `NowInv`, `WindowInv`). `FilmAfter` is the rule of
the code for one frame, from the flags of the frame before. `ModeInv` restates the mode:
some frame of the session had enough film behind it, and since then film was never gone for
`ExitFrames` frames; a count of the window is a count of the history because the
two are in bijection (`Enough`). The adaptation to a cadence follows by counting the film frames of
a 3:2 pattern. Proving it showed that a pattern has to be seen from one frame earlier than the
property first said: a repeated field right after another one does not start film, so that the first
frame of the pattern may not count.

`OnlyLastWithheld` and `OutputForward` are proved from one more invariant, `DeliveryInv`, since
each needs the other: what Yadif sends late is in order because it was not sent before. Beside
the two properties it says: a sample lies within the time of its frame (`Delivered`); Yadif keeps
frames of its own method, and the last frame of the session has the method that is set
(`MethodInv`); the sessions of the history do not decrease (`SessionInv`); before the key frame only
the software decoder gives a deinterlacer frames, and it has no queue (`KeyAt`); the last frame
given was shown, or is the last of two or three that its deinterlacer keeps, or something has changed
before the next (`Withheld`); and of two or three frames that `YADIF` keeps the last was not shown while
frames for it wait (`Unshown`). `SamplesSent` states what one call of Output adds to `sent`, by way
of the two calls of GetFrame. A frame that is displayed is first recorded (`DeliveryRecorded`: what
was given stays, Yadif may start again), then the first of the queue is given (`GivenDelivery`).
`stale` is exempt from the order and from what is withheld, not from the key frame. TLC
checked `DeliveryInv` on the bounds of `frames` (1.0 million states) before it was proved.

Only model-checked: all liveness, with the fairness part of the refinement of `SliceWork`
(out of the prover's reach).

## 5. Where code and text disagree

Each of the first three is a run that expects its violation:

- `queue_eos`: the loop of FlushFrameQueue (`TV` 324) ends only when a delivery
  fails. With the Direct3D 11 decoder EndOfStream does not return, the end of
  the stream is not delivered, and Stop waits for `m_csReceive`.
- `samples_own`: of an I frame of two fields at the start of a stream only the
  first is submitted (`TV` 694), and it is not remembered as a reference (`MD`
  575); a B picture is then decoded into its own forward reference, against the
  assertion at `MD` 514-517.
- `bob_stop`: DeliverFrame releases its sample and asks for another for the second
  field; when the renderer has stopped meanwhile the pointer is null and is used
  (`TV` 964-972).

Met while modelling, and part of the modules without a run of their own:

- Transform (`TV` 692) and VideoFrameDecoder ignore STATE_INVALID_END, with which the
  library reports the last reference when the format changes without an end
  code; libmpeg2's own player displays it (`libmpeg2/src/mpeg2dec.c` 337-340).
- GetDisplayFrame leaves the texture of the frame it returned in its slot
  (`MD` 883-890), and GetQueuedFrame finds it once more at the end of the stream;
  a clear of the queue that races with a Receive leaves a frame from before it.
- ReconnectOutput flushes its own output pin, which answers E_UNEXPECTED
  (`BV` 345), and records a refused connection as agreed (`BV` 340).
- Yadif bob gives its second sample times that end before they start. After a short
  interlude of another method, with a queue of three frames or more, Yadif
  interpolates with frames from before it. One frame from before the key frame leaves the
  software decoder through Yadif. The end of the stream leaves the frames Yadif keeps.
- The frame capture converts the first frames after a change of the colour matrix with
  the old one (`FrameCapture.cpp` 125).
- The C++ pool, which is not compiled, sets its stop flag and notifies without the lock
  (`thread_cpp.cpp` 125): a thread between its test and its wait misses both.

## 6. What is not modelled

- Pixel arithmetic (coefficients, IDCT, averaging of predictions, the interpolation of
  deinterlacers, conversion, colour): data without control that the properties
  could see.
- In `slice.c`: 4:4:4, which is 4:2:2 with the vectors of the luminance; D pictures; the
  conversion of rows while decoding, which the filter does not ask for; slices that
  are damaged, whose vectors `PredictionsInside` covers and whose content has no meaning.
- `thread_cpp.cpp` is not compiled; it is left for a variant of the pool.
- Registration, property pages, options storage, statistics, logging: user interface and I/O.
- Failure of memory allocation inside the pool, which the code does not test.
- The use of what another thread has deleted: a texture released during a flush, the
  decoder deleted in OnDXVA2SurfaceCreated or read by GetStatistics. Its outcome
  is undefined.
- A second field P predicted from the first field of its own frame: DecodeFrame
  gives the GPU the surface of the frame before (`MD` 436), or none at the start
  of a low delay stream; what the GPU makes of it is not known here.
- The contents of the buffers that both hardware decoders give the driver.
- Matrices, extensions for display, user data, frame rates, and streams that start with
  a B picture or whose sequence ends after B pictures only.
- The parts of the DirectShow base classes that the filter does not use: seeking,
  windows, clocks, other kinds of filter.
