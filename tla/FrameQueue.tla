----------------------------- MODULE FrameQueue -----------------------------
(***************************************************************************)
(* The queue of delayed frames of the Direct3D 11 decoder                  *)
(* (Mpeg2DecoderD3D11.cpp), with the two threads of the filter that use    *)
(* it (TVTestVideoDecoder.cpp).                                            *)
(*                                                                         *)
(* A frame the decoder displays is copied to a staging texture in a slot   *)
(* of the ring, and the texture of the slot after it, m_FrameQueueSize frames     *)
(* older, is mapped and delivered: the GPU gets time to finish the copy.   *)
(*                                                                         *)
(* The streaming thread calls Receive and EndOfStream of the input pin and *)
(* holds m_csReceive all through them.  The control thread (m_csFilter)    *)
(* flushes, stops and starts; a flush does not take m_csReceive.  A frame  *)
(* is its number in display order; attributes and picture go together.     *)
(***************************************************************************)
EXTENDS Integers, Sequences, SequencesExt

CONSTANTS
  MAX_QUEUE_FRAMES,
  MaxFrames   \* bound: frames displayed

ASSUME QueueAssumption ==
  /\ MAX_QUEUE_FRAMES \in Nat
  /\ MaxFrames \in Nat

VARIABLES
  m_FrameQueueSize,
  m_FrameQueue,    \* the frame in the texture of each slot, 0 for none
  m_FrameQueuePos,
  NextPos,         \* the local variable of GetDisplayFrame
  pc,              \* the streaming thread
  hand,            \* the frame it has mapped, 0 for none
  ctl,             \* the control thread
  running,         \* the filter is not stopped
  m_bFlushing,     \* the input pin is flushing
  eos,             \* the source has called EndOfStream for this segment
  shown,           \* frames displayed
  sent,            \* frames delivered, in order
  gone             \* frames cleared, or lost to an error that was reported

vars == <<m_FrameQueueSize, m_FrameQueue, m_FrameQueuePos, NextPos, pc, hand, ctl, running,
          m_bFlushing, eos, shown, sent, gone>>

Slots == 0 .. MAX_QUEUE_FRAMES

(***************************************************************************)
(* The streaming thread is outside the filter ("idle"), in the loop of     *)
(* Transform ("parse"), between the two halves of GetDisplayFrame          *)
(* ("return"), in DeliverFrame ("deliver"), in the loop of FlushFrameQueue *)
(* ("flush", "flushDeliver") or about to pass the end of stream on ("eos").*)
(***************************************************************************)
TypeOK ==
  /\ m_FrameQueueSize \in 0 .. MAX_QUEUE_FRAMES
  /\ m_FrameQueue \in [Slots -> 0 .. MaxFrames]
  /\ m_FrameQueuePos \in 0 .. m_FrameQueueSize
  /\ NextPos \in 0 .. m_FrameQueueSize
  /\ pc \in {"idle", "parse", "return", "deliver", "flush", "flushDeliver", "eos"}
  /\ hand \in 0 .. MaxFrames
  /\ ctl \in {"idle", "flushing", "cleared", "overlapped", "stopping"}
  /\ running \in BOOLEAN /\ m_bFlushing \in BOOLEAN /\ eos \in BOOLEAN
  /\ shown \in 0 .. MaxFrames
  /\ sent \in Seq(1 .. MaxFrames)
  /\ gone \in SUBSET (1 .. MaxFrames)

Empty == [s \in Slots |-> 0]

Init ==
  /\ m_FrameQueueSize \in 0 .. MAX_QUEUE_FRAMES
  /\ m_FrameQueue = Empty
  /\ m_FrameQueuePos = 0
  /\ NextPos = 0
  /\ pc = "idle"
  /\ hand = 0
  /\ ctl = "idle"
  /\ running = FALSE
  /\ m_bFlushing = FALSE
  /\ eos = FALSE
  /\ shown = 0
  /\ sent = <<>>
  /\ gone = {}

Queued == {m_FrameQueue[s] : s \in Slots} \ {0}
Sent == ToSet(sent)

\* Fault: the ring has a slot less.
AfterShortRing(p) == IF m_FrameQueueSize = 0 THEN 0 ELSE (p + 1) % m_FrameQueueSize

\* The slot after p in the ring, which has one slot more than the queue.
After(p) == (p + 1) % (m_FrameQueueSize + 1)

\* ClearFrameQueue: what had not been delivered never will be.
ClearFrameQueue ==
  /\ m_FrameQueue' = Empty
  /\ m_FrameQueuePos' = 0
  /\ gone' = gone \cup (Queued \ Sent)

-----------------------------------------------------------------------------
(* Receive *)

\* Receive is let in when the pin is not flushing and the filter not stopped;
\* a source sends nothing after the end of the stream.
Receive ==
  /\ pc = "idle"
  /\ running /\ ~m_bFlushing /\ ~eos
  /\ pc' = "parse"
  /\ UNCHANGED <<m_FrameQueueSize, m_FrameQueue, m_FrameQueuePos, NextPos, hand, ctl, running,
                 m_bFlushing, eos, shown, sent, gone>>

\* InitDecode, for a discontinuity or for STATE_INVALID: ResetDecoding.
InitDecode ==
  /\ pc = "parse"
  /\ ClearFrameQueue
  /\ UNCHANGED <<m_FrameQueueSize, NextPos, pc, hand, ctl, running, m_bFlushing, eos, shown, sent>>

\* GetDisplayFrame without a queue: the frame goes through the one staging
\* texture; creating or mapping that may fail.
ShowNow ==
  /\ pc = "parse"
  /\ m_FrameQueueSize = 0
  /\ shown < MaxFrames
  /\ shown' = shown + 1
  /\ \/ hand' = shown + 1 /\ pc' = "deliver" /\ UNCHANGED gone
     \/ gone' = gone \cup {shown + 1} /\ UNCHANGED <<hand, pc>>
  /\ UNCHANGED <<m_FrameQueueSize, m_FrameQueue, m_FrameQueuePos, NextPos, ctl, running,
                 m_bFlushing, eos, sent>>

\* GetDisplayFrame with a queue, first half: copy the frame to the slot at
\* the position.  A texture that is there is overwritten; the creation of a
\* new one may fail, which nobody notices.
StoreFrame ==
  /\ pc = "parse"
  /\ m_FrameQueueSize > 0
  /\ shown < MaxFrames
  /\ shown' = shown + 1
  /\ \/ /\ m_FrameQueue' = [m_FrameQueue EXCEPT ![m_FrameQueuePos] = shown + 1]
        /\ UNCHANGED gone
     \/ /\ m_FrameQueue[m_FrameQueuePos] = 0
        /\ gone' = gone \cup {shown + 1}
        /\ UNCHANGED m_FrameQueue
  /\ NextPos' = After(m_FrameQueuePos)
  /\ pc' = "return"
  /\ UNCHANGED <<m_FrameQueueSize, m_FrameQueuePos, hand, ctl, running, m_bFlushing, eos, sent>>

\* Fault: the position moves only when a frame is returned.
ReturnFrameAndMove ==
  /\ pc = "return"
  /\ LET frame == m_FrameQueue[NextPos]
     IN  \/ /\ frame # 0 /\ hand' = frame /\ pc' = "deliver"
            /\ m_FrameQueuePos' = NextPos /\ UNCHANGED gone
         \/ frame = 0 /\ pc' = "parse" /\ UNCHANGED <<hand, gone, m_FrameQueuePos>>
  /\ NextPos' = 0
  /\ UNCHANGED <<m_FrameQueueSize, m_FrameQueue, ctl, running, m_bFlushing,
                 eos, shown, sent>>

\* Second half: map the texture of the next slot, if it has one, and move
\* there.  The slot keeps its texture, to be written to next time.
ReturnFrame ==
  /\ pc = "return"
  /\ m_FrameQueuePos' = NextPos
  /\ LET frame == m_FrameQueue[NextPos]
     IN  \/ frame # 0 /\ hand' = frame /\ pc' = "deliver" /\ UNCHANGED gone
         \/ frame # 0 /\ gone' = gone \cup {frame} /\ pc' = "parse" /\ UNCHANGED hand
         \/ frame = 0 /\ pc' = "parse" /\ UNCHANGED <<hand, gone>>
  /\ NextPos' = 0
  /\ UNCHANGED <<m_FrameQueueSize, m_FrameQueue, ctl, running, m_bFlushing, eos, shown, sent>>

\* DeliverFrame and UnlockFrame; an error of DeliverFrame ends Transform.
DeliverFrame ==
  /\ pc = "deliver"
  /\ hand' = 0
  /\ \/ sent' = Append(sent, hand) /\ pc' = "parse" /\ UNCHANGED gone
     \/ gone' = gone \cup {hand} /\ pc' = "idle" /\ UNCHANGED sent
  /\ UNCHANGED <<m_FrameQueueSize, m_FrameQueue, m_FrameQueuePos, NextPos, ctl, running,
                 m_bFlushing, eos, shown>>

\* The data is used up.
TransformReturn ==
  /\ pc = "parse"
  /\ pc' = "idle"
  /\ UNCHANGED <<m_FrameQueueSize, m_FrameQueue, m_FrameQueuePos, NextPos, hand, ctl, running,
                 m_bFlushing, eos, shown, sent, gone>>

-----------------------------------------------------------------------------
(* EndOfStream *)

EndOfStream ==
  /\ pc = "idle"
  /\ running /\ ~m_bFlushing /\ ~eos
  /\ eos' = TRUE
  /\ pc' = "flush"
  /\ UNCHANGED <<m_FrameQueueSize, m_FrameQueue, m_FrameQueuePos, NextPos, hand, ctl, running,
                 m_bFlushing, shown, sent, gone>>

\* The slot i steps ahead of the position.
Ahead(i) == (m_FrameQueuePos + i) % (m_FrameQueueSize + 1)

\* Fault: the search ends a slot early.
WaitingBarLast == {i \in 1 .. m_FrameQueueSize - 1 : m_FrameQueue[Ahead(i)] # 0}

\* The steps at which GetQueuedFrame finds a texture.
Waiting == {i \in 1 .. m_FrameQueueSize : m_FrameQueue[Ahead(i)] # 0}

\* GetQueuedFrame finds a texture, which it takes out of the queue; it may
\* fail to map it.
GetQueuedFrame ==
  /\ pc = "flush"
  /\ \E i \in Waiting :
       LET frame == m_FrameQueue[Ahead(i)]
       IN  /\ \A j \in Waiting : i <= j
           /\ m_FrameQueuePos' = Ahead(i)
           /\ m_FrameQueue' = [m_FrameQueue EXCEPT ![Ahead(i)] = 0]
           /\ \/ hand' = frame /\ pc' = "flushDeliver" /\ UNCHANGED gone
              \/ gone' = gone \cup {frame} /\ UNCHANGED <<hand, pc>>
  /\ UNCHANGED <<m_FrameQueueSize, NextPos, ctl, running, m_bFlushing, eos, shown, sent>>

\* GetQueuedFrame finds none and returns S_FALSE; the loop of FlushFrameQueue
\* has no other exit than an error of DeliverFrame, and goes on.
GetNoFrame ==
  /\ pc = "flush"
  /\ Waiting = {}
  /\ m_FrameQueuePos' = Ahead(m_FrameQueueSize)
  /\ UNCHANGED <<m_FrameQueueSize, m_FrameQueue, NextPos, pc, hand, ctl, running, m_bFlushing,
                 eos, shown, sent, gone>>

\* DeliverFrame and UnlockFrame; an error ends the loop.
FlushDeliver ==
  /\ pc = "flushDeliver"
  /\ hand' = 0
  /\ \/ sent' = Append(sent, hand) /\ pc' = "flush" /\ UNCHANGED gone
     \/ gone' = gone \cup {hand} /\ pc' = "eos" /\ UNCHANGED sent
  /\ UNCHANGED <<m_FrameQueueSize, m_FrameQueue, m_FrameQueuePos, NextPos, ctl, running,
                 m_bFlushing, eos, shown>>

\* CTransformFilter::EndOfStream.
DeliverEndOfStream ==
  /\ pc = "eos"
  /\ pc' = "idle"
  /\ UNCHANGED <<m_FrameQueueSize, m_FrameQueue, m_FrameQueuePos, NextPos, hand, ctl, running,
                 m_bFlushing, eos, shown, sent, gone>>

-----------------------------------------------------------------------------
(* The control thread *)

\* Fault: the pin goes on letting Receive in.
BeginFlushOpen ==
  /\ ctl = "idle"
  /\ running
  /\ ctl' = "flushing"
  /\ UNCHANGED <<m_FrameQueueSize, m_FrameQueue, m_FrameQueuePos, NextPos, pc, hand, running,
                 m_bFlushing, eos, shown, sent, gone>>

\* Receive calls are refused from here on; one may be under way.
BeginFlush ==
  /\ ctl = "idle"
  /\ running
  /\ m_bFlushing' = TRUE
  /\ ctl' = "flushing"
  /\ UNCHANGED <<m_FrameQueueSize, m_FrameQueue, m_FrameQueuePos, NextPos, pc, hand, running,
                 eos, shown, sent, gone>>

\* EndFlush of the filter, which does not take m_csReceive: it may find the
\* streaming thread in the middle of a call ("overlapped").
EndFlush ==
  /\ ctl = "flushing"
  /\ ClearFrameQueue
  /\ ctl' = IF pc = "idle" THEN "cleared" ELSE "overlapped"
  /\ UNCHANGED <<m_FrameQueueSize, NextPos, pc, hand, running, m_bFlushing, eos, shown, sent>>

\* EndFlush of the input pin: Receive calls are let in again.
PinEndFlush ==
  /\ ctl \in {"cleared", "overlapped"}
  /\ m_bFlushing' = FALSE
  /\ eos' = FALSE
  /\ ctl' = "idle"
  /\ UNCHANGED <<m_FrameQueueSize, m_FrameQueue, m_FrameQueuePos, NextPos, pc, hand, running,
                 shown, sent, gone>>

\* Stop is called, and waits for m_csReceive ...
Stop ==
  /\ ctl = "idle"
  /\ running
  /\ ctl' = "stopping"
  /\ UNCHANGED <<m_FrameQueueSize, m_FrameQueue, m_FrameQueuePos, NextPos, pc, hand, running,
                 m_bFlushing, eos, shown, sent, gone>>

\* ... which it gets when the streaming thread has left the filter.
StopStreaming ==
  /\ ctl = "stopping"
  /\ pc = "idle"
  /\ running' = FALSE
  /\ ctl' = "idle"
  /\ UNCHANGED <<m_FrameQueueSize, m_FrameQueue, m_FrameQueuePos, NextPos, pc, hand, m_bFlushing,
                 eos, shown, sent, gone>>

\* Pause of a stopped filter, with m_csReceive: StartStreaming, InitDecode.
StartStreaming ==
  /\ ctl = "idle"
  /\ pc = "idle"
  /\ ~running
  /\ running' = TRUE
  /\ eos' = FALSE
  /\ ClearFrameQueue
  /\ UNCHANGED <<m_FrameQueueSize, NextPos, pc, hand, ctl, m_bFlushing, shown, sent>>

\* The output pin of a stopped filter is connected again: CompleteConnect
\* makes a decoder with the number of frames the options have by then.
CompleteConnect ==
  /\ ctl = "idle"
  /\ ~running
  /\ m_FrameQueueSize' \in 0 .. MAX_QUEUE_FRAMES
  /\ ClearFrameQueue
  /\ UNCHANGED <<NextPos, pc, hand, ctl, running, m_bFlushing, eos, shown, sent>>

-----------------------------------------------------------------------------
Streaming ==
  \/ InitDecode \/ ShowNow \/ StoreFrame \/ ReturnFrame \/ DeliverFrame
  \/ TransformReturn
  \/ GetQueuedFrame \/ GetNoFrame \/ FlushDeliver \/ DeliverEndOfStream

Control ==
  \/ BeginFlush \/ EndFlush \/ PinEndFlush
  \/ Stop \/ StopStreaming \/ StartStreaming \/ CompleteConnect

Next == Receive \/ EndOfStream \/ Streaming \/ Control

Spec == Init /\ [][Next]_vars

\* A thread that has entered the filter runs; a call ends only if the filter
\* ends it.
FairSpec == Spec /\ WF_vars(Streaming)

-----------------------------------------------------------------------------
(* Properties *)

\* The ring stays within its slots and never overwrites or forgets a frame:
\* every frame displayed is queued, mapped by the streaming thread, delivered,
\* or was given up by a clear or by an error.
NoneForgotten == TypeOK /\ 1 .. shown \subseteq Queued \cup {hand} \cup Sent \cup gone

\* Transform delivers each frame when exactly m_FrameQueueSize later ones have been
\* displayed, whatever was cleared, lost or flushed before.
DelayedByQueueSize == pc = "deliver" => hand = shown - m_FrameQueueSize

\* Frames leave Transform in display order, also over a flush or a restart.
InOrder == pc = "deliver" => \A f \in ToSet(sent) : f < hand

\* The delay is the whole effect of the queue on the order of the frames.
DelayedInOrder == DelayedByQueueSize /\ InOrder

\* When GetQueuedFrame reports that the queue is empty, no frame that should
\* have been delivered is left behind.
FlushDrains == [][GetNoFrame => 1 .. shown \subseteq Sent \cup gone]_vars

\* A flush leaves no old frame in the queue when the pin lets Receive in
\* again, if the source's last call had returned when EndFlush was called.
\* If it had not, it may still put a frame into the cleared queue: BeginFlush
\* and EndFlush do not wait for it.
FlushedEmpty == ctl = "cleared" => Queued = {}

\* EndOfStream sends what is queued and returns.
EndOfStreamReturns == pc = "flush" ~> pc = "idle"
=============================================================================
