--------------------------- MODULE OutputDelivery ---------------------------
(***************************************************************************)
(* How a decoded picture reaches the renderer: the output format is        *)
(* agreed anew when the picture's differs (ReconnectOutput), a sample is   *)
(* taken from the allocator of the connection, filled and delivered, and   *)
(* with a deinterlacer that doubles the frame rate a second one after it.  *)
(*                                                                         *)
(* Actors: the streaming thread, the renderer, which keeps samples and is  *)
(* stopped and paused by the graph at any time, the graph, which stops the *)
(* filter between two pictures, and the source, which may change the type  *)
(* of the input. The input pin of the renderer is taken to be built like   *)
(* this filter's own (CBaseVideoInputPin), its allocator a CMemAllocator.  *)
(*                                                                         *)
(* Width, height and aspect ratio are one "size", larger ones needing more *)
(* bytes; the time per frame is 1, or 2 when the frame rate is doubled.    *)
(***************************************************************************)
EXTENDS Integers

CONSTANTS
    MaxSize,        \* picture sizes 1 .. MaxSize
    Samples,        \* the samples of the allocator
    None,           \* a null pointer
    Retries         \* RetryTimeout in steps of Sleep(10), 10 in the code

ASSUME OutputAssumption ==
    /\ MaxSize \in Nat \ {0} /\ Retries \in Nat
    /\ Samples # {} /\ None \notin Samples

Sizes   == 1 .. MaxSize
Formats == [size : Sizes, rate : {1, 2}]

VARIABLES
    connect,    \* m_fDXVAConnect: the renderer is told of a format by samples
    dims, out,  \* m_Dimensions, m_OutDimensions
    mt,         \* the media type of the output pin, which is changed in place
    attach,     \* m_fAttachMediaType
    started,    \* the filter is paused or running
    pc,         \* where the streaming thread is
    pic,        \* the picture in hand: size and doubled (IsDoubleFrame)
    orig,       \* OrigDim in ReconnectOutput
    retry,      \* RetryTimeout
    sample,     \* pOutSample
    renderer,   \* "Stopped" or "Active"
    known,      \* the format the renderer knows
    typed,      \* its allocator will attach that format to the next sample
    committed, bytes,   \* the allocator: m_bCommitted, and the size a sample holds
    refs,       \* who holds each sample
    unsettled   \* history: why the two sides may disagree on the format

filterVars   == <<connect, dims, out, mt, attach, started>>
threadVars   == <<pc, pic, orig, retry, sample>>
rendererVars == <<renderer, known, typed>>
poolVars     == <<committed, bytes, refs>>
vars == <<filterVars, threadVars, rendererVars, poolVars, unsettled>>

TypeOK ==
    /\ connect \in BOOLEAN /\ dims \in Sizes /\ out \in Sizes /\ mt \in Formats
    /\ attach \in BOOLEAN /\ started \in BOOLEAN
    /\ pc \in {"Idle", "Reconnect", "Probe", "Get", "First", "Field2", "Get2", "Second", "End"}
    /\ pic \in [size : Sizes, doubled : BOOLEAN] /\ orig \in Sizes
    /\ retry \in -1 .. Retries /\ sample \in Samples \cup {None}
    /\ renderer \in {"Stopped", "Active"} /\ known \in Formats /\ typed \in BOOLEAN
    /\ committed \in BOOLEAN /\ bytes \in Sizes
    /\ refs \in [Samples -> SUBSET {"filter", "renderer"}]
    /\ unsettled \in {"no", "refused", "abandoned", "lost"}

Init ==
    /\ connect \in BOOLEAN /\ dims = 1 /\ out = 1 /\ mt = [size |-> 1, rate |-> 1]
    /\ attach = FALSE /\ started = FALSE
    /\ pc = "Idle" /\ pic = [size |-> 1, doubled |-> FALSE] /\ orig = 1
    /\ retry = Retries /\ sample = None
    /\ renderer = "Stopped" /\ known = mt /\ typed = FALSE
    /\ committed = FALSE /\ bytes = 1 /\ refs = [s \in Samples |-> {}]
    /\ unsettled = "no"

Outstanding == {s \in Samples : refs[s] # {}}
Free        == Samples \ Outstanding

-----------------------------------------------------------------------------
(* The graph, the source and the renderer.                                 *)

Pause ==
    /\ ~started /\ started' = TRUE /\ committed' = TRUE
    /\ UNCHANGED <<connect, dims, out, mt, attach, threadVars, rendererVars, bytes, refs, unsettled>>

Stop ==
    /\ started /\ pc = "Idle"
    /\ started' = FALSE /\ committed' = FALSE
    /\ UNCHANGED <<connect, dims, out, mt, attach, threadVars, rendererVars, bytes, refs, unsettled>>

(* A sample with a new media type on the input.                            *)
ChangeInput(size) ==
    /\ started /\ pc = "Idle"
    /\ dims' = size
    /\ UNCHANGED <<connect, out, mt, attach, started, threadVars, rendererVars, poolVars, unsettled>>

RendererPause ==
    /\ renderer = "Stopped" /\ renderer' = "Active" /\ committed' = TRUE
    /\ UNCHANGED <<filterVars, threadVars, known, typed, bytes, refs, unsettled>>

(* The decommit releases a thread that waits for a sample.                 *)
RendererStop ==
    /\ renderer = "Active" /\ renderer' = "Stopped" /\ committed' = FALSE
    /\ UNCHANGED <<filterVars, threadVars, known, typed, bytes, refs, unsettled>>

RendererReturns(s) ==
    /\ "renderer" \in refs[s]
    /\ refs' = [refs EXCEPT ![s] = @ \ {"renderer"}]
    /\ UNCHANGED <<filterVars, threadVars, rendererVars, committed, bytes, unsettled>>

-----------------------------------------------------------------------------
(* GetDeliveryBuffer and ReconnectOutput.                                  *)

Wanted == [size |-> pic'.size, rate |-> IF pic'.doubled THEN 2 ELSE 1]

\* Fault: a size that is m_Dimensions already is taken to be agreed.
FormatChangedInPicture == pic'.size # dims \/ Wanted.rate # mt.rate

(* The tests on m_Dimensions, m_OutDimensions and the time per frame.      *)
FormatChanged == pic'.size # dims \/ pic'.size # out \/ Wanted.rate # mt.rate

(* A picture arrives in DeliverFrame, or in the loop of Transform. The     *)
(* type of the pin is rewritten in place before anyone has accepted it;    *)
(* over DXVA it is not asked for but attached to the next sample.          *)
Frame(size, doubled) ==
    /\ started /\ pc = "Idle" /\ (connect => ~doubled)
    /\ pic' = [size |-> size, doubled |-> doubled]
    /\ IF FormatChanged
       THEN /\ orig' = dims /\ dims' = size /\ mt' = Wanted
            /\ IF connect
               THEN pc' = "Get" /\ out' = size /\ attach' = TRUE /\ UNCHANGED retry
               ELSE pc' = "Reconnect" /\ retry' = Retries /\ UNCHANGED <<out, attach>>
       ELSE pc' = "Get" /\ UNCHANGED <<orig, dims, mt, out, attach, retry>>
    /\ UNCHANGED <<connect, started, sample, rendererVars, poolVars, unsettled>>

\* Fault: the allocator is not committed again.
AcceptedUncommitted ==
    /\ pc = "Reconnect" /\ Outstanding = {}
    /\ committed' = FALSE /\ bytes' = mt.size
    /\ known' = mt /\ typed' = TRUE /\ pc' = "Probe"
    /\ UNCHANGED <<filterVars, pic, orig, retry, sample, renderer, refs, unsettled>>

(* ReceiveConnection: with all samples back the renderer's allocator is    *)
(* set up for the new size and committed, and the format is accepted.      *)
Accepted ==
    /\ pc = "Reconnect" /\ Outstanding = {}
    /\ committed' = TRUE /\ bytes' = mt.size
    /\ known' = mt /\ typed' = TRUE /\ pc' = "Probe"
    /\ UNCHANGED <<filterVars, pic, orig, retry, sample, renderer, refs, unsettled>>

(* BeginFlush and EndFlush are called on the filter's own output pin,      *)
(* which refuses them: the renderer keeps what it holds.                   *)
FlushOwnPin == refs

(* A failure that is not tried again: the sizes are recorded as agreed.    *)
GiveUp ==
    /\ pc' = "Get" /\ out' = dims /\ unsettled' = "refused"
    /\ UNCHANGED <<connect, dims, mt, attach, started, pic, orig, retry, sample>>

\* Fault: the attempts are not counted.
BuffersOutstandingUncounted ==
    /\ pc = "Reconnect" /\ Outstanding # {}
    /\ committed' = FALSE
    /\ UNCHANGED <<filterVars, threadVars, rendererVars, bytes, refs, unsettled>>

\* Fault: there is no last attempt.
BuffersOutstandingAgain ==
    /\ pc = "Reconnect" /\ Outstanding # {}
    /\ committed' = FALSE /\ retry' = retry - 1
    /\ UNCHANGED <<filterVars, pc, pic, orig, sample, rendererVars, bytes, refs, unsettled>>

(* VFW_E_BUFFERS_OUTSTANDING: the allocator stays decommitted. Ten         *)
(* attempts with a pause, one with a flush, and the last.                  *)
BuffersOutstanding ==
    /\ pc = "Reconnect" /\ Outstanding # {}
    /\ committed' = FALSE
    /\ IF retry >= 0
       THEN /\ retry' = retry - 1
            /\ refs' = IF retry = 0 THEN FlushOwnPin ELSE refs
            /\ UNCHANGED <<filterVars, pc, pic, orig, sample, unsettled>>
       ELSE GiveUp /\ UNCHANGED refs
    /\ UNCHANGED <<rendererVars, bytes>>

(* The type is not accepted, or the new samples cannot be allocated.       *)
Refused ==
    /\ pc = "Reconnect"
    /\ \/ UNCHANGED <<committed, bytes>>
       \/ Outstanding = {} /\ committed' = FALSE /\ bytes' = mt.size
    /\ GiveUp
    /\ UNCHANGED <<rendererVars, refs>>

(* GetBuffer hands out a free sample, and the type that came with it is    *)
(* taken over (SetMediaType).                                              *)
TakeType ==
    /\ typed' = FALSE
    /\ mt' = IF typed THEN known ELSE mt
    /\ out' = IF typed /\ known.size = dims THEN dims ELSE out

Take(s) ==
    /\ committed /\ s \in Free
    /\ sample' = s /\ refs' = [refs EXCEPT ![s] = {"filter"}]
    /\ TakeType
    /\ UNCHANGED <<connect, dims, attach, started, pic, orig, retry,
                   renderer, known, committed, bytes, unsettled>>

(* fSendSample: a sample is fetched for its type and given back.           *)
Probe ==
    /\ pc = "Probe" /\ committed /\ Free # {}
    /\ typed' = FALSE
    /\ mt' = IF typed THEN known ELSE mt
    /\ out' = dims
    /\ pc' = "Get" /\ unsettled' = "no"
    /\ UNCHANGED <<connect, dims, attach, started, pic, orig, retry, sample,
                   renderer, known, poolVars>>

(* The allocator was decommitted meanwhile: m_Dimensions is put back, what *)
(* has been agreed is not.                                                 *)
ProbeFails ==
    /\ pc = "Probe" /\ ~committed
    /\ dims' = orig /\ pc' = "Idle" /\ unsettled' = "abandoned"
    /\ UNCHANGED <<connect, out, mt, attach, started, pic, orig, retry, sample,
                   rendererVars, poolVars>>

Get == pc = "Get" /\ (\E s \in Samples : Take(s)) /\ pc' = "First"

GetFails ==
    /\ pc = "Get" /\ ~committed
    /\ pc' = "Idle"
    /\ UNCHANGED <<filterVars, pic, orig, retry, sample, rendererVars, poolVars, unsettled>>

-----------------------------------------------------------------------------
(* The rest of DeliverFrame.                                               *)

Released == [refs EXCEPT ![sample] = @ \ {"filter"}]

(* An error before the first field: a buffer cannot be allocated, the      *)
(* surface cannot be used.                                                 *)
FrameFails ==
    /\ pc = "First"
    /\ refs' = Released /\ sample' = None /\ pc' = "Idle"
    /\ UNCHANGED <<filterVars, pic, orig, retry, rendererVars, committed, bytes, unsettled>>

(* Deliver: nothing is sent without a time or before a key frame; else the *)
(* sample is filled, gets the type if one is to be attached, and goes to   *)
(* the renderer, which may keep it or refuse it.                           *)
Skipped(next) ==
    /\ pc' = next
    /\ UNCHANGED <<filterVars, pic, orig, retry, sample, rendererVars, poolVars, unsettled>>

Received(next) ==
    /\ renderer = "Active"
    /\ refs' \in {refs, [refs EXCEPT ![sample] = @ \cup {"renderer"}]}
    /\ attach' = FALSE
    /\ known' = IF attach THEN mt ELSE known
    /\ unsettled' = IF attach THEN "no" ELSE unsettled
    /\ pc' = next
    /\ UNCHANGED <<connect, dims, out, mt, started, pic, orig, retry, sample,
                   renderer, typed, committed, bytes>>

Rejected ==
    /\ \/ UNCHANGED <<attach, unsettled>>
       \/ attach' = FALSE /\ unsettled' = IF attach THEN "lost" ELSE unsettled
    /\ pc' = "End"
    /\ UNCHANGED <<connect, dims, out, mt, started, pic, orig, retry, sample, rendererVars, poolVars>>

Deliver(next) == Skipped(next) \/ Received(next) \/ Rejected

AfterFirst == IF pic.doubled THEN "Field2" ELSE "End"

First  == pc = "First" /\ Deliver(AfterFirst)
Second == pc = "Second" /\ Deliver("End")

\* Fault: the first field's sample is filled again.
SecondFieldReuses ==
    /\ pc = "Field2" /\ pc' = "Second"
    /\ UNCHANGED <<refs, sample, filterVars, pic, orig, retry, rendererVars, committed, bytes, unsettled>>

(* The deinterlacer has a second field, or none: the first sample is given *)
(* back before the second is asked for.                                    *)
SecondField ==
    /\ pc = "Field2"
    /\ \/ pc' = "Get2" /\ refs' = Released /\ sample' = None
       \/ pc' = "End" /\ UNCHANGED <<refs, sample>>
    /\ UNCHANGED <<filterVars, pic, orig, retry, rendererVars, committed, bytes, unsettled>>

GetSecond == pc = "Get2" /\ (\E s \in Samples : Take(s)) /\ pc' = "Second"

(* GetDeliveryBuffer leaves a null pointer in pOutSample when it fails.    *)
GetSecondFails ==
    /\ pc = "Get2" /\ ~committed
    /\ pc' = "End"
    /\ UNCHANGED <<filterVars, pic, orig, retry, sample, rendererVars, poolVars, unsettled>>

(* DeliverEnd: pOutSample->Release(). Through a null pointer the process   *)
(* ends here: the thread takes no further step.                            *)
DeliverEnd ==
    /\ pc = "End" /\ sample # None
    /\ refs' = Released /\ sample' = None /\ pc' = "Idle"
    /\ UNCHANGED <<filterVars, pic, orig, retry, rendererVars, committed, bytes, unsettled>>

-----------------------------------------------------------------------------
(* What the streaming thread does between two pictures' arrivals.          *)
Thread ==
    \/ Accepted \/ BuffersOutstanding \/ Refused \/ Probe \/ ProbeFails
    \/ Get \/ GetFails \/ FrameFails \/ First
    \/ SecondField \/ GetSecond \/ GetSecondFails \/ Second \/ DeliverEnd

Next ==
    \/ Pause \/ Stop \/ RendererPause \/ RendererStop
    \/ \E size \in Sizes :
          ChangeInput(size) \/ \E doubled \in BOOLEAN : Frame(size, doubled)
    \/ \E s \in Samples : RendererReturns(s)
    \/ Thread

(* The thread runs; nothing is asked of the renderer and the graph.        *)
Spec == Init /\ [][Next]_vars /\ WF_vars(Thread)

-----------------------------------------------------------------------------
(* Properties.                                                             *)

Filling == pc \in {"First", "Second"}

(* A sample is filled in the format of the picture, which the renderer     *)
(* knows or will find attached to this sample. The exceptions are the      *)
(* code's own: a connection that was refused or could not be made while    *)
(* samples were out is recorded as made; m_Dimensions is put back after    *)
(* the renderer has accepted; and m_fAttachMediaType is cleared although   *)
(* the sample that carried the type was refused.                           *)
FormatAgreed ==
    Filling /\ unsettled = "no"
        => /\ mt = [size |-> pic.size, rate |-> IF pic.doubled THEN 2 ELSE 1]
           /\ mt = known \/ attach

(* CopySampleBuffer, which looks at the type and never at the size of the  *)
(* sample, has room for the picture, unless the connection was refused or  *)
(* abandoned.                                                              *)
CopyFits ==
    Filling /\ ~connect /\ unsettled = "no" => bytes >= pic.size

(* The streaming thread fills each sample in the format agreed on, within  *)
(* its size, over all changes of the picture.                              *)
FilledAsAgreed == FormatAgreed /\ CopyFits

(* "You must release this one and call GetDeliveryBuffer for the next":    *)
(* no sample is filled while the renderer still holds it.                  *)
NotOverwritten == Filling => sample # None /\ refs[sample] = {"filter"}

(* Every path through DeliverFrame gives its sample back, or the only      *)
(* buffer of the connection would be gone and the filter wait for itself.  *)
SamplesGivenBack ==
    \A s \in Samples : "filter" \in refs[s] => pc # "Idle" /\ s = sample

(* A sample is in one hand at a time: the filter's, the renderer's or the  *)
(* allocator's.                                                            *)
SamplesInOneHand == NotOverwritten /\ SamplesGivenBack

(* While both filters are active the allocator is decommitted only within  *)
(* ReconnectOutput or after a connection it has given up.                  *)
CommittedWhileActive ==
    started /\ renderer = "Active" /\ ~committed => pc = "Reconnect" \/ unsettled = "refused"

(* ReconnectOutput ends, even if the renderer never returns a sample.      *)
ReconnectEnds == pc = "Reconnect" ~> pc # "Reconnect"

AllKept == committed /\ \A s \in Samples : "renderer" \in refs[s]

(* DeliverFrame ends, unless the renderer keeps every sample of a          *)
(* committed allocator, or the process ends in DeliverEnd.                 *)
DeliverFrameEnds == []<>(pc = "Idle" \/ AllKept \/ (pc = "End" /\ sample = None))

(* No path through DeliverFrame waits for what only it could bring about.  *)
DeliveryEnds == ReconnectEnds /\ DeliverFrameEnds

(* The sample released at the end of DeliverFrame is there (violated: the  *)
(* renderer stops between the two fields).                                 *)
ReleasesSample == pc = "End" => sample # None
=============================================================================
