--------------------------- MODULE HardwareSamples ---------------------------
(***************************************************************************)
(* The two hardware decoders (Mpeg2DecoderD3D11.cpp and                    *)
(* Mpeg2DecoderDXVA2.cpp) under the library and the Transform loop of      *)
(* PictureOrder.                                                           *)
(*                                                                         *)
(* The library hands over the slices of a picture through a hook.  When    *)
(* the picture is complete they are submitted to the GPU, to be decoded    *)
(* into a surface (Direct3D 11: a slice of a texture array).  The surfaces *)
(* come from an allocator as samples; m_Samples has one for each frame     *)
(* buffer of the library, from when it is decoded until it is displayed.   *)
(* m_RefSamples remembers the surfaces of the last two references, which   *)
(* must not be decoded into even when they have been displayed.            *)
(*                                                                         *)
(* To display a picture the Direct3D 11 decoder copies it and releases the *)
(* sample; with DXVA2 the sample itself goes to the renderer, which may    *)
(* keep it for a while.                                                    *)
(*                                                                         *)
(* The list of free samples is that of the allocators' base class, with    *)
(* the last sample released at its head.                                   *)
(***************************************************************************)
EXTENDS PictureOrder, FiniteSets

CONSTANTS
  Decoders,     \* subset of {"D3D11", "DXVA2"}
  cBuffers,     \* samples of the allocator
  MaxKept,      \* samples that the renderer of DXVA2 keeps at a time
  MaxFailures,  \* bound: submissions that fail
  Skips         \* what Skip may be called with

ASSUME SampleAssumption ==
  /\ Decoders \subseteq {"D3D11", "DXVA2"}
  /\ cBuffers \in Nat \ {0}
  /\ MaxKept \in Nat
  /\ MaxFailures \in Nat
  /\ Skips \subseteq BOOLEAN

None == -1
Surfaces == 0 .. cBuffers - 1

VARIABLES
  decoder,        \* which of the two m_pDecoder is
  Sample,         \* m_Samples[i].Sample: the surface it holds, or None
  ArraySlice,     \* m_Samples[i].ArraySlice: kept when the sample is released
  RefSample,      \* the same two members of m_RefSamples
  RefSlice,
  m_lFree,        \* the allocator's list of free samples
  kept,           \* samples the renderer keeps
  surface,        \* the frame in each surface, 0 for none
  m_SliceCount,   \* 1 for any positive number
  m_fWaitForDecodeKeyFrame,
  m_fWaitForDisplayKeyFrame,
  failures,       \* submissions that failed
  whole           \* frames of which every picture was submitted

pictureVars == <<Sample, ArraySlice, RefSample, RefSlice, m_lFree, kept, surface,
                 m_fWaitForDecodeKeyFrame, m_fWaitForDisplayKeyFrame, failures, whole>>
sampleVars == <<decoder, pictureVars, m_SliceCount>>
allVars == <<vars, sampleVars>>

SampleTypeOK ==
  /\ Sample \in [0 .. 2 -> Surfaces \cup {None}]
  /\ ArraySlice \in [0 .. 2 -> Surfaces \cup {None}]
  /\ RefSample \in [0 .. 1 -> Surfaces \cup {None}]
  /\ RefSlice \in [0 .. 1 -> Surfaces \cup {None}]
  /\ m_lFree \in Seq(Surfaces)
  /\ decoder \in Decoders
  /\ kept \subseteq Surfaces
  /\ surface \in [Surfaces -> Frames \cup {0}]
  /\ m_SliceCount \in 0 .. 1
  /\ m_fWaitForDecodeKeyFrame \in BOOLEAN
  /\ m_fWaitForDisplayKeyFrame \in BOOLEAN
  /\ failures \in 0 .. MaxFailures
  /\ whole \in SUBSET Frames

\* Fault: the allocator has a sample for each frame buffer and no more.
AllFreeThree == [i \in 1 .. 3 |-> 3 - i]

\* A sample that is released goes to the head of the list.
Release(sample, free) == IF sample = None THEN free ELSE <<sample>> \o free

\* A new allocator: each sample was added at the head of the list, by DXVA2
\* from the last to the first.
AllFree == [i \in 1 .. cBuffers |-> IF decoder = "DXVA2" THEN i - 1 ELSE cBuffers - i]

\* ResetDecoding: every sample is released.  Direct3D 11 releases its
\* allocator with them and makes a new one for the next picture.
ResetDecoding ==
  /\ Sample' = [i \in 0 .. 2 |-> None]
  /\ ArraySlice' = [i \in 0 .. 2 |-> None]
  /\ RefSample' = [i \in 0 .. 1 |-> None]
  /\ RefSlice' = [i \in 0 .. 1 |-> None]
  /\ m_lFree' = IF decoder = "D3D11" THEN AllFree
                ELSE Release(RefSample[1], Release(RefSample[0],
                       Release(Sample[2], Release(Sample[1], Release(Sample[0], m_lFree)))))
  /\ surface' = [s \in Surfaces |-> 0]
  /\ m_SliceCount' = 0
  /\ m_fWaitForDecodeKeyFrame' = TRUE
  /\ m_fWaitForDisplayKeyFrame' = TRUE
  /\ whole' = {}
  /\ UNCHANGED <<decoder, kept, failures>>

-----------------------------------------------------------------------------
(* DecodeFrame *)

Current == pictures[picture]

\* m_PrevRefSurfaceIndex and m_ForwardRefSurfaceIndex, for a P or B picture.
PrevRef == ArraySlice[fbuf[1]]
ForwardRef == ArraySlice[fbuf[2]]

\* The picture is submitted: it has slices, is not before the first I
\* picture, and not a B picture without forward reference.
Submits ==
  /\ ~Current.skip
  /\ m_SliceCount > 0
  /\ m_fWaitForDecodeKeyFrame => Current.type = "I"
  /\ Current.type = "B" => ForwardRef # None

\* Fault: only the last reference is put aside.
ReservedLast == {RefSlice[0]}

\* The surfaces that are put aside when GetBuffer returns them.
Reserved == {RefSlice[0], RefSlice[1]}

\* The loop over GetBuffer ends at the first free sample that is not one of
\* them; GetBuffer waits when there is none.
Suitable == {i \in DOMAIN m_lFree : m_lFree[i] \notin Reserved}
Got == CHOOSE i \in Suitable : \A j \in Suitable : i <= j
PutAside == {m_lFree[i] : i \in 1 .. Got - 1}

HasSample == Sample[fbuf[0]] # None
SampleFound == HasSample \/ Suitable # {}

\* m_CurSurfaceIndex: the sample the frame buffer has, or a new one.
Target == IF HasSample THEN Sample[fbuf[0]] ELSE m_lFree[Got]

FreeThen == IF HasSample THEN m_lFree ELSE SubSeq(m_lFree, Got + 1, Len(m_lFree))

RefSampleThen ==
  [k \in 0 .. 1 |->
     IF ~HasSample /\ RefSlice[k] \in PutAside /\ (k = 1 => RefSlice[0] # RefSlice[1])
     THEN RefSlice[k] ELSE RefSample[k]]

SampleThen == [Sample EXCEPT ![fbuf[0]] = Target]

\* m_fWaitForDisplayKeyFrame as GetDisplayFrame leaves it.
DisplayWaits ==
  /\ m_fWaitForDisplayKeyFrame
  /\ info.display_picture # NULL => pictures[info.display_picture].type # "I"

\* The sample GetDisplayFrame shows and releases, or None.
Shown(samples) ==
  IF DisplayWaits \/ info.display_fbuf = NULL THEN None ELSE samples[info.display_fbuf]

\* Fault: the sample that was shown is not released.
ShownKept(samples, sample) == samples

\* GetDisplayFrame releases the sample.
ShownReleased(samples, sample) ==
  IF sample = None THEN samples ELSE [samples EXCEPT ![info.display_fbuf] = None]

\* GetDisplayFrame of Direct3D 11 releases the sample itself, before the
\* references move on.
GiveBackD3D11(sample, ref, free) ==
  /\ decoder = "D3D11"
  /\ m_lFree' = Release(ref, Release(sample, free))
  /\ UNCHANGED kept

\* GetDisplaySample of DXVA2 detaches it; Transform delivers and releases it,
\* unless the renderer keeps it.
GiveBackDXVA2(sample, ref, free) ==
  /\ decoder = "DXVA2"
  /\ \/ m_lFree' = Release(sample, Release(ref, free)) /\ UNCHANGED kept
     \/ /\ sample # None /\ Cardinality(kept) < MaxKept
        /\ m_lFree' = Release(ref, free) /\ kept' = kept \cup {sample}

GiveBack(sample, ref, free) == GiveBackD3D11(sample, ref, free) \/ GiveBackDXVA2(sample, ref, free)

\* Every picture of the frame is now in the surface.
Completes == Current.nb_fields > 1 \/ (state # "SLICE_1ST" /\ surface[Target] = Current.frame)

\* The picture is submitted, which may fail before the GPU is asked to begin
\* or after (the loss of the device, which ends the use of the decoder, is not
\* modelled); then, if it went well, the display picture is shown, and the
\* surface of a reference is remembered.  The first field of a frame comes
\* with show = FALSE.
Submit(show, outcome) ==
  LET sample == IF show /\ outcome = "ok" THEN Shown(SampleThen) ELSE None
      remember == show /\ outcome # "early" /\ Current.type # "B"
  IN  /\ Submits /\ SampleFound
      /\ m_fWaitForDecodeKeyFrame' = FALSE
      /\ Sample' = ShownReleased(SampleThen, sample)
      /\ ArraySlice' = [ArraySlice EXCEPT ![fbuf[0]] = IF HasSample THEN @ ELSE Target]
      /\ RefSample' = IF remember THEN [k \in 0 .. 1 |-> IF k = 1 THEN RefSampleThen[0] ELSE None]
                      ELSE RefSampleThen
      /\ RefSlice' = IF remember THEN [k \in 0 .. 1 |-> IF k = 1 THEN RefSlice[0] ELSE Target]
                     ELSE RefSlice
      /\ GiveBack(sample, IF remember THEN RefSampleThen[1] ELSE None, FreeThen)
      /\ m_fWaitForDisplayKeyFrame' = IF outcome = "ok" THEN DisplayWaits ELSE m_fWaitForDisplayKeyFrame
      /\ surface' = IF outcome = "early" THEN surface
                    ELSE [surface EXCEPT ![Target] = IF outcome = "ok" THEN Current.frame ELSE 0]
      /\ whole' = (IF outcome = "ok" /\ Completes THEN whole \cup {Current.frame}
                   ELSE whole \ {Current.frame}) \cap ToSet(refs)
      /\ failures' = IF outcome = "ok" THEN failures ELSE failures + 1

\* The picture was skipped: only the display picture is shown.
OnlyShow(show) ==
  LET sample == IF show THEN Shown(Sample) ELSE None
  IN  /\ Current.skip
      /\ Sample' = ShownReleased(Sample, sample)
      /\ GiveBack(sample, None, m_lFree)
      /\ m_fWaitForDisplayKeyFrame' = DisplayWaits
      /\ UNCHANGED <<ArraySlice, RefSample, RefSlice, surface, m_fWaitForDecodeKeyFrame, failures,
                     whole>>

\* The picture is given up, and the display picture not shown.  An I picture
\* always goes further, if it has slices.
GiveUp ==
  /\ ~Current.skip /\ ~Submits
  /\ UNCHANGED pictureVars

DecodeFrame(show) ==
  \/ OnlyShow(show)
  \/ GiveUp
  \/ Submit(show, "ok")
  \/ failures < MaxFailures /\ \E outcome \in {"early", "late"} : Submit(show, outcome)

-----------------------------------------------------------------------------
(* The library and Transform *)

\* The hook: the slices of a picture that is not skipped.
SliceHook ==
  /\ SliceStart
  /\ m_SliceCount' = IF skip THEN m_SliceCount ELSE 1
  /\ UNCHANGED <<decoder, pictureVars>>

OtherUnit ==
  /\ \/ LoseUnit \/ LoseRest
     \/ SeekHeader \/ SpoiltHeader \/ HeaderEnd \/ SeekSequence
     \/ SequenceHeader \/ InvalidEndAction \/ GopHeader \/ PictureHeader \/ Slices
  /\ UNCHANGED sampleVars

\* STATE_PICTURE: Parse forgets the slices of the last picture; Skip.
NewPicture ==
  /\ HandlePicture
  /\ skip' \in Skips
  /\ m_SliceCount' = 0
  /\ UNCHANGED <<decoder, pictureVars>>

\* STATE_SLICE_1ST: Parse submits the first field.
FirstFieldEnd ==
  /\ ret = "SLICE_1ST"
  /\ DecodeFrame(FALSE)
  /\ m_SliceCount' = 0
  /\ HandleOther /\ UNCHANGED decoder

\* STATE_SLICE, STATE_END: Transform calls DecodeFrame when there is a frame
\* to display or m_fDXVAOutput is set.
Decodes == ret \in {"SLICE", "END"} /\ (info.display_fbuf # NULL \/ decoder = "DXVA2")

PictureEnd ==
  /\ Decodes
  /\ DecodeFrame(TRUE)
  /\ HandleSlice /\ UNCHANGED <<decoder, m_SliceCount>>

OtherState ==
  /\ ret # "SLICE_1ST" /\ ~Decodes
  /\ HandleSlice \/ HandleOther
  /\ UNCHANGED sampleVars

\* The renderer has shown a sample.
RendererReturns ==
  /\ \E s \in kept : kept' = kept \ {s} /\ m_lFree' = Release(s, m_lFree)
  /\ UNCHANGED <<vars, decoder, Sample, ArraySlice, RefSample, RefSlice, surface, m_SliceCount,
                 m_fWaitForDecodeKeyFrame, m_fWaitForDisplayKeyFrame, failures, whole>>

Restart == (HandleInvalid \/ Discontinuity) /\ ResetDecoding

-----------------------------------------------------------------------------
InitSamples ==
  /\ Init
  /\ decoder \in Decoders
  /\ Sample = [i \in 0 .. 2 |-> None]
  /\ ArraySlice = [i \in 0 .. 2 |-> None]
  /\ RefSample = [i \in 0 .. 1 |-> None]
  /\ RefSlice = [i \in 0 .. 1 |-> None]
  /\ m_lFree = AllFree
  /\ kept = {}
  /\ surface = [s \in Surfaces |-> 0]
  /\ m_SliceCount = 0
  /\ m_fWaitForDecodeKeyFrame = TRUE
  /\ m_fWaitForDisplayKeyFrame = TRUE
  /\ failures = 0
  /\ whole = {}

NextSamples ==
  \/ OtherUnit \/ SliceHook
  \/ NewPicture \/ FirstFieldEnd \/ PictureEnd \/ OtherState \/ Restart
  \/ RendererReturns

SpecSamples == InitSamples /\ [][NextSamples]_allVars

\* Bound of the run: a failure, a discontinuity and a sample that the renderer
\* keeps cost the stream a frame each, only the first two frames may be coded as
\* fields, and the input has no times: they decide what is delivered, not what
\* is decoded or displayed.
Bounds ==
  /\ stream.top + failures + restarts + Cardinality(kept) <= MaxFrames
  /\ stream.second = NoHeader \/ stream.second.frame <= 2
  /\ rtStart = 0

\* The renderer returns samples just before the decoder looks at the list;
\* earlier makes no difference, since nothing else reads it.
ReturnsLate == kept' # kept /\ UNCHANGED vars => ret \in {"SLICE_1ST", "SLICE", "END"}

-----------------------------------------------------------------------------
(* Properties *)

\* A call of DecodeFrame is due that submits the picture.
AboutToSubmit ==
  /\ ret = "SLICE_1ST" \/ Decodes
  /\ Submits

\* Every sample has one owner: the free list, a frame buffer, the samples put
\* aside or the renderer.  None is lost in the exchange of COM pointers, and none is
\* released twice.
Owners(s) ==
  Cardinality({i \in DOMAIN m_lFree : m_lFree[i] = s})
    + Cardinality({i \in 0 .. 2 : Sample[i] = s})
    + Cardinality({k \in 0 .. 1 : RefSample[k] = s})
    + Cardinality(kept \cap {s})

SamplesOwnedOnce == SampleTypeOK /\ \A s \in Surfaces : Owners(s) = 1

\* GetBuffer never has to wait for a sample: nobody would release one, as it
\* is this thread that does.
NeverWaits == AboutToSubmit => SampleFound

\* The frame buffer of a reference, by its place in refs.
BufferOf(i) == fbuf[IF coding_type = "B" THEN i ELSE i - 1]

\* The surface of a reference that was decoded is not decoded into as long as
\* a picture can be predicted from it, though it has been displayed and its
\* sample released.
ReferencesKept ==
  damage = 0 =>
    \A i \in DOMAIN refs : refs[i] \in whole => surface[ArraySlice[BufferOf(i)]] = refs[i]

\* A picture is not decoded into the surface of its own reference (the
\* assertion in DecodeFrame, as far as it is about the target).
NotOwnReference ==
  AboutToSubmit /\ SampleFound /\ Current.type # "I" =>
    Target # PrevRef /\ (Current.type = "B" => Target # ForwardRef)
=============================================================================
