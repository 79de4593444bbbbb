----------------------- MODULE FilterLifecycle_proofs -----------------------
(***************************************************************************)
(* Proofs about FilterLifecycle, for any number of picture sizes.          *)
(***************************************************************************)
EXTENDS FilterLifecycle, TLAPS

-----------------------------------------------------------------------------
(* The invariant.                                                          *)

(* The filter runs, or will once Pause has activated its pins.             *)
Started == Streaming \/ graph = "Activate"

(* Transform runs in a started filter only. Its decoder is there, and of   *)
(* the right kind, except after a surface callback has deleted it.         *)
PlaceInv ==
    /\ InTransform => Streaming
    /\ graph = "Activate" => state = "Stopped" /\ Connected
    /\ pc \in {"Decommit", "Commit"} => d.kind = "dxva2"
    /\ pc = "Commit" => ~a.committed /\ d.vd = "none" /\ ~d.lost
    /\ InTransform => (d.kind = "none" => why = "deleted" /\ pc = "Decode")

(* Between two samples the library has read all it was given, unless an    *)
(* error kept Transform from giving it the rest; the sample is given to it *)
(* whole.                                                                  *)
InputInv ==
    /\ Started /\ pc = "Idle" /\ lib # "none" => failed /\ Streaming
    /\ pc = "Loop" /\ (data \/ lib # "none") => info = "current"
    /\ pc = "Loop" /\ lib # "none" => lib = "live" /\ ~data
    /\ pc \in {"Decommit", "Commit", "Decode"} => lib = "live" /\ info = "current" /\ ~data

(* What the filter knows of its output belongs to the decoder it has.      *)
OutputInv ==
    /\ d.kind = "dxva2" => flags.connect
    /\ d.kind = "dxva2" /\ Started => flags.output
    /\ d.kind = "dxva2" /\ flags.output /\ ~manager => why = "lost"

(* Surfaces are there while the allocator is committed or waits for them,  *)
(* and a video decoder outlives them only in a filter that is not started. *)
SurfaceInv ==
    /\ ~(a.committed /\ a.pending)
    /\ a.committed \/ a.pending => a.size # 0
    /\ a.owner = "pin" => "out" \in pins
    /\ a.owner = "pin" /\ a.committed => Streaming
    /\ d.kind = "dxva2" /\ d.vd = "old" => ~a.committed /\ ~a.pending
    /\ d.kind = "dxva2" /\ d.vd # "none" /\ "out" \in pins /\ (a.owner = "pin" => Streaming)
         => a.committed

(* The surfaces that a video decoder decodes into are large enough for the *)
(* pictures, until ReconnectOutput finds them too small.                   *)
FitInv ==
    /\ d.kind = "dxva2" => "in" \in pins
    /\ d.kind = "dxva2" /\ d.vd = "current" /\ a.owner # "none"
         => (a.committed \/ a.pending) /\ (pc # "Decommit" => a.size >= size)

(* Each way to be without a video decoder has left its reason.             *)
ReasonInv ==
    /\ d.lost => why = "lost"
    /\ d.kind = "d3d11" /\ d.vd = "none" /\ Started => why = "fellBack"
    /\ d.kind = "dxva2" /\ d.vd = "none" /\ a.owner = "pin" /\ pc # "Commit"
         => \/ why \in {"lost", "held", "failed"}
            \/ why = "new" /\ ~Streaming /\ ~a.pending

StateInv ==
    TypeOK /\ PlaceInv /\ InputInv /\ OutputInv /\ SurfaceInv /\ FitInv /\ ReasonInv

-----------------------------------------------------------------------------
(* The operators on decoders and allocators.                               *)

LEMMA SizeTypes == 0 \in 0 .. MaxSize /\ 1 \in Sizes /\ \A s \in Sizes : s \in 0 .. MaxSize /\ s # 0
BY SizesAssumption DEF Sizes

LEMMA NewDecoder ==
    ASSUME NEW kind \in Kinds
    PROVE  /\ New(kind) \in Decoder /\ New(kind).kind = kind
           /\ New(kind).vd = "none" /\ ~New(kind).lost
BY DEF New, Decoder

(* Completing a decommit frees the surfaces and changes nothing else.      *)
LEMMA SettledFacts ==
    ASSUME NEW al \in Alloc
    PROVE  /\ Settled(al) \in Alloc
           /\ Settled(al).owner = al.owner /\ Settled(al).committed = al.committed
           /\ Settled(al).pending => al.pending
           /\ \/ Settled(al).size = al.size /\ Settled(al).pending = al.pending
              \/ Settled(al).size = 0 /\ al.pending /\ ~Settled(al).pending
<1>1. CASE Completes(al)
  BY <1>1, SizeTypes DEF Settled, Completes, Alloc
<1>2. CASE ~Completes(al)
  BY <1>2 DEF Settled
<1> QED BY <1>1, <1>2

LEMMA LetGoFacts ==
    ASSUME NEW al \in Alloc
    PROVE  /\ LetGo(al) \in Alloc
           /\ LetGo(al).owner = al.owner /\ LetGo(al).committed = al.committed
           /\ LetGo(al).pending => al.pending
           /\ \/ LetGo(al).size = al.size /\ LetGo(al).pending = al.pending
              \/ LetGo(al).size = 0 /\ al.pending /\ ~LetGo(al).pending
<1> DEFINE bl == [al EXCEPT !.kept = FALSE]
<1>1. /\ bl \in Alloc /\ bl.owner = al.owner /\ bl.committed = al.committed
      /\ bl.pending = al.pending /\ bl.size = al.size
  BY DEF Alloc
<1>2. LetGo(al) = Settled(bl)
  BY DEF LetGo
<1> HIDE DEF bl
<1> QED BY <1>1, <1>2, SettledFacts

LEMMA DecommittedFacts ==
    ASSUME NEW al \in Alloc
    PROVE  /\ Decommitted(al) \in Alloc
           /\ Decommitted(al).owner = al.owner /\ ~Decommitted(al).committed
           /\ ~al.committed => Decommitted(al) = al
           /\ Decommitted(al).pending => al.committed \/ al.pending
           /\ \/ Decommitted(al).size = al.size /\ (Decommitted(al).pending <=> al.committed \/ al.pending)
              \/ Decommitted(al).size = 0 /\ ~Decommitted(al).pending
<1>1. CASE al.committed
  <2> DEFINE bl == [al EXCEPT !.committed = FALSE, !.pending = TRUE]
  <2>1. bl \in Alloc /\ bl.owner = al.owner /\ bl.committed = FALSE /\ bl.size = al.size /\ bl.pending = TRUE
    BY DEF Alloc
  <2>2. Decommitted(al) = Settled(bl)
    BY <1>1 DEF Decommitted
  <2> HIDE DEF bl
  <2>3. /\ Settled(bl) \in Alloc /\ Settled(bl).owner = al.owner /\ Settled(bl).committed = FALSE
        /\ \/ Settled(bl).size = al.size /\ Settled(bl).pending = TRUE
           \/ Settled(bl).size = 0 /\ ~Settled(bl).pending
    BY <2>1, SettledFacts
  <2> QED BY <1>1, <2>2, <2>3
<1>2. CASE ~al.committed
  BY <1>2 DEF Decommitted
<1> QED BY <1>1, <1>2

(* A video decoder that loses its surfaces stays one.                      *)
LEMMA OutdatedFacts ==
    ASSUME NEW dec \in Decoder, NEW al \in Alloc
    PROVE  /\ Outdated(dec, al) \in Decoder
           /\ Outdated(dec, al).kind = dec.kind /\ Outdated(dec, al).svc = dec.svc
           /\ Outdated(dec, al).lost = dec.lost
           /\ \/ Outdated(dec, al).vd = dec.vd
              \/ /\ Outdated(dec, al).vd = "old" /\ dec.vd = "current"
                 /\ dec.kind = "dxva2" /\ al.size = 0
           /\ dec.kind = "dxva2" /\ Outdated(dec, al).vd = "current" => al.size # 0
BY DEF Outdated, Decoder

(* The decoder that CompleteConnect or InitDecode makes.                   *)
LEMMA ReplacementKind == Replacement \in {"d3d11", "software"}
BY DEF Replacement

(* InitDecode leaves a decoder, and one for DXVA2 only if it was there     *)
(* before and the output takes its surfaces.                               *)
LEMMA InitDecodeFacts ==
    ASSUME StateInv, InitDecode
    PROVE  /\ d' \in Decoder /\ flags' \in Flags /\ a' \in Alloc
           /\ why' \in {"none", "new", "lost", "held", "failed", "deleted", "fellBack"}
           /\ gone' \in BOOLEAN /\ manager' = manager /\ size' = size
           /\ a'.owner = a.owner /\ a'.committed = a.committed /\ (a'.pending => a.pending)
           /\ \/ a'.size = a.size /\ a'.pending = a.pending
              \/ a'.size = 0 /\ a.pending /\ ~a'.pending
           /\ d'.kind # "none"
           /\ d'.kind = "dxva2" =>
                /\ d.kind = "dxva2" /\ flags.output /\ flags'.output /\ flags'.connect = flags.connect
                /\ why' = why /\ d'.lost = d.lost
                /\ d'.vd = d.vd \/ (d'.vd = "old" /\ d.vd = "current" /\ a'.size = 0)
                /\ d'.vd = "current" => a'.size # 0
           /\ d'.kind = "d3d11" /\ d'.vd = "none" => why' = "fellBack"
           /\ d'.lost => why' = why /\ d.lost
<1> USE DEF StateInv, TypeOK
<1>1. manager' = manager /\ size' = size
  BY DEF InitDecode
<1>2. \A x \in {[flags EXCEPT !.reinit = FALSE], [flags EXCEPT !.reinit = FALSE, !.force = TRUE],
                [flags EXCEPT !.connect = FALSE, !.reinit = FALSE]} : x \in Flags
  BY DEF Flags
<1>3. CASE InitDXVA2 /\ flags.output
  <2>1. d.kind = "dxva2" /\ a' = LetGo(a) /\ d' = Outdated(d, a') /\ UNCHANGED <<gone, why>>
        /\ flags' = [flags EXCEPT !.reinit = FALSE]
    BY <1>3 DEF InitDXVA2
  <2>2. flags' \in Flags /\ flags'.output /\ flags'.connect = flags.connect
    BY <1>3, <2>1 DEF Flags
  <2>3. a' \in Alloc
    BY <2>1, LetGoFacts
  <2> QED BY <1>1, <2>1, <2>2, <2>3, LetGoFacts, OutdatedFacts DEF ReasonInv
<1>4. CASE InitDXVA2 /\ ~flags.output
  <2>1. a' = LetGo(a) /\ d' = New(Replacement) /\ UNCHANGED gone /\ why' = "fellBack"
        /\ flags' = [flags EXCEPT !.connect = FALSE, !.reinit = FALSE]
    BY <1>4 DEF InitDXVA2
  <2>2. d' \in Decoder /\ d'.kind \in {"d3d11", "software"} /\ d'.vd = "none" /\ ~d'.lost
    BY <2>1, ReplacementKind, NewDecoder DEF Kinds
  <2> QED BY <1>1, <1>2, <2>1, <2>2, LetGoFacts
<1>5. CASE InitD3D11
  <2>1. flags' \in Flags /\ a' = a
    BY <1>2, <1>5 DEF InitD3D11
  <2>2. \/ d' = New("software") /\ gone' = FALSE /\ UNCHANGED why
        \/ d' = d /\ d.kind = "d3d11" /\ d.vd # "none" /\ UNCHANGED <<gone, why>>
        \/ d' = [New("d3d11") EXCEPT !.svc = TRUE, !.vd = "current"] /\ gone' = FALSE /\ why' = "none"
    BY <1>5 DEF InitD3D11
  <2>3. New("software") \in Decoder /\ New("software").kind = "software" /\ ~New("software").lost
    BY NewDecoder DEF Kinds
  <2>4. ASSUME NEW x, x = [New("d3d11") EXCEPT !.svc = TRUE, !.vd = "current"]
        PROVE  x \in Decoder /\ x.kind = "d3d11" /\ x.vd = "current" /\ ~x.lost
    BY <2>4 DEF New, Decoder, Kinds
  <2> QED BY <1>1, <2>1, <2>2, <2>3, <2>4
<1>6. CASE InitOther
  <2>1. flags' \in Flags /\ a' = a /\ gone' = gone
    BY <1>2, <1>6 DEF InitOther
  <2>2. \/ d' = New(Replacement) /\ why' = "fellBack"
        \/ d.kind = "software" /\ d' = d /\ why' = why
    BY <1>6 DEF InitOther
  <2>3. New(Replacement) \in Decoder /\ New(Replacement).kind \in {"d3d11", "software"}
        /\ ~New(Replacement).lost
    BY ReplacementKind, NewDecoder DEF Kinds
  <2> QED BY <1>1, <2>1, <2>2, <2>3
<1> QED BY <1>3, <1>4, <1>5, <1>6 DEF InitDecode

(* Commit allocates surfaces of the size of m_Dimensions, and the decoder  *)
(* has a video decoder for them or is gone.                                *)
LEMMA AllocateFacts ==
    ASSUME StateInv, Allocate
    PROVE  /\ d' \in Decoder /\ flags' \in Flags /\ a' \in Alloc
           /\ why' \in {"none", "new", "lost", "held", "failed", "deleted", "fellBack"}
           /\ manager /\ ~a.pending
           /\ a'.owner = a.owner /\ a'.committed /\ ~a'.pending /\ a'.size = size
           /\ \/ d.kind # "dxva2" /\ UNCHANGED <<d, flags, why>>
              \/ /\ d.kind = "dxva2" /\ d'.kind = "dxva2" /\ d'.vd = "current" /\ ~d'.lost
                 /\ why' = "none" /\ UNCHANGED flags
              \/ /\ d.kind = "dxva2" /\ d'.kind = "none" /\ d'.vd = "none" /\ ~d'.lost
                 /\ why' = "deleted"
<1> USE DEF StateInv, TypeOK
<1> DEFINE bl == [a EXCEPT !.committed = TRUE, !.size = size]
<1>1. manager /\ ~a.pending /\ SurfacesCreated(bl)
  BY DEF Allocate
<1>2. bl \in Alloc /\ bl.owner = a.owner /\ bl.committed /\ ~bl.pending /\ bl.size = size
  BY <1>1, SizeTypes DEF Alloc
<1> HIDE DEF bl
<1>3. /\ LetGo(bl) \in Alloc /\ LetGo(bl).owner = a.owner /\ LetGo(bl).committed
      /\ ~LetGo(bl).pending /\ LetGo(bl).size = size
  BY <1>2, LetGoFacts
<1>4. CASE d.kind # "dxva2" /\ a' = bl /\ UNCHANGED <<d, flags, why>>
  BY <1>1, <1>2, <1>4
<1>5. CASE /\ d.kind = "dxva2" /\ a' = LetGo(bl) /\ d' = [Closed(d) EXCEPT !.vd = "current"]
           /\ why' = "none" /\ UNCHANGED flags
  <2>1. d' \in Decoder /\ d'.kind = "dxva2" /\ d'.vd = "current" /\ ~d'.lost
    BY <1>5 DEF Closed, Decoder
  <2> QED BY <1>1, <1>3, <1>5, <2>1
<1>6. CASE /\ d.kind = "dxva2" /\ a' = LetGo(bl) /\ d' = New("none")
           /\ flags' = [flags EXCEPT !.connect = FALSE] /\ why' = "deleted"
  <2>1. d' \in Decoder /\ d'.kind = "none" /\ d'.vd = "none" /\ ~d'.lost
    BY <1>6, NewDecoder DEF Kinds
  <2>2. flags' \in Flags
    BY <1>6 DEF Flags
  <2> QED BY <1>1, <1>3, <1>6, <2>1, <2>2
<1> QED BY <1>1, <1>4, <1>5, <1>6 DEF SurfacesCreated

-----------------------------------------------------------------------------
(* The steps.                                                              *)

(* Steps that leave the filter's objects alone.                            *)
LEMMA QuietStep ==
    ASSUME StateInv,
           \/ \E o \in SUBSET {"dxva2", "d3d11"} : SetOptions(o)
           \/ \E s \in Sizes : ParseSequence(s)
           \/ PauseUnconnected \/ ParseBuffer \/ UNCHANGED vars
    PROVE  StateInv'
<1> USE DEF StateInv, SetOptions, ParseSequence, PauseUnconnected, ParseBuffer, Return, Unit,
            vars, graphVars, filterVars, streamVars, Connected, Stopped
<1>1. TypeOK'
  <2> USE DEF TypeOK
  <2>1. CASE \E o \in SUBSET {"dxva2", "d3d11"} : SetOptions(o)
    BY <2>1
  <2>2. CASE \E s \in Sizes : ParseSequence(s)
    BY <2>2
  <2>3. CASE PauseUnconnected
    BY <2>3
  <2>4. CASE ParseBuffer
    <3>1. /\ pc' \in {"Loop", "Idle"} /\ lib' \in {"live", "none"}
          /\ UNCHANGED <<graphVars, filterVars, info, shown, pic>>
      BY <2>4
    <3>2. data' \in BOOLEAN /\ failed' \in BOOLEAN
      BY <2>4
    <3> QED BY <3>1, <3>2
  <2>5. CASE UNCHANGED vars
    BY <2>5
  <2> QED BY <2>1, <2>2, <2>3, <2>4, <2>5
<1>2. PlaceInv'
  BY DEF PlaceInv, InTransform, Streaming, TypeOK
<1>3. InputInv'
  BY DEF InputInv, PlaceInv, InTransform, Streaming, Started, TypeOK
<1>4. OutputInv'
  BY DEF OutputInv, Started, Streaming, TypeOK
<1>5. SurfaceInv'
  BY DEF SurfaceInv, Streaming, TypeOK
<1>6. FitInv'
  BY DEF FitInv, TypeOK
<1>7. ReasonInv'
  BY DEF ReasonInv, Started, Streaming, PlaceInv, InTransform, TypeOK
<1> QED BY <1>1, <1>2, <1>3, <1>4, <1>5, <1>6, <1>7

(* Samples and the device.                                                 *)
LEMMA ReturnsStep ==
    ASSUME StateInv, RendererReturns
    PROVE  StateInv'
<1> USE DEF StateInv, TypeOK
<1>1. /\ UNCHANGED <<graphVars, flags, manager, gone, size, why, streamVars>>
      /\ d' = Outdated(d, a') /\ a' = Settled([a EXCEPT !.held = FALSE])
  BY DEF RendererReturns
<1>2. /\ a' \in Alloc /\ a'.owner = a.owner /\ a'.committed = a.committed /\ (a'.pending => a.pending)
      /\ (a'.size = a.size /\ a'.pending = a.pending) \/ (a'.size = 0 /\ a.pending /\ ~a'.pending)
  <2> DEFINE bl == [a EXCEPT !.held = FALSE]
  <2>1. /\ bl \in Alloc /\ bl.owner = a.owner /\ bl.committed = a.committed
        /\ bl.pending = a.pending /\ bl.size = a.size
    BY DEF Alloc
  <2>2. a' = Settled(bl)
    BY <1>1
  <2> HIDE DEF bl
  <2> QED BY <2>1, <2>2, SettledFacts
<1>3. /\ d' \in Decoder /\ d'.kind = d.kind /\ d'.lost = d.lost
      /\ d'.vd = d.vd \/ (d'.vd = "old" /\ d.vd = "current" /\ d.kind = "dxva2" /\ a'.size = 0)
      /\ d.kind = "dxva2" /\ d'.vd = "current" => a'.size # 0
  BY <1>1, <1>2, OutdatedFacts
<1> USE DEF graphVars, streamVars, Connected
<1>4. TypeOK'
  BY <1>1, <1>2, <1>3
<1>5. PlaceInv'
  BY <1>1, <1>2, <1>3 DEF PlaceInv, InTransform, Streaming
<1>6. InputInv'
  BY <1>1 DEF InputInv, Streaming, Started
<1>7. OutputInv'
  BY <1>1, <1>3 DEF OutputInv, Started, Streaming
<1>8. SurfaceInv'
  BY <1>1, <1>2, <1>3 DEF SurfaceInv, Streaming
<1>9. FitInv'
  BY <1>1, <1>2, <1>3 DEF FitInv
<1>10. ReasonInv'
  BY <1>1, <1>2, <1>3 DEF ReasonInv, Started, Streaming
<1> QED BY <1>4, <1>5, <1>6, <1>7, <1>8, <1>9, <1>10

LEMMA DeviceGoesStep ==
    ASSUME StateInv, DeviceGoes
    PROVE  StateInv'
BY DEF StateInv, DeviceGoes, graphVars, streamVars, TypeOK, PlaceInv, InputInv, OutputInv,
       SurfaceInv, FitInv, ReasonInv, Started, Streaming, InTransform, Connected

(* Connecting and disconnecting, while the filter is stopped.              *)
LEMMA DisconnectStep ==
    ASSUME StateInv, DisconnectInput \/ DisconnectOutput \/ \E s \in Sizes : ConnectInput(s)
    PROVE  StateInv'
<1> USE DEF StateInv, TypeOK, graphVars, streamVars, filterVars, Connected, Stopped
<1>1. /\ state = "Stopped" /\ graph = "Idle" /\ pc = "Idle"
      /\ UNCHANGED <<state, graph, options, flags, manager, gone, why, streamVars>>
      /\ pins' \subseteq {"in", "out"} /\ size' \in Sizes
  BY DEF DisconnectInput, DisconnectOutput, ConnectInput, PlaceInv, InTransform, Streaming
<1>2. /\ d' \in Decoder /\ a' \in Alloc
      /\ a'.committed => a.committed
      /\ a'.pending => a.pending \/ (a.owner = "pin" /\ a.committed)
      /\ a'.size = a.size \/ (a'.size = 0 /\ ~a'.committed /\ ~a'.pending)
      /\ a'.owner = "pin" => a.owner = "pin" /\ "out" \in pins'
      /\ \/ /\ d'.kind = "none" /\ d'.vd = "none" /\ ~d'.lost
         \/ /\ d'.kind = d.kind /\ d'.lost = d.lost
            /\ \/ d'.vd = d.vd
               \/ d'.vd = "old" /\ d.vd = "current" /\ d.kind = "dxva2" /\ a'.size = 0
            /\ "out" \in pins' => "out" \in pins /\ a' = a
            /\ d.kind = "dxva2" => "in" \in pins' /\ size' = size
            /\ d.kind = "dxva2" /\ d'.vd = "current" =>
                 /\ a'.size = a.size
                 /\ a.committed \/ a.pending => a'.committed \/ a'.pending
                 /\ a.owner = "none" => a'.owner = "none"
  <2>1. CASE DisconnectInput
    <3>1. d' = New("none") /\ a' = LetGo(a) /\ pins' = pins \ {"in"}
      BY <2>1 DEF DisconnectInput
    <3>2. d' \in Decoder /\ d'.kind = "none" /\ d'.vd = "none" /\ ~d'.lost
      BY <3>1, NewDecoder DEF Kinds
    <3> QED BY <3>1, <3>2, LetGoFacts DEF SurfaceInv
  <2>2. CASE DisconnectOutput /\ a.owner = "pin"
    <3> DEFINE bl == Decommitted(a)
    <3>1. d' = Outdated(d, a') /\ a' = [bl EXCEPT !.owner = "stale"] /\ pins' = pins \ {"out"}
      BY <2>2 DEF DisconnectOutput
    <3>2. /\ bl \in Alloc /\ ~bl.committed /\ (bl.pending => a.committed \/ a.pending)
          /\ \/ bl.size = a.size /\ (bl.pending <=> a.committed \/ a.pending)
             \/ bl.size = 0 /\ ~bl.pending
      BY DecommittedFacts
    <3> HIDE DEF bl
    <3>3. /\ a' \in Alloc /\ a'.owner = "stale" /\ a'.committed = bl.committed
          /\ a'.pending = bl.pending /\ a'.size = bl.size
      BY <3>1, <3>2 DEF Alloc
    <3>4. "out" \notin pins' /\ (d.kind = "dxva2" => "in" \in pins') /\ size' = size
      BY <2>2, <3>1 DEF FitInv, DisconnectOutput
    <3>5. /\ d' \in Decoder /\ d'.kind = d.kind /\ d'.lost = d.lost
          /\ d'.vd = d.vd \/ (d'.vd = "old" /\ d.vd = "current" /\ d.kind = "dxva2" /\ a'.size = 0)
          /\ d.kind = "dxva2" /\ d'.vd = "current" => a'.size # 0
      BY <3>1, <3>3, OutdatedFacts
    <3>6. /\ ~a'.committed /\ a'.owner # "pin" /\ (a'.pending => a.committed \/ a.pending)
          /\ \/ a'.size = a.size /\ (a'.pending <=> a.committed \/ a.pending)
             \/ a'.size = 0 /\ ~a'.pending
      BY <3>2, <3>3
    <3> QED BY <2>2, <3>3, <3>4, <3>5, <3>6
  <2>3. CASE DisconnectOutput /\ a.owner # "pin"
    BY <2>3, OutdatedFacts DEF DisconnectOutput, FitInv
  <2>4. CASE \E s \in Sizes : ConnectInput(s)
    BY <2>4 DEF ConnectInput, SurfaceInv, FitInv
  <2> QED BY <2>1, <2>2, <2>3, <2>4
<1>4. TypeOK'
  BY <1>1, <1>2
<1>5. PlaceInv'
  BY <1>1 DEF PlaceInv, InTransform
<1>6. InputInv'
  BY <1>1 DEF InputInv, Streaming, Started
<1>7. OutputInv'
  BY <1>1, <1>2 DEF OutputInv, Started, Streaming
<1>8. SurfaceInv'
  BY <1>1, <1>2 DEF SurfaceInv, Streaming
<1>9. FitInv'
  BY <1>1, <1>2 DEF FitInv
<1>10. ReasonInv'
  BY <1>1, <1>2 DEF ReasonInv, Started, Streaming, SurfaceInv
<1> QED BY <1>4, <1>5, <1>6, <1>7, <1>8, <1>9, <1>10

LEMMA ConnectOutputStep ==
    ASSUME StateInv, NEW own \in BOOLEAN, ConnectOutput(own)
    PROVE  StateInv'
<1> USE DEF StateInv, TypeOK, graphVars, streamVars, Connected, Stopped
<1>1. /\ state = "Stopped" /\ graph = "Idle" /\ pc = "Idle"
      /\ UNCHANGED <<state, graph, options, size, streamVars>>
      /\ pins = {"in"} /\ pins' = {"in", "out"} /\ gone' \in BOOLEAN
  BY DEF ConnectOutput, PlaceInv, InTransform, Streaming
<1>2. /\ d' \in Decoder /\ flags' \in Flags /\ manager' \in BOOLEAN /\ why' \in {"new", "deleted"}
      /\ d'.vd = "none" /\ ~d'.lost /\ (d'.kind = "dxva2" => why' = "new" /\ flags'.connect)
      /\ flags'.output => manager'
  <2>1. New("dxva2") \in Decoder /\ New("none") \in Decoder /\ New(Replacement) \in Decoder
        /\ New("none").kind = "none" /\ New(Replacement).kind # "dxva2"
        /\ \A k \in {"none", "dxva2", Replacement} : New(k).vd = "none" /\ ~New(k).lost
    BY ReplacementKind, NewDecoder DEF Kinds
  <2>2. CASE "dxva2" \in options
    <3>1. PICK opened \in BOOLEAN, service \in BOOLEAN : Configured(opened, service)
      BY <2>2 DEF ConnectOutput
    <3>2. flags' \in Flags /\ flags'.connect = service /\ flags'.output = opened /\ manager' = opened
      BY <3>1 DEF Configured, Flags
    <3>3. \/ service /\ why' = "new" /\ d' = [New("dxva2") EXCEPT !.svc = opened]
          \/ why' = "deleted" /\ d' = New("none")
      BY <3>1 DEF Configured
    <3>4. ASSUME NEW x, x = [New("dxva2") EXCEPT !.svc = opened]
          PROVE  x \in Decoder /\ x.vd = "none" /\ ~x.lost
      BY <3>4 DEF New, Decoder, Kinds
    <3> QED BY <2>1, <3>2, <3>3, <3>4
  <2>3. CASE "dxva2" \notin options
    <3>1. /\ flags' = [flags EXCEPT !.connect = FALSE, !.output = FALSE] /\ manager' = FALSE
          /\ d' = New(Replacement) /\ why' = "new"
      BY <2>3 DEF ConnectOutput
    <3>2. flags' \in Flags /\ ~flags'.output
      BY <3>1 DEF Flags
    <3> QED BY <2>1, <3>1, <3>2
  <2> QED BY <2>2, <2>3
<1>3. /\ a' \in Alloc
      /\ a'.owner = "pin" => ~a'.committed /\ ~a'.pending
      /\ \/ ~a'.committed /\ ~a'.pending
         \/ /\ a'.committed = a.committed /\ (a'.pending => a.pending)
            /\ a'.size = a.size \/ (a'.size = 0 /\ a.pending /\ ~a'.pending)
  <2>1. a' = [NoAlloc EXCEPT !.owner = "pin"] \/ a' = LetGo(a)
    BY DEF ConnectOutput
  <2>2. a.owner # "pin"
    BY <1>1 DEF SurfaceInv
  <2>3. ASSUME NEW x, x = [NoAlloc EXCEPT !.owner = "pin"]
        PROVE  x \in Alloc /\ ~x.committed /\ ~x.pending
    BY <2>3, SizeTypes DEF NoAlloc, Alloc
  <2> QED BY <2>1, <2>2, <2>3, LetGoFacts
<1>4. TypeOK'
  BY <1>1, <1>2, <1>3
<1>5. PlaceInv'
  BY <1>1 DEF PlaceInv, InTransform
<1>6. InputInv'
  BY <1>1 DEF InputInv, Streaming, Started
<1>7. OutputInv'
  BY <1>1, <1>2 DEF OutputInv, Started, Streaming
<1>8. SurfaceInv'
  BY <1>1, <1>2, <1>3 DEF SurfaceInv, Streaming
<1>9. FitInv'
  BY <1>1, <1>2 DEF FitInv
<1>10. ReasonInv'
  BY <1>1, <1>2, <1>3 DEF ReasonInv, Started, Streaming
<1> QED BY <1>4, <1>5, <1>6, <1>7, <1>8, <1>9, <1>10

(* Pause and Stop.                                                         *)
LEMMA StartStreamingStep ==
    ASSUME StateInv, StartStreaming
    PROVE  StateInv'
<1> USE DEF StateInv, TypeOK
<1>1. /\ InitDecode /\ state = "Stopped" /\ graph = "Idle" /\ Connected /\ pc = "Idle"
      /\ graph' = "Activate" /\ lib' = "none" /\ info' = "none"
      /\ UNCHANGED <<state, pins, options, pc, data, shown, pic, failed>>
  BY DEF StartStreaming, Stopped
<1>4. TypeOK'
  BY <1>1, InitDecodeFacts
<1>5. PlaceInv'
  BY <1>1 DEF PlaceInv, InTransform, Connected
<1>6. InputInv'
  BY <1>1 DEF InputInv
<1>7. OutputInv'
  BY <1>1, InitDecodeFacts DEF OutputInv
<1>8. SurfaceInv'
  BY <1>1, InitDecodeFacts DEF SurfaceInv, Streaming
<1>9. FitInv'
  BY <1>1, InitDecodeFacts DEF FitInv, Connected
<1>10. ReasonInv'
  BY <1>1, InitDecodeFacts DEF ReasonInv, Streaming
<1> QED BY <1>4, <1>5, <1>6, <1>7, <1>8, <1>9, <1>10

LEMMA ActivateStep ==
    ASSUME StateInv, Activate
    PROVE  StateInv'
<1> USE DEF StateInv, TypeOK
<1>1. /\ graph = "Activate" /\ graph' = "Idle" /\ state = "Stopped" /\ Connected /\ pc = "Idle"
      /\ ~Streaming /\ Started
      /\ UNCHANGED <<pins, options, manager, gone, size, pc, lib, data, info, shown, pic>>
      /\ pins = {"in", "out"}
  BY DEF Activate, PlaceInv, InTransform, Streaming, Started, Connected
<1>2. CASE AllocateFails /\ UNCHANGED <<d, flags, why, state, failed>> /\ a.owner = "pin"
  <2>1. a' = [a EXCEPT !.size = 0] /\ ~a.pending /\ ~a.committed
    BY <1>1, <1>2 DEF AllocateFails, SurfaceInv
  <2>2. /\ a' \in Alloc /\ a'.owner = a.owner /\ ~a'.pending /\ ~a'.committed
    BY <2>1, SizeTypes DEF Alloc
  <2>3. ~Streaming'
    BY <1>1, <1>2 DEF Streaming
  <2> QED BY <1>1, <1>2, <2>1, <2>2, <2>3
          DEF PlaceInv, InputInv, OutputInv, SurfaceInv, FitInv, ReasonInv, Started,
              InTransform, Connected
<1>3. CASE /\ IF a.owner = "pin" THEN Cancel \/ Allocate ELSE UNCHANGED <<a, d, flags, why>>
           /\ state' = "Active" /\ failed' = FALSE
  <2>1. /\ d' \in Decoder /\ flags' \in Flags /\ a' \in Alloc
        /\ why' \in {"none", "new", "lost", "held", "failed", "deleted", "fellBack"}
        /\ a'.owner = a.owner /\ ~(a'.committed /\ a'.pending)
        /\ a'.committed \/ a'.pending => a'.size # 0
        /\ a.owner = "pin" => a'.committed
        /\ a.owner # "pin" => a' = a
        /\ a.owner = "pin" => a'.size = IF a.pending THEN a.size ELSE size
        /\ \/ UNCHANGED <<d, flags, why>> /\ (d.kind = "dxva2" /\ a.owner = "pin" => a.pending)
           \/ /\ d.kind = "dxva2" /\ d'.kind = "dxva2" /\ d'.vd = "current" /\ ~d'.lost
              /\ why' = "none" /\ UNCHANGED flags /\ manager /\ a.owner = "pin" /\ ~a.pending
           \/ d'.kind = "none" /\ d'.vd = "none" /\ ~d'.lost
    <3>1. CASE a.owner = "pin" /\ Cancel
      <4>1. /\ a' = [a EXCEPT !.committed = TRUE, !.pending = FALSE] /\ UNCHANGED <<d, flags, why>>
            /\ a.pending /\ a.size # 0
        BY <3>1 DEF Cancel, SurfaceInv
      <4>2. /\ a' \in Alloc /\ a'.owner = a.owner /\ a'.committed /\ ~a'.pending /\ a'.size = a.size
        BY <4>1 DEF Alloc
      <4> QED BY <3>1, <4>1, <4>2
    <3>2. CASE a.owner = "pin" /\ Allocate
      BY <3>2, AllocateFacts, SizeTypes
    <3>3. CASE a.owner # "pin"
      BY <1>3, <3>3 DEF SurfaceInv
    <3> QED BY <1>3, <3>1, <3>2, <3>3
  <2>2. Streaming'
    BY <1>1, <1>3 DEF Streaming, Connected
  <2>4. TypeOK'
    BY <1>1, <1>3, <2>1
  <2>5. PlaceInv'
    BY <1>1 DEF PlaceInv, InTransform
  <2>6. InputInv'
    BY <1>1 DEF InputInv, Started, Streaming
  <2>7. OutputInv'
    <3>1. d'.kind = "dxva2" => d.kind = "dxva2" /\ flags' = flags /\ (why' = why \/ manager)
      BY <2>1
    <3> QED BY <1>1, <3>1 DEF OutputInv
  <2>8. SurfaceInv'
    BY <1>1, <2>1, <2>2 DEF SurfaceInv
  <2>11. size >= size /\ size' = size
    BY <1>1, SizesAssumption DEF Sizes
  <2>9. FitInv'
    BY <1>1, <2>1, <2>11 DEF FitInv
  <2>10. ReasonInv'
    BY <1>1, <2>1, <2>2 DEF ReasonInv
  <2> QED BY <2>4, <2>5, <2>6, <2>7, <2>8, <2>9, <2>10
<1> QED BY <1>2, <1>3 DEF Activate

LEMMA StopStep ==
    ASSUME StateInv, Stop
    PROVE  StateInv'
<1> USE DEF StateInv, TypeOK, streamVars
<1>1. /\ state = "Active" /\ state' = "Stopped" /\ graph = "Idle" /\ pc = "Idle"
      /\ UNCHANGED <<graph, pins, options, flags, manager, gone, size, why, streamVars>>
      /\ d' = Outdated(d, a')
  BY DEF Stop, PlaceInv, InTransform, Streaming
<1>2. /\ a' \in Alloc /\ a'.owner = a.owner
      /\ a.owner = "pin" => ~a'.committed
      /\ \/ a' = a
         \/ /\ a.owner = "pin" /\ a.committed
            /\ (a'.size = a.size /\ a'.pending) \/ (a'.size = 0 /\ ~a'.pending)
  <2>1. CASE Connected /\ a.owner = "pin"
    BY <2>1, DecommittedFacts DEF Stop
  <2>2. CASE ~(Connected /\ a.owner = "pin")
    BY <2>2 DEF Stop, SurfaceInv, Streaming
  <2> QED BY <2>1, <2>2
<1>3. /\ d' \in Decoder /\ d'.kind = d.kind /\ d'.lost = d.lost
      /\ d'.vd = d.vd \/ (d'.vd = "old" /\ d.vd = "current" /\ d.kind = "dxva2" /\ a'.size = 0)
      /\ d.kind = "dxva2" /\ d'.vd = "current" => a'.size # 0
  BY <1>1, <1>2, OutdatedFacts
<1>4. TypeOK'
  BY <1>1, <1>2, <1>3
<1>5. PlaceInv'
  BY <1>1 DEF PlaceInv, InTransform
<1>6. InputInv'
  BY <1>1 DEF InputInv, Streaming, Started
<1>7. OutputInv'
  BY <1>1, <1>3 DEF OutputInv, Started, Streaming
<1>8. SurfaceInv'
  BY <1>1, <1>2, <1>3 DEF SurfaceInv, Streaming
<1>9. FitInv'
  BY <1>1, <1>2, <1>3 DEF FitInv
<1>10. ReasonInv'
  BY <1>1, <1>2, <1>3 DEF ReasonInv, Started, Streaming, SurfaceInv, Connected
<1> QED BY <1>4, <1>5, <1>6, <1>7, <1>8, <1>9, <1>10

(* Receive and the loop of Transform.                                      *)
LEMMA ReceiveStep ==
    ASSUME StateInv, NEW discontinuity \in BOOLEAN, Receive(discontinuity)
    PROVE  StateInv'
<1> USE DEF StateInv, TypeOK, graphVars
<1>1. /\ Streaming /\ pc = "Idle" /\ pc' = "Loop" /\ data' = TRUE /\ info' = "current"
      /\ UNCHANGED <<graphVars, shown, pic, failed>>
      /\ Streaming' /\ Started
  BY DEF Receive, Streaming, Connected, Started
<1>2. CASE InitDecode /\ lib' = "none"
  <2>4. TypeOK'
    BY <1>1, <1>2, InitDecodeFacts
  <2>5. PlaceInv'
    BY <1>1, <1>2, InitDecodeFacts DEF PlaceInv, Connected
  <2>6. InputInv'
    BY <1>1, <1>2 DEF InputInv
  <2>7. OutputInv'
    BY <1>1, <1>2, InitDecodeFacts DEF OutputInv
  <2>8. SurfaceInv'
    BY <1>1, <1>2, InitDecodeFacts DEF SurfaceInv
  <2>9. FitInv'
    BY <1>1, <1>2, InitDecodeFacts DEF FitInv
  <2>10. ReasonInv'
    BY <1>1, <1>2, InitDecodeFacts DEF ReasonInv
  <2> QED BY <2>4, <2>5, <2>6, <2>7, <2>8, <2>9, <2>10
<1>3. CASE /\ d.kind # "none" /\ ~discontinuity
           /\ lib' = IF lib = "none" THEN "none" ELSE "stale"
           /\ UNCHANGED filterVars
  <2> USE DEF filterVars
  <2>1. ~failed /\ lib' = "none"
    BY <1>1, <1>3 DEF Receive, InputInv
  <2>4. TypeOK'
    BY <1>1, <1>3, <2>1
  <2>5. PlaceInv'
    BY <1>1, <1>3 DEF PlaceInv, Connected
  <2>6. InputInv'
    BY <1>1, <2>1 DEF InputInv
  <2>7. OutputInv'
    BY <1>1, <1>3 DEF OutputInv
  <2>8. SurfaceInv'
    BY <1>1, <1>3 DEF SurfaceInv
  <2>9. FitInv'
    BY <1>1, <1>3 DEF FitInv
  <2>10. ReasonInv'
    BY <1>1, <1>3 DEF ReasonInv
  <2> QED BY <2>4, <2>5, <2>6, <2>7, <2>8, <2>9, <2>10
<1> QED BY <1>2, <1>3 DEF Receive

LEMMA ParseInvalidStep ==
    ASSUME StateInv, ParseInvalid
    PROVE  StateInv'
<1> USE DEF StateInv, TypeOK, graphVars
<1>1. /\ pc = "Loop" /\ lib # "none" /\ InitDecode /\ lib' = "none" /\ info' = "old"
      /\ UNCHANGED <<graphVars, pc, data, shown, pic, failed>>
      /\ Streaming /\ Streaming' /\ Started
  BY DEF ParseInvalid, Unit, PlaceInv, InTransform, Streaming, Connected, Started
<1>4. TypeOK'
  BY <1>1, InitDecodeFacts
<1>5. PlaceInv'
  BY <1>1, InitDecodeFacts DEF PlaceInv, Connected
<1>6. InputInv'
  BY <1>1 DEF InputInv
<1>7. OutputInv'
  BY <1>1, InitDecodeFacts DEF OutputInv
<1>8. SurfaceInv'
  BY <1>1, InitDecodeFacts DEF SurfaceInv
<1>9. FitInv'
  BY <1>1, InitDecodeFacts DEF FitInv
<1>10. ReasonInv'
  BY <1>1, InitDecodeFacts DEF ReasonInv
<1> QED BY <1>4, <1>5, <1>6, <1>7, <1>8, <1>9, <1>10

LEMMA ParseFirstFieldStep ==
    ASSUME StateInv, ParseFirstField
    PROVE  StateInv'
<1> USE DEF StateInv, TypeOK, graphVars, streamVars
<1>1. /\ pc = "Loop" /\ d.kind \in {"dxva2", "d3d11"} /\ d.vd # "none"
      /\ UNCHANGED <<graphVars, flags, manager, gone, size, streamVars>>
      /\ why' = IF gone THEN "lost" ELSE why
  BY DEF ParseFirstField, Unit
<1>2. d' \in Decoder /\ d'.kind = d.kind /\ d'.vd = d.vd /\ d'.lost = (d.lost \/ gone)
  BY DEF ParseFirstField, Decoder
<1>3. /\ a' \in Alloc /\ a'.owner = a.owner /\ a'.committed = a.committed /\ a'.pending = a.pending
      /\ a'.size = a.size
  BY DEF ParseFirstField, Alloc
<1>4. TypeOK'
  BY <1>1, <1>2, <1>3
<1>5. PlaceInv'
  BY <1>1, <1>2 DEF PlaceInv, InTransform, Streaming, Connected
<1>6. InputInv'
  BY <1>1 DEF InputInv, Started, Streaming, Connected
<1>7. OutputInv'
  BY <1>1, <1>2 DEF OutputInv, Started, Streaming, Connected
<1>8. SurfaceInv'
  BY <1>1, <1>2, <1>3 DEF SurfaceInv, Streaming, Connected
<1>9. FitInv'
  BY <1>1, <1>2, <1>3 DEF FitInv
<1>10. ReasonInv'
  BY <1>1, <1>2 DEF ReasonInv
<1> QED BY <1>4, <1>5, <1>6, <1>7, <1>8, <1>9, <1>10

(* Delivering a copy of the frame, the allocator may get new surfaces, but *)
(* is left as the code expects it.                                         *)
LEMMA DeliverCopyFacts ==
    ASSUME StateInv, pc = "Loop", NEW r \in BOOLEAN, NEW ok \in BOOLEAN, DeliverCopy(r, ok)
    PROVE  /\ a' \in Alloc /\ a'.owner = a.owner
           /\ ~(a'.committed /\ a'.pending)
           /\ a'.committed \/ a'.pending => a'.size # 0
           /\ size' \in {size, pic}
           /\ (pc' = "Loop" /\ failed' = failed) \/ (pc' = "Idle" /\ failed' = TRUE)
<1> USE DEF StateInv, TypeOK
<1> DEFINE Sound(al) == /\ al \in Alloc /\ al.owner = a.owner
                        /\ ~(al.committed /\ al.pending)
                        /\ al.committed \/ al.pending => al.size # 0
<1>1. Sound(a)
  BY DEF SurfaceInv
<1>2. ASSUME NEW al \in Reallocated
      PROVE  Sound(al)
  <2>1. PICK b \in {Decommitted(a), Settled([Decommitted(a) EXCEPT !.held = FALSE])} :
          al \in IF ~manager THEN {b}
                 ELSE IF b.pending THEN {[b EXCEPT !.committed = TRUE, !.pending = FALSE]}
                 ELSE {[b EXCEPT !.size = 0]}
                      \cup (IF gone THEN {} ELSE {[b EXCEPT !.committed = TRUE, !.size = pic]})
    BY <1>2 DEF Reallocated
  <2>2. ASSUME NEW x \in Alloc, x.owner = a.owner, ~x.committed, x.pending => x.size # 0,
               NEW y, y = Settled([x EXCEPT !.held = FALSE])
        PROVE  y \in Alloc /\ y.owner = a.owner /\ ~y.committed /\ (y.pending => y.size # 0)
    <3> DEFINE z == [x EXCEPT !.held = FALSE]
    <3>1. /\ z \in Alloc /\ z.owner = a.owner /\ ~z.committed /\ z.pending = x.pending
          /\ z.size = x.size
      BY <2>2 DEF Alloc
    <3>2. y = Settled(z)
      BY <2>2
    <3> HIDE DEF z
    <3> QED BY <2>2, <3>1, <3>2, SettledFacts
  <2>3. LET x == Decommitted(a)
        IN  x \in Alloc /\ x.owner = a.owner /\ ~x.committed /\ (x.pending => x.size # 0)
    BY DecommittedFacts DEF SurfaceInv
  <2>4. b \in Alloc /\ b.owner = a.owner /\ ~b.committed /\ (b.pending => b.size # 0)
    BY <2>1, <2>2, <2>3
  <2>5. pic \in 0 .. MaxSize /\ pic # 0 /\ 0 \in 0 .. MaxSize
    BY SizeTypes
  <2>6. CASE al = b
    BY <2>4, <2>6
  <2>7. CASE b.pending /\ al = [b EXCEPT !.committed = TRUE, !.pending = FALSE]
    BY <2>4, <2>7 DEF Alloc
  <2>8. CASE ~b.pending /\ al = [b EXCEPT !.size = 0]
    BY <2>4, <2>5, <2>8 DEF Alloc
  <2>9. CASE ~b.pending /\ al = [b EXCEPT !.committed = TRUE, !.size = pic]
    BY <2>4, <2>5, <2>9 DEF Alloc
  <2> QED BY <2>1, <2>6, <2>7, <2>8, <2>9
<1>3. PICK al \in {a} \cup Reallocated :
        a' \in {al} \cup (IF ok /\ al.owner = "pin" THEN {[al EXCEPT !.held = TRUE]} ELSE {})
  BY DEF DeliverCopy
<1>4. Sound(al)
  BY <1>1, <1>2, <1>3
<1>5. Sound([al EXCEPT !.held = TRUE])
  BY <1>4 DEF Alloc
<1>6. Sound(a')
  BY <1>3, <1>4, <1>5
<1>7. size' \in {size, pic} /\ ((pc' = "Loop" /\ failed' = failed) \/ (pc' = "Idle" /\ failed' = TRUE))
  BY DEF DeliverCopy, Return
<1> QED BY <1>6, <1>7

(* The pictures.                                                           *)
LEMMA SliceSoftwareStep ==
    ASSUME StateInv,
           \E s, r, ok \in BOOLEAN : SliceSoftware(s, r, ok) \/ SliceD3D11(s, r, ok)
    PROVE  StateInv'
<1> USE DEF StateInv, TypeOK, graphVars
<1>1. PICK s \in BOOLEAN, r \in BOOLEAN, ok \in BOOLEAN : SliceSoftware(s, r, ok) \/ SliceD3D11(s, r, ok)
  OBVIOUS
<1>2. /\ pc = "Loop" /\ lib # "none" /\ d.kind \in {"software", "d3d11"}
      /\ UNCHANGED <<graphVars, manager, gone, lib, data, info, shown, pic>>
      /\ Streaming /\ Streaming' /\ Started
      /\ DeliverCopy(r, ok) \/ UNCHANGED <<pc, failed, size, a>>
  BY <1>1 DEF SliceSoftware, SliceD3D11, Unit, PlaceInv, InTransform, Streaming, Connected, Started
<1>3. /\ a' \in Alloc /\ a'.owner = a.owner
      /\ ~(a'.committed /\ a'.pending)
      /\ a'.committed \/ a'.pending => a'.size # 0
      /\ size' \in {size, pic}
      /\ (pc' = "Loop" /\ failed' = failed) \/ (pc' = "Idle" /\ failed' = TRUE)
  BY <1>2, DeliverCopyFacts DEF SurfaceInv
<1>6. /\ d' \in Decoder /\ d'.kind = d.kind /\ d'.vd = d.vd
      /\ flags' \in Flags
      /\ (d'.lost = d.lost /\ UNCHANGED why) \/ (why' = "lost" /\ d'.vd # "none")
  <2>1. CASE UNCHANGED <<d, flags, why>>
    BY <2>1
  <2>2. CASE /\ d' = [d EXCEPT !.lost = TRUE] /\ why' = "lost" /\ d.vd # "none"
             /\ flags' = [flags EXCEPT !.reinit = TRUE]
    BY <2>2 DEF Decoder, Flags
  <2> QED BY <1>1, <2>1, <2>2 DEF SliceSoftware, SliceD3D11
<1>7. TypeOK'
  <2>1. size' \in Sizes /\ failed' \in BOOLEAN /\ pc' \in {"Idle", "Loop"}
    BY <1>3
  <2>2. why' \in {"none", "new", "lost", "held", "failed", "deleted", "fellBack"}
    BY <1>6
  <2>3. UNCHANGED <<state, graph, pins, options, manager, gone, lib, data, info, shown, pic>>
    BY <1>2
  <2> QED BY <1>3, <1>6, <2>1, <2>2, <2>3
<1>8. PlaceInv'
  BY <1>2, <1>3, <1>6 DEF PlaceInv, InTransform, Connected
<1>9. InputInv'
  BY <1>2, <1>3 DEF InputInv
<1>10. OutputInv'
  BY <1>2, <1>6 DEF OutputInv
<1>11. SurfaceInv'
  BY <1>2, <1>3, <1>6 DEF SurfaceInv
<1>12. FitInv'
  BY <1>2, <1>6 DEF FitInv
<1>13. ReasonInv'
  BY <1>2, <1>3, <1>6 DEF ReasonInv
<1> QED BY <1>7, <1>8, <1>9, <1>10, <1>11, <1>12, <1>13

LEMMA SliceDXVA2Step ==
    ASSUME StateInv, NEW s \in BOOLEAN, NEW r \in BOOLEAN, SliceDXVA2(s, r)
    PROVE  StateInv'
<1> USE DEF StateInv, TypeOK, graphVars
<1>1. /\ pc = "Loop" /\ lib # "none" /\ d.kind = "dxva2" /\ ~d.lost
      /\ UNCHANGED <<graphVars, d, flags, manager, a, gone, why, lib, data, info, pic>>
      /\ Streaming /\ Streaming' /\ Started /\ flags.output /\ flags.connect
  BY DEF SliceDXVA2, Unit, PlaceInv, InTransform, Streaming, Connected, Started, OutputInv
<1>2. /\ shown' = s /\ size' = (IF s THEN pic ELSE size)
      /\ pc' = (IF s /\ Reconnects(r) /\ TooSmall THEN "Decommit" ELSE "Decode") /\ failed' = failed
  BY <1>1 DEF SliceDXVA2
<1>4. TypeOK'
  BY <1>1, <1>2
<1>5. PlaceInv'
  BY <1>1, <1>2 DEF PlaceInv, InTransform, Connected
<1>6. InputInv'
  BY <1>1, <1>2 DEF InputInv
<1>7. OutputInv'
  BY <1>1 DEF OutputInv
<1>8. SurfaceInv'
  BY <1>1 DEF SurfaceInv
<1>9. FitInv'
  <2>1. size' \in Nat /\ a.size \in Nat
    BY <1>4, SizesAssumption DEF Sizes, Alloc
  <2>2. CASE pc' = "Decode" /\ size' = size
    BY <1>1, <1>2, <2>2 DEF FitInv
  <2>3. CASE pc' = "Decode" /\ size' # size
    <3>1. a.owner # "none" => a.size >= size'
      BY <1>2, <2>1, <2>3 DEF Reconnects, TooSmall
    <3> QED BY <1>1, <1>2, <2>3, <3>1 DEF FitInv
  <2>4. CASE pc' = "Decommit"
    BY <1>1, <1>2, <2>4 DEF FitInv
  <2> QED BY <1>2, <2>2, <2>3, <2>4
<1>10. ReasonInv'
  BY <1>1, <1>2 DEF ReasonInv
<1> QED BY <1>4, <1>5, <1>6, <1>7, <1>8, <1>9, <1>10

LEMMA RecommitDecommitStep ==
    ASSUME StateInv, RecommitDecommit
    PROVE  StateInv'
<1> USE DEF StateInv, TypeOK, graphVars
<1>1. /\ pc = "Decommit" /\ pc' = "Commit" /\ d.kind = "dxva2"
      /\ UNCHANGED <<graphVars, flags, manager, gone, size, why, lib, data, info, shown, pic, failed>>
      /\ Streaming /\ Streaming' /\ Started
  BY DEF RecommitDecommit, PlaceInv, InTransform, Streaming, Connected, Started
<1>2. d' \in Decoder /\ d'.kind = "dxva2" /\ d'.vd = "none" /\ ~d'.lost
  BY <1>1 DEF RecommitDecommit, Closed, Decoder
<1>3. /\ a' \in Alloc /\ a'.owner = a.owner /\ ~a'.committed
      /\ a'.pending => a'.size # 0
  <2> DEFINE bl == LetGo(a)
  <2>1. /\ bl \in Alloc /\ bl.owner = a.owner /\ bl.committed = a.committed
        /\ bl.pending => a.pending
        /\ bl.size = a.size \/ (bl.size = 0 /\ a.pending /\ ~bl.pending)
    BY LetGoFacts
  <2>2. a' = Decommitted(bl)
    BY DEF RecommitDecommit
  <2> HIDE DEF bl
  <2> QED BY <2>1, <2>2, DecommittedFacts DEF SurfaceInv
<1>4. TypeOK'
  BY <1>1, <1>2, <1>3
<1>5. PlaceInv'
  BY <1>1, <1>2, <1>3 DEF PlaceInv, InTransform, Connected
<1>6. InputInv'
  BY <1>1 DEF InputInv
<1>7. OutputInv'
  BY <1>1, <1>2 DEF OutputInv
<1>8. SurfaceInv'
  BY <1>1, <1>2, <1>3 DEF SurfaceInv
<1>9. FitInv'
  BY <1>1, <1>2 DEF FitInv
<1>10. ReasonInv'
  BY <1>1, <1>2 DEF ReasonInv
<1> QED BY <1>4, <1>5, <1>6, <1>7, <1>8, <1>9, <1>10

LEMMA RecommitCommitStep ==
    ASSUME StateInv, RecommitCommit
    PROVE  StateInv'
<1> USE DEF StateInv, TypeOK, graphVars
<1>1. /\ pc = "Commit" /\ pc' = "Decode" /\ d.kind = "dxva2" /\ d.vd = "none" /\ ~d.lost
      /\ ~a.committed
      /\ UNCHANGED <<graphVars, manager, gone, size, lib, data, info, shown, pic, failed>>
      /\ Streaming /\ Streaming' /\ Started /\ flags.output
  BY DEF RecommitCommit, PlaceInv, InTransform, Streaming, Connected, Started, OutputInv
<1>2. /\ d' \in Decoder /\ flags' \in Flags /\ a' \in Alloc
      /\ why' \in {"none", "new", "lost", "held", "failed", "deleted", "fellBack"}
      /\ a'.owner = a.owner /\ ~(a'.committed /\ a'.pending) /\ (a'.committed \/ a'.pending => a'.size # 0)
      /\ \/ /\ d' = d /\ flags' = flags
            /\ (why' \in {"held", "failed"} /\ manager) \/ (why' = why /\ ~manager)
         \/ /\ d'.kind = "dxva2" /\ d'.vd = "current" /\ ~d'.lost /\ why' = "none" /\ manager
            /\ UNCHANGED flags /\ a'.committed /\ a'.size = size
         \/ d'.kind = "none" /\ ~d'.lost /\ why' = "deleted"
  <2>1. CASE /\ manager /\ a.pending /\ a' = [a EXCEPT !.committed = TRUE, !.pending = FALSE]
             /\ why' = "held" /\ UNCHANGED <<d, flags>>
    <3>1. a' \in Alloc /\ a'.owner = a.owner /\ ~a'.pending /\ a'.size = a.size /\ a.size # 0
      BY <2>1 DEF Alloc, SurfaceInv
    <3> QED BY <2>1, <3>1
  <2>2. CASE Allocate
    BY <1>1, <2>2, AllocateFacts, SizeTypes
  <2>3. CASE manager /\ AllocateFails /\ why' = "failed" /\ UNCHANGED <<d, flags>>
    <3>1. a' \in Alloc /\ a'.owner = a.owner /\ ~a'.pending /\ ~a'.committed
      BY <1>1, <2>3, SizeTypes DEF AllocateFails, Alloc
    <3> QED BY <2>3, <3>1
  <2>4. CASE ~manager /\ UNCHANGED <<a, d, flags, why>>
    BY <1>1, <2>4 DEF SurfaceInv
  <2> QED BY <2>1, <2>2, <2>3, <2>4 DEF RecommitCommit
<1>4. TypeOK'
  BY <1>1, <1>2
<1>5. PlaceInv'
  BY <1>1, <1>2 DEF PlaceInv, InTransform, Connected
<1>6. InputInv'
  BY <1>1 DEF InputInv
<1>7. OutputInv'
  BY <1>1, <1>2 DEF OutputInv
<1>8. SurfaceInv'
  BY <1>1, <1>2 DEF SurfaceInv
<1>9. FitInv'
  <2>1. size' \in Nat
    BY <1>4, SizesAssumption DEF Sizes
  <2> QED BY <1>1, <1>2, <2>1 DEF FitInv
<1>10. ReasonInv'
  BY <1>1, <1>2 DEF ReasonInv, OutputInv
<1> QED BY <1>4, <1>5, <1>6, <1>7, <1>8, <1>9, <1>10

LEMMA DecodeStep ==
    ASSUME StateInv, DecodeNothing \/ DecodeLoss \/ \E ok \in BOOLEAN : DecodeFrame(ok)
    PROVE  StateInv'
<1> USE DEF StateInv, TypeOK, graphVars, filterVars
<1>1. /\ pc = "Decode" /\ d.kind = "dxva2" /\ shown' = FALSE
      /\ (pc' = "Loop" /\ failed' = failed) \/ (pc' = "Idle" /\ failed' = TRUE)
      /\ UNCHANGED <<graphVars, flags, gone, size, lib, data, info, pic>>
      /\ Streaming /\ Streaming' /\ Started
  BY DEF DecodeNothing, DecodeLoss, DecodeFrame, Return, PlaceInv, InTransform, Streaming, Connected,
         Started
<1>2. /\ d' \in Decoder /\ d'.kind = "dxva2" /\ a' \in Alloc /\ manager' \in BOOLEAN
      /\ why' \in {"none", "new", "lost", "held", "failed", "deleted", "fellBack"}
      /\ a'.owner = a.owner /\ a'.committed = a.committed /\ (a'.pending => a.pending)
      /\ a'.size = a.size \/ (a'.size = 0 /\ a.pending /\ ~a'.pending)
      /\ \/ /\ d' = d /\ why' = why /\ manager' = manager
            /\ a'.size = a.size /\ a'.pending = a.pending
         \/ d'.vd = "none" /\ ~d'.lost /\ why' = "lost"
  <2>1. CASE DecodeNothing
    BY <1>1, <2>1 DEF DecodeNothing
  <2>2. CASE DecodeLoss
    <3>1. New("dxva2") \in Decoder /\ New("dxva2").kind = "dxva2" /\ New("dxva2").vd = "none"
          /\ ~New("dxva2").lost
      BY NewDecoder DEF Kinds
    <3> QED BY <2>2, <3>1, LetGoFacts DEF DecodeLoss
  <2>3. CASE \E ok \in BOOLEAN : DecodeFrame(ok)
    <3>1. PICK ok \in BOOLEAN : DecodeFrame(ok)
      BY <2>3
    <3>2. PICK h \in BOOLEAN : a' = [a EXCEPT !.kept = TRUE, !.held = @ \/ (h /\ ok)]
      BY <3>1 DEF DecodeFrame
    <3>3. /\ a' \in Alloc /\ a'.owner = a.owner /\ a'.committed = a.committed
          /\ a'.pending = a.pending /\ a'.size = a.size
      BY <3>2 DEF Alloc
    <3> QED BY <1>1, <3>1, <3>3 DEF DecodeFrame
  <2> QED BY <2>1, <2>2, <2>3
<1>4. TypeOK'
  BY <1>1, <1>2
<1>5. PlaceInv'
  BY <1>1, <1>2 DEF PlaceInv, InTransform, Connected
<1>6. InputInv'
  BY <1>1 DEF InputInv
<1>7. OutputInv'
  BY <1>1, <1>2 DEF OutputInv
<1>8. SurfaceInv'
  BY <1>1, <1>2 DEF SurfaceInv
<1>9. FitInv'
  BY <1>1, <1>2 DEF FitInv
<1>10. ReasonInv'
  BY <1>1, <1>2 DEF ReasonInv
<1> QED BY <1>4, <1>5, <1>6, <1>7, <1>8, <1>9, <1>10

-----------------------------------------------------------------------------
(* The theorems.                                                           *)

LEMMA StateInit == Init => StateInv
<1> SUFFICES ASSUME Init
             PROVE  StateInv
  OBVIOUS
<1>1. d = New("none") /\ d \in Decoder /\ d.kind = "none" /\ d.vd = "none" /\ ~d.lost
  BY NewDecoder DEF Init, Kinds
<1>2. a \in Alloc /\ ~a.committed /\ ~a.pending /\ a.owner = "none"
  BY SizeTypes DEF Init, NoAlloc, Alloc
<1>3. flags \in Flags
  BY DEF Init, Flags
<1>4. TypeOK
  BY <1>1, <1>2, <1>3, SizeTypes DEF Init, TypeOK
<1>5. PlaceInv /\ InputInv /\ FitInv
  BY <1>1 DEF Init, PlaceInv, InputInv, FitInv, InTransform
<1>6. OutputInv /\ SurfaceInv /\ ReasonInv
  BY <1>1, <1>2 DEF OutputInv, SurfaceInv, ReasonInv
<1> QED BY <1>4, <1>5, <1>6 DEF StateInv

LEMMA StateStep == StateInv /\ [Next]_vars => StateInv'
<1> SUFFICES ASSUME StateInv, [Next]_vars
             PROVE  StateInv'
  OBVIOUS
<1>1. CASE \/ \E o \in SUBSET {"dxva2", "d3d11"} : SetOptions(o)
           \/ \E s \in Sizes : ParseSequence(s)
           \/ PauseUnconnected \/ ParseBuffer \/ UNCHANGED vars
  BY <1>1, QuietStep
<1>2. CASE RendererReturns \/ DeviceGoes
  BY <1>2, ReturnsStep, DeviceGoesStep
<1>3. CASE DisconnectInput \/ DisconnectOutput \/ \E s \in Sizes : ConnectInput(s)
  BY <1>3, DisconnectStep
<1>4. CASE \E own \in BOOLEAN : ConnectOutput(own)
  BY <1>4, ConnectOutputStep
<1>5. CASE StartStreaming \/ Activate \/ Stop
  BY <1>5, StartStreamingStep, ActivateStep, StopStep
<1>6. CASE \E disc \in BOOLEAN : Receive(disc)
  BY <1>6, ReceiveStep
<1>7. CASE ParseInvalid \/ ParseFirstField
  BY <1>7, ParseInvalidStep, ParseFirstFieldStep
<1>8. CASE Slices
  BY <1>8, SliceSoftwareStep, SliceDXVA2Step DEF Slices
<1>9. CASE Decode
  BY <1>9, RecommitDecommitStep, RecommitCommitStep, DecodeStep DEF Decode
<1> QED BY <1>1, <1>2, <1>3, <1>4, <1>5, <1>6, <1>7, <1>8, <1>9 DEF Next

(* All of the invariant.                                                   *)
THEOREM Invariant == Spec => []StateInv
BY StateInit, StateStep, PTL DEF Spec

(* In Transform the decoder is there, the library has bytes of the current *)
(* sample only, and pInfo points into the instance that is being parsed.   *)
THEOREM UsedAliveCorrect == Spec => []UsedAlive
<1>1. StateInv => UsedAlive
  BY DEF StateInv, UsedAlive, DecoderAlive, InfoCurrent, PlaceInv, InputInv, TypeOK
<1> QED BY <1>1, Invariant, PTL

(* A DXVA2 decoder in Transform has an output that takes surfaces, and     *)
(* decodes into the current ones, which fit the pictures shown.            *)
THEOREM DecodesForOutputCorrect == Spec => []DecodesForOutput
<1>1. StateInv => DecodesForOutput
  <2> SUFFICES ASSUME StateInv
               PROVE  DecodesForOutput
    OBVIOUS
  <2>1. FallbackInTime
    BY DEF StateInv, FallbackInTime, OutputInv, PlaceInv, Started
  <2>2. SurfacesMatch
    BY DEF StateInv, SurfacesMatch, SurfaceInv, PlaceInv, TypeOK, Decoder
  <2>3. FitsWhenShown
    <3>1. ASSUME InTransform, d.kind = "dxva2", d.vd # "none"
          PROVE  d.vd = "current"
      BY <3>1 DEF StateInv, PlaceInv, Streaming, Connected, SurfaceInv, TypeOK, Decoder
    <3> QED BY <3>1 DEF StateInv, FitInv, FitsWhenShown, InTransform
  <2> QED BY <2>1, <2>2, <2>3 DEF DecodesForOutput
<1> QED BY <1>1, Invariant, PTL

(* A hardware decoder without a video decoder, or with a lost device, has  *)
(* one of the reasons that the code allows for.                            *)
THEOREM SilentForAReasonCorrect == Spec => []SilentForAReason
<1>1. StateInv => SilentForAReason
  BY DEF StateInv, SilentForAReason, ReasonInv, PlaceInv, InTransform, Started
<1> QED BY <1>1, Invariant, PTL
=============================================================================
