--------------------------- MODULE FilterLifecycle ---------------------------
(***************************************************************************)
(* The life of the decoder object inside the filter: which decoder is      *)
(* chosen when the output pin is connected, how it gets its device and its *)
(* surfaces when the filter is paused, how it is replaced by another when  *)
(* something fails, and what the loop of Transform may rely on meanwhile.  *)
(*                                                                         *)
(* Actors: the application and the graph (connect, disconnect, pause,      *)
(* stop, options), the streaming thread (Transform, which holds            *)
(* m_csReceive from Receive to Return), the renderer, which keeps and      *)
(* returns surfaces, and the device, which may be reset or removed.        *)
(*                                                                         *)
(* Assumed of the filter upstream: when Receive has failed, the next       *)
(* sample it sends is a discontinuity (it stops, or flushes first).        *)
(***************************************************************************)
EXTENDS Naturals

CONSTANT MaxSize       \* picture sizes 1 .. MaxSize, 0 is "no surfaces"
ASSUME SizesAssumption == MaxSize \in Nat \ {0}

Sizes == 1 .. MaxSize

VARIABLES
    state,      \* m_State: "Stopped" or "Active" (paused or running)
    graph,      \* where Pause stands: "Idle", or "Activate" after StartStreaming
    pins,       \* the connected pins
    options,    \* m_fDXVA2Decode, m_fD3D11Decode: the decoders asked for
    d,          \* *m_pDecoder: kind, svc (service or device), vd (video decoder), lost
    flags,      \* m_fDXVAConnect, m_fDXVAOutput, m_fReInitDecoder, m_fForceSoftwareDecoder
    manager,    \* m_D3D9DeviceManager and m_hDXVADevice are there
    a,          \* *m_DXVA2Allocator: owner, committed, pending, size, held, kept
    gone,       \* the device was reset or removed since it was opened
    size,       \* m_Dimensions
    pic,        \* the picture size in the library's sequence
    pc,         \* where the streaming thread is in Transform
    lib,        \* the library's input: "none", "live" or "stale" bytes
    data,       \* the sample's bytes are still to be given to the library
    info,       \* pInfo: "none", "current", or "old" after mpeg2_close
    shown,      \* the picture being decoded for output is one to show; FALSE in the loop
    failed,     \* the last Receive failed
    why         \* history: why the decoder has no video decoder

graphVars  == <<state, graph, pins, options>>
filterVars == <<d, flags, manager, a, gone, size, why>>
streamVars == <<pc, lib, data, info, shown, pic, failed>>
vars       == <<graphVars, filterVars, streamVars>>

Kinds   == {"none", "software", "dxva2", "d3d11"}
Decoder == [kind : Kinds, svc : BOOLEAN, vd : {"none", "current", "old"}, lost : BOOLEAN]
Flags   == [connect : BOOLEAN, output : BOOLEAN, reinit : BOOLEAN, force : BOOLEAN]
Alloc   == [owner : {"none", "pin", "stale"}, committed : BOOLEAN, pending : BOOLEAN,
            size : 0 .. MaxSize, held : BOOLEAN, kept : BOOLEAN]

New(kind) == [kind |-> kind, svc |-> FALSE, vd |-> "none", lost |-> FALSE]
NoAlloc   == [owner |-> "none", committed |-> FALSE, pending |-> FALSE,
              size |-> 0, held |-> FALSE, kept |-> FALSE]

(* The type of the state; m_csReceive is held whenever pc is not "Idle".   *)
TypeOK ==
    /\ state \in {"Stopped", "Active"} /\ graph \in {"Idle", "Activate"}
    /\ pins \subseteq {"in", "out"} /\ options \subseteq {"dxva2", "d3d11"}
    /\ d \in Decoder /\ flags \in Flags /\ a \in Alloc
    /\ manager \in BOOLEAN /\ gone \in BOOLEAN /\ size \in Sizes /\ pic \in Sizes
    /\ pc \in {"Idle", "Loop", "Decommit", "Commit", "Decode"}
    /\ lib \in {"none", "live", "stale"} /\ data \in BOOLEAN
    /\ info \in {"none", "current", "old"} /\ shown \in BOOLEAN /\ failed \in BOOLEAN
    /\ why \in {"none", "new", "lost", "held", "failed", "deleted", "fellBack"}

Init ==
    /\ state = "Stopped" /\ graph = "Idle" /\ pins = {} /\ options = {}
    /\ d = New("none") /\ a = NoAlloc /\ manager = FALSE /\ gone = FALSE
    /\ flags = [connect |-> FALSE, output |-> FALSE, reinit |-> FALSE, force |-> FALSE]
    /\ size = 1 /\ pic = 1 /\ why = "none"
    /\ pc = "Idle" /\ lib = "none" /\ data = FALSE /\ info = "none"
    /\ shown = FALSE /\ failed = FALSE

-----------------------------------------------------------------------------
(* The allocator of the DXVA2 surfaces, as SampleAllocator describes it.   *)

(* A decommit that waits for samples is complete when none is out.         *)
Completes(al) == al.pending /\ ~al.held /\ ~al.kept
Settled(al) ==
    IF Completes(al) THEN [al EXCEPT !.pending = FALSE, !.size = 0] ELSE al

(* The surfaces a video decoder was made with go when they are freed.      *)
Outdated(dec, al) ==
    IF al.size = 0 /\ dec.vd = "current" /\ dec.kind = "dxva2" THEN [dec EXCEPT !.vd = "old"] ELSE dec

Decommitted(al) ==
    IF al.committed
    THEN Settled([al EXCEPT !.committed = FALSE, !.pending = TRUE])
    ELSE al

(* CloseDecoder (called through ResetDecoding too, which keeps vd): the    *)
(* decoder lets go of the samples it keeps.                                *)
LetGo(al)  == Settled([al EXCEPT !.kept = FALSE])
Closed(dec) == [dec EXCEPT !.vd = "none", !.lost = FALSE]

(* Commit: a pending decommit is cancelled and nothing allocated; else new *)
(* surfaces of the size of m_Dimensions, which OnDXVA2SurfaceCreated gives *)
(* to the decoder. On a failure there it deletes the decoder.              *)
Cancel ==
    /\ a.pending
    /\ a' = [a EXCEPT !.committed = TRUE, !.pending = FALSE]
    /\ UNCHANGED <<d, flags, why>>

SurfacesCreated(al) ==
    \/ /\ d.kind # "dxva2"
       /\ a' = al /\ UNCHANGED <<d, flags, why>>
    \/ /\ d.kind = "dxva2" /\ d.svc /\ ~gone
       /\ a' = LetGo(al) /\ d' = [Closed(d) EXCEPT !.vd = "current"]
       /\ why' = "none" /\ UNCHANGED flags
    \/ /\ d.kind = "dxva2"
       /\ a' = LetGo(al) /\ d' = New("none")
       /\ flags' = [flags EXCEPT !.connect = FALSE] /\ why' = "deleted"

Allocate ==
    /\ ~a.pending /\ manager /\ ~gone
    /\ SurfacesCreated([a EXCEPT !.committed = TRUE, !.size = size])

(* GetVideoService, CreateSurface or a sample fails.                       *)
AllocateFails ==
    /\ ~a.pending
    /\ a' = [a EXCEPT !.size = 0]

-----------------------------------------------------------------------------
(* InitDecode: restart the library, and keep, repair or replace the        *)
(* decoder.                                                                *)

Replacement == IF "d3d11" \in options /\ ~flags.force THEN "d3d11" ELSE "software"

\* Fault: the decoder is kept whatever the output takes.
InitDXVA2Keeps ==
    /\ d.kind = "dxva2"
    /\ a' = LetGo(a) /\ d' = Outdated(d, a')
    /\ flags' = [flags EXCEPT !.reinit = FALSE]
    /\ UNCHANGED <<gone, why>>

\* Fault: CloseDecoder is called where ResetDecoding would do.
InitDXVA2Closes ==
    /\ d.kind = "dxva2" /\ flags.output
    /\ a' = LetGo(a) /\ d' = Closed(d)
    /\ flags' = [flags EXCEPT !.reinit = FALSE]
    /\ UNCHANGED <<gone, why>>

(* A DXVA2 decoder is kept when the output takes its surfaces, else it is  *)
(* given up for whatever decoder comes next.                               *)
InitDXVA2 ==
    /\ d.kind = "dxva2"
    /\ IF flags.output
       THEN /\ a' = LetGo(a) /\ d' = Outdated(d, a')
            /\ flags' = [flags EXCEPT !.reinit = FALSE]
            /\ UNCHANGED <<gone, why>>
       ELSE /\ a' = LetGo(a) /\ d' = New(Replacement)
            /\ flags' = [flags EXCEPT !.connect = FALSE, !.reinit = FALSE]
            /\ why' = "fellBack" /\ UNCHANGED gone

(* A Direct3D 11 decoder gets a new device if it has none or lost it, and  *)
(* a video decoder if it has none; if either fails the filter decodes in   *)
(* software from now on.                                                   *)
InitD3D11 ==
    /\ d.kind = "d3d11"
    /\ flags' \in {[flags EXCEPT !.reinit = FALSE], [flags EXCEPT !.reinit = FALSE, !.force = TRUE]}
    /\ LET keepsDevice == d.svc /\ ~flags.reinit
           keeps       == keepsDevice /\ d.vd # "none"
       IN IF flags'.force # flags.force
          THEN ~keeps /\ d' = New("software") /\ gone' = FALSE /\ UNCHANGED why
          ELSE IF keeps THEN UNCHANGED <<d, gone, why>>
          ELSE /\ keepsDevice => ~gone
               /\ d' = [New("d3d11") EXCEPT !.svc = TRUE, !.vd = "current"]
               /\ gone' = FALSE /\ why' = "none"
    /\ UNCHANGED a

InitOther ==
    /\ d.kind \in {"none", "software"}
    /\ IF d.kind = "none" THEN d' = New(Replacement) /\ why' = "fellBack"
                          ELSE UNCHANGED <<d, why>>
    /\ flags' = [flags EXCEPT !.reinit = FALSE]
    /\ UNCHANGED <<a, gone>>

InitDecode == (InitDXVA2 \/ InitD3D11 \/ InitOther) /\ UNCHANGED <<manager, size>>

-----------------------------------------------------------------------------
(* The application and the graph.                                          *)

SetOptions(o) ==
    /\ options' = o
    /\ UNCHANGED <<state, graph, pins, filterVars, streamVars>>

Stopped == state = "Stopped" /\ graph = "Idle"

ConnectInput(s) ==
    /\ Stopped /\ "in" \notin pins
    /\ pins' = pins \cup {"in"} /\ size' = s
    /\ UNCHANGED <<state, graph, options, d, flags, manager, a, gone, why, streamVars>>

(* CompleteConnect on the output pin makes the decoder object, then        *)
(* ConfigureDXVA2 asks the renderer for its device, and DecideAllocator    *)
(* takes the renderer's allocator or, for DXVA2, the filter's own.         *)
Configured(opened, service) ==
    /\ flags' = [flags EXCEPT !.connect = service, !.output = opened]
    /\ manager' = opened
    /\ d' = IF service THEN [New("dxva2") EXCEPT !.svc = opened] ELSE New("none")
    /\ why' = IF service THEN "new" ELSE "deleted"

ConnectOutput(ownAllocator) ==
    /\ Stopped /\ pins = {"in"}
    /\ pins' = {"in", "out"} /\ gone' = FALSE
    /\ IF "dxva2" \in options
       THEN \E opened, service \in BOOLEAN : Configured(opened, service)
       ELSE /\ flags' = [flags EXCEPT !.connect = FALSE, !.output = FALSE]
            /\ manager' = FALSE
            /\ d' = New(Replacement) /\ why' = "new"
    /\ a' = IF flags'.output /\ ownAllocator
            THEN [NoAlloc EXCEPT !.owner = "pin"] ELSE LetGo(a)
    /\ UNCHANGED <<state, graph, options, size, streamVars>>

DisconnectOutput ==
    /\ Stopped /\ "out" \in pins
    /\ pins' = pins \ {"out"}
    /\ a' = IF a.owner = "pin" THEN [Decommitted(a) EXCEPT !.owner = "stale"] ELSE a
    /\ d' = Outdated(d, a')
    /\ UNCHANGED <<state, graph, options, flags, manager, gone, size, why, streamVars>>

(* BreakConnect on the input pin deletes the decoder, with no lock.        *)
DisconnectInput ==
    /\ Stopped /\ "in" \in pins
    /\ pins' = pins \ {"in"}
    /\ d' = New("none") /\ a' = LetGo(a)
    /\ UNCHANGED <<state, graph, options, flags, manager, gone, size, why, streamVars>>

(* Pause: StartStreaming under m_csReceive, and with the lock released the *)
(* pins are activated; if the allocator cannot be committed the filter     *)
(* stays stopped.                                                          *)
Connected == pins = {"in", "out"}

StartStreaming ==
    /\ Stopped /\ Connected /\ pc = "Idle"
    /\ InitDecode
    /\ graph' = "Activate" /\ lib' = "none" /\ info' = "none"
    /\ UNCHANGED <<state, pins, options, pc, data, shown, pic, failed>>

Activate ==
    /\ graph = "Activate" /\ graph' = "Idle"
    /\ \/ /\ IF a.owner = "pin" THEN Cancel \/ Allocate ELSE UNCHANGED <<a, d, flags, why>>
          /\ state' = "Active" /\ failed' = FALSE
       \/ /\ a.owner = "pin" /\ AllocateFails
          /\ UNCHANGED <<d, flags, why, state, failed>>
    /\ UNCHANGED <<pins, options, manager, gone, size, pc, lib, data, info, shown, pic>>

(* Without both pins a filter is paused and stopped, and nothing else.     *)
PauseUnconnected ==
    /\ Stopped /\ ~Connected
    /\ state' = "Active"
    /\ UNCHANGED <<graph, pins, options, filterVars, streamVars>>

\* Fault: Stop does not wait for Transform.
StopAtOnce ==
    /\ state = "Active" /\ state' = "Stopped"
    /\ a' = IF Connected /\ a.owner = "pin" THEN Decommitted(a) ELSE a
    /\ d' = Outdated(d, a')
    /\ UNCHANGED <<graph, pins, options, flags, manager, gone, size, why, streamVars>>

(* Stop waits for m_csReceive, then decommits the allocator of the pin.    *)
Stop ==
    /\ state = "Active" /\ (Connected => pc = "Idle")
    /\ state' = "Stopped"
    /\ a' = IF Connected /\ a.owner = "pin" THEN Decommitted(a) ELSE a
    /\ d' = Outdated(d, a')
    /\ UNCHANGED <<graph, pins, options, flags, manager, gone, size, why, streamVars>>

-----------------------------------------------------------------------------
(* The renderer and the device.                                            *)

RendererReturns ==
    /\ a.held
    /\ a' = Settled([a EXCEPT !.held = FALSE])
    /\ d' = Outdated(d, a')
    /\ UNCHANGED <<graphVars, flags, manager, gone, size, why, streamVars>>

DeviceGoes ==
    /\ ~gone /\ (manager \/ (d.kind = "d3d11" /\ d.svc))
    /\ gone' = TRUE
    /\ UNCHANGED <<graphVars, d, flags, manager, a, size, why, streamVars>>

-----------------------------------------------------------------------------
(* The streaming thread: Receive and the loop of Transform.                *)

Streaming == state = "Active" /\ Connected

Receive(discontinuity) ==
    /\ Streaming /\ pc = "Idle" /\ (failed => discontinuity)
    /\ IF d.kind = "none" \/ flags.reinit \/ discontinuity
       THEN InitDecode /\ lib' = "none"
       ELSE /\ lib' = IF lib = "none" THEN "none" ELSE "stale"
            /\ UNCHANGED filterVars
    /\ pc' = "Loop" /\ data' = TRUE /\ info' = "current"
    /\ UNCHANGED <<graphVars, shown, pic, failed>>

Return(ok) == pc' = "Idle" /\ failed' = ~ok

(* STATE_BUFFER: the library has read its input; it is given the sample,   *)
(* or the sample is done.                                                  *)
ParseBuffer ==
    /\ pc = "Loop"
    /\ IF data THEN lib' = "live" /\ data' = FALSE /\ UNCHANGED <<pc, failed>>
               ELSE lib' = "none" /\ Return(TRUE) /\ UNCHANGED data
    /\ UNCHANGED <<graphVars, filterVars, info, shown, pic>>

Unit == pc = "Loop" /\ lib # "none"

ParseSequence(s) ==
    /\ Unit
    /\ pic' = s
    /\ UNCHANGED <<graphVars, filterVars, pc, lib, data, info, shown, failed>>

(* STATE_SLICE_1ST: the hardware decoders submit the first field in Parse, *)
(* and the result is dropped.                                              *)
ParseFirstField ==
    /\ Unit /\ d.kind \in {"dxva2", "d3d11"} /\ d.vd # "none"
    /\ d' = [d EXCEPT !.lost = @ \/ gone]
    /\ a' = [a EXCEPT !.kept = @ \/ (d.kind = "dxva2" /\ a.owner = "pin" /\ a.committed /\ ~gone)]
    /\ why' = IF gone THEN "lost" ELSE why
    /\ UNCHANGED <<graphVars, flags, manager, gone, size, streamVars>>

(* STATE_INVALID: InitDecode in the loop; pInfo is not read again.         *)
ParseInvalid ==
    /\ Unit
    /\ InitDecode
    /\ lib' = "none" /\ info' = "old"
    /\ UNCHANGED <<graphVars, pc, data, shown, pic, failed>>

(* ReconnectOutput takes the size of a frame over, and with DXVA2 at the   *)
(* output reallocates surfaces that are too small. It does nothing when    *)
(* neither the size nor anything else (r) has changed.                     *)
Reconnects(r) == pic # size \/ r
TooSmall == a.owner # "none" /\ size' > a.size

(* STATE_SLICE and STATE_END with a DXVA2 decoder: a picture to show has   *)
(* the output reconnected first.                                           *)
SliceDXVA2(s, r) ==
    /\ Unit /\ d.kind = "dxva2" /\ ~d.lost
    /\ IF ~flags.output THEN Return(FALSE) /\ UNCHANGED <<size, shown>>
       ELSE /\ shown' = s
            /\ size' = IF s THEN pic ELSE size
            /\ pc' = IF s /\ Reconnects(r) /\ flags.connect /\ TooSmall THEN "Decommit" ELSE "Decode"
            /\ UNCHANGED failed
    /\ UNCHANGED <<graphVars, d, flags, manager, a, gone, why, lib, data, info, pic>>

(* RecommitAllocator: close the decoder and decommit; flush the renderer,  *)
(* which may return what it holds; commit, if the device is still there.   *)
RecommitDecommit ==
    /\ pc = "Decommit"
    /\ d' = Closed(d) /\ a' = Decommitted(LetGo(a))
    /\ pc' = "Commit"
    /\ UNCHANGED <<graphVars, flags, manager, gone, size, why, lib, data, info, shown, pic, failed>>

RecommitCommit ==
    /\ pc = "Commit" /\ pc' = "Decode"
    /\ \/ manager /\ a.pending
          /\ a' = [a EXCEPT !.committed = TRUE, !.pending = FALSE]
          /\ why' = "held" /\ UNCHANGED <<d, flags>>
       \/ Allocate
       \/ manager /\ AllocateFails /\ why' = "failed" /\ UNCHANGED <<d, flags>>
       \/ ~manager /\ UNCHANGED <<a, d, flags, why>>
    /\ UNCHANGED <<graphVars, manager, gone, size, lib, data, info, shown, pic, failed>>

(* DecodeFrame of the DXVA2 decoder, and the delivery of what it returns.  *)
DecodeNothing ==
    /\ pc = "Decode" /\ d.kind = "dxva2"
    /\ pc' = "Loop" /\ shown' = FALSE
    /\ UNCHANGED <<graphVars, filterVars, lib, data, info, pic, failed>>

DecodeLoss ==
    /\ pc = "Decode" /\ d.kind = "dxva2" /\ d.vd # "none" /\ gone
    /\ d' = New("dxva2") /\ a' = LetGo(a) /\ manager' = FALSE /\ why' = "lost"
    /\ pc' = "Loop" /\ shown' = FALSE
    /\ UNCHANGED <<graphVars, flags, gone, size, lib, data, info, pic, failed>>

DecodeFrame(delivered) ==
    /\ pc = "Decode" /\ d.kind = "dxva2" /\ d.vd # "none" /\ ~gone
    /\ a.owner = "pin" /\ a.committed
    /\ \E held \in BOOLEAN : a' = [a EXCEPT !.kept = TRUE, !.held = @ \/ (held /\ delivered)]
    /\ shown' = FALSE
    /\ IF delivered THEN pc' = "Loop" /\ UNCHANGED failed ELSE Return(FALSE)
    /\ UNCHANGED <<graphVars, d, flags, manager, gone, size, why, lib, data, info, pic>>

(* RecommitAllocator when the decoder does not use the surfaces. Flushed,  *)
(* the renderer may return what it holds.                                  *)
Reallocated ==
    UNION {IF ~manager THEN {b}
           ELSE IF b.pending THEN {[b EXCEPT !.committed = TRUE, !.pending = FALSE]}
           ELSE {[b EXCEPT !.size = 0]}
                \cup (IF gone THEN {} ELSE {[b EXCEPT !.committed = TRUE, !.size = pic]}) :
           b \in {Decommitted(a), Settled([Decommitted(a) EXCEPT !.held = FALSE])}}

(* DeliverFrame: the frame is copied into a sample of the output, which    *)
(* the renderer may keep. The output may still be connected for DXVA2, if  *)
(* the decoder was deleted since and InitDecode made another.              *)
DeliverCopy(r, ok) ==
    /\ size' \in IF ok \/ flags.connect THEN {pic} ELSE {size, pic}
    /\ \E al \in IF Reconnects(r) /\ flags.connect /\ TooSmall THEN Reallocated ELSE {a} :
          /\ ok /\ al.owner = "pin" => al.committed
          /\ a' \in {al} \cup (IF ok /\ al.owner = "pin" THEN {[al EXCEPT !.held = TRUE]} ELSE {})
    /\ IF ok THEN UNCHANGED <<pc, failed>> ELSE Return(FALSE)

\* Fault: the loss is left to the decoder.
SliceD3D11Ignores(s, r, ok) ==
    /\ Unit /\ d.kind = "d3d11"
    /\ IF d.vd # "none" /\ (gone \/ d.lost)
       THEN d' = [d EXCEPT !.lost = TRUE] /\ why' = "lost" /\ UNCHANGED <<flags, pc, failed, size, a>>
       ELSE /\ UNCHANGED <<d, flags, why>>
            /\ IF s /\ d.vd # "none" THEN DeliverCopy(r, ok) ELSE UNCHANGED <<pc, failed, size, a>>
    /\ UNCHANGED <<graphVars, manager, gone, lib, data, info, shown, pic>>

(* The same states with a Direct3D 11 decoder, which reports a lost device *)
(* so that the next sample restarts it, and in software.                   *)
SliceD3D11(s, r, ok) ==
    /\ Unit /\ d.kind = "d3d11"
    /\ IF d.vd # "none" /\ (gone \/ d.lost)
       THEN /\ d' = [d EXCEPT !.lost = TRUE] /\ why' = "lost"
            /\ flags' = [flags EXCEPT !.reinit = TRUE]
            /\ UNCHANGED <<pc, failed, size, a>>
       ELSE /\ UNCHANGED <<d, flags, why>>
            /\ IF s /\ d.vd # "none" THEN DeliverCopy(r, ok) ELSE UNCHANGED <<pc, failed, size, a>>
    /\ UNCHANGED <<graphVars, manager, gone, lib, data, info, shown, pic>>

SliceSoftware(s, r, ok) ==
    /\ Unit /\ d.kind = "software"
    /\ IF s THEN DeliverCopy(r, ok) ELSE UNCHANGED <<pc, failed, size, a>>
    /\ UNCHANGED <<graphVars, d, flags, manager, gone, why, lib, data, info, shown, pic>>

-----------------------------------------------------------------------------
Slices ==
    \E s, r \in BOOLEAN :
        SliceDXVA2(s, r) \/ \E ok \in BOOLEAN : SliceD3D11(s, r, ok) \/ SliceSoftware(s, r, ok)

Decode == RecommitDecommit \/ RecommitCommit \/ DecodeNothing \/ DecodeLoss
          \/ \E ok \in BOOLEAN : DecodeFrame(ok)

Next ==
    \/ \E o \in SUBSET {"dxva2", "d3d11"} : SetOptions(o)
    \/ \E s \in Sizes : ConnectInput(s) \/ ParseSequence(s)
    \/ \E own \in BOOLEAN : ConnectOutput(own)
    \/ DisconnectOutput \/ DisconnectInput
    \/ StartStreaming \/ Activate \/ PauseUnconnected \/ Stop
    \/ RendererReturns \/ DeviceGoes
    \/ \E disc \in BOOLEAN : Receive(disc)
    \/ ParseBuffer \/ ParseFirstField \/ ParseInvalid
    \/ Slices \/ Decode

(* A call of Transform ends, the source goes on sending samples, and they  *)
(* go on holding pictures.                                                 *)
Fairness ==
    /\ SF_vars(ParseBuffer) /\ WF_vars(Decode)
    /\ WF_vars(\E disc \in BOOLEAN : Receive(disc))
    /\ SF_vars(Slices)

Spec == Init /\ [][Next]_vars /\ Fairness

-----------------------------------------------------------------------------
(* Properties.                                                             *)

InTransform == pc # "Idle"

(* While Transform runs the decoder object it calls is there and the       *)
(* output pin stays connected, although nothing but the state of the       *)
(* filter keeps BreakConnect from deleting it. The one exception is the    *)
(* code's own: a surface callback in the middle of Transform that deletes  *)
(* the decoder because it could not be created for new surfaces.           *)
DecoderAlive ==
    InTransform => Streaming /\ (d.kind = "none" => why = "deleted" /\ pc = "Decode")

(* Whatever is decoded by DXVA2 goes to an output that takes surfaces: the *)
(* return of E_UNEXPECTED in the loop cannot happen, since every start of  *)
(* the filter has fallen back before.                                      *)
FallbackInTime == InTransform /\ d.kind = "dxva2" => flags.output

(* The library never reads bytes of a sample that was released, and no     *)
(* unit is parsed while pInfo points into the decoder that InitDecode      *)
(* closed: there is nothing left to parse then.                            *)
InfoCurrent == pc = "Loop" => lib # "stale" /\ (lib # "none" => info = "current")

(* Transform uses nothing that is gone: the decoder, the library's         *)
(* instance and its records, and the sample's bytes.                       *)
UsedAlive == TypeOK /\ DecoderAlive /\ InfoCurrent

(* A running DXVA2 decoder decodes into the surfaces its allocator hands   *)
(* out, not into those of an earlier allocation.                           *)
SurfacesMatch ==
    InTransform /\ d.kind = "dxva2" /\ a.owner = "pin" /\ d.vd # "none" => d.vd = "current"

(* When there is a picture to show, what is decoded fits the surfaces,     *)
(* though they are only looked at when something about the output changes: *)
(* either they were allocated anew or the decoder is closed.               *)
FitsWhenShown ==
    pc = "Decode" /\ shown /\ d.kind = "dxva2" /\ d.vd # "none" /\ a.owner # "none"
        => a.size >= size

(* DXVA2 decodes only into surfaces of the output that takes them, the     *)
(* current ones, which are large enough.                                   *)
DecodesForOutput == FallbackInTime /\ SurfacesMatch /\ FitsWhenShown

(* A hardware decoder that decodes nothing for the rest of the playback    *)
(* has one of these reasons and no other: its device was lost, its         *)
(* surfaces could not be replaced because a sample was out or the          *)
(* allocation failed, the renderer's own allocator is used, or InitDecode  *)
(* made a Direct3D 11 decoder, which has no device until the next restart. *)
SilentForAReason ==
    pc \in {"Loop", "Decode"} /\ d.kind \in {"dxva2", "d3d11"} /\ (d.vd = "none" \/ d.lost)
        => \/ why = "lost"
           \/ d.kind = "dxva2" /\ (why \in {"held", "failed"} \/ a.owner # "pin")
           \/ d.kind = "d3d11" /\ why = "fellBack"

(* A lost Direct3D 11 device is replaced, or the filter decodes in         *)
(* software, unless the filter is stopped or an error stops the source.    *)
LossIsRepaired ==
    d.kind = "d3d11" /\ d.lost
        ~> (d.kind = "d3d11" => ~d.lost) \/ ~Streaming \/ failed
=============================================================================
