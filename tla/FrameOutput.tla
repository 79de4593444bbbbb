---------------------------- MODULE FrameOutput ----------------------------
(***************************************************************************)
(* What happens to a decoded frame before it is a sample of the filter or  *)
(* a call of OnFrame: the detection of telecine material and the choice of *)
(* a deinterlacer (SetFrameStatus), the queue of the Direct3D 11 decoder,  *)
(* the deinterlacers with the frames Yadif keeps, and the wait for a key   *)
(* frame.                                                                  *)
(*                                                                         *)
(* Both users of CDeinterlacerSet are here: the filter with the software   *)
(* or the Direct3D 11 decoder (TVTestVideoDecoder.cpp) and the decoder     *)
(* object without a graph (VideoFrameDecoder.cpp).                         *)
(*                                                                         *)
(* A frame is its number in display order, its place in log; attributes    *)
(* travel with it.  Frame n lasts from 2n to 2n + 2.  The ring of delayed  *)
(* frames is the plain queue that FrameQueue shows it to be.               *)
(***************************************************************************)
EXTENDS Integers, Sequences, FiniteSets, FiniteSetsExt, SequencesExt

CONSTANTS
  Clients,      \* subset of {"software", "d3d11", "object"}
  Methods,      \* for each client, the deinterlacing methods that are set
  FlagSets,     \* for each client, the flags of its frames: sets of "repeat",
                \* "frame", "sequence" (the sequence is progressive)
  QueueSizes,   \* values of m_FrameQueueSize
  Window,       \* frames m_RecentFrameTypes remembers: 31
  FilmFrames,   \* film frames in it that start the telecine mode: 10
  ExitFrames,   \* frames without film that end it: 180
  MaxFrames,    \* bound for each client: frames displayed
  MaxChanges    \* bound for each client: changes of options or of the size,
                \* pictures skipped, and restarts

AllMethods == {"WEAVE", "BLEND", "BOB", "ELA", "YADIF", "YADIF_BOB"}
Yadifs == {"YADIF", "YADIF_BOB"}
Doubles == {"BOB", "ELA", "YADIF_BOB"}

ASSUME OutputAssumption ==
  /\ Clients \subseteq {"software", "d3d11", "object"}
  /\ \A c \in Clients : Methods[c] \subseteq AllMethods
  /\ \A c \in Clients : FlagSets[c] \subseteq SUBSET {"repeat", "frame", "sequence"}
  /\ QueueSizes \subseteq Nat
  /\ Window \in Nat \ {0}
  /\ FilmFrames \in 1 .. Window
  /\ ExitFrames \in Nat \ {0}
  /\ \A c \in Clients : MaxFrames[c] \in Nat /\ MaxChanges[c] \in Nat

VARIABLES
  client,
  open,                   \* the decoder of the object is open
  m_DeinterlaceMethod,
  adapt,                  \* m_fAdaptProgressive and m_fAdaptTelecine
  interlaced,             \* the output type of the filter is interlaced
  m_FrameQueueSize,
  m_FrameQueue,           \* frames waiting in the Direct3D 11 decoder
  m_fEnableWaitForKeyFrame, m_fWaitForKeyFrame,
  m_fFilm, m_fTelecineMode, m_RecentFrameTypes, m_LastFilmFrame, m_FrameCount,
  Flags, Deinterlace,     \* of m_FrameBuffer; the object reads no flags of an earlier frame
  m_Frames,               \* the frames each Yadif deinterlacer keeps
  log,                    \* the frames displayed, with what became of each
  passed,                 \* the frames given to a deinterlacer, in order
  sent,                   \* the samples delivered or captured, in order
  session,                \* restarts so far, also those of the object's deinterlacer alone
  stale,                  \* a deinterlacer was initialized with frames for it queued
  changes

filmVars == <<m_fFilm, m_fTelecineMode, m_RecentFrameTypes, m_LastFilmFrame, m_FrameCount>>
optionVars == <<m_DeinterlaceMethod, adapt, interlaced, m_FrameQueueSize,
                m_fEnableWaitForKeyFrame>>
outputVars == <<m_Frames, passed, sent>>
vars == <<client, open, m_FrameQueue, m_fWaitForKeyFrame, Flags, Deinterlace, log, session,
          stale, changes, filmVars, optionVars, outputVars>>

Frames == 1 .. MaxFrames[client]
NoTime == -1

TypeOK ==
  /\ client \in Clients /\ open \in BOOLEAN
  /\ m_DeinterlaceMethod \in Methods[client] \cup {"BLEND"} /\ Deinterlace \in AllMethods
  /\ adapt \in BOOLEAN /\ interlaced \in BOOLEAN
  /\ m_FrameQueueSize \in QueueSizes \cup {0} /\ m_FrameQueue \in Seq(Frames)
  /\ Len(m_FrameQueue) <= m_FrameQueueSize
  /\ m_fEnableWaitForKeyFrame \in BOOLEAN /\ m_fWaitForKeyFrame \in BOOLEAN
  /\ m_fFilm \in BOOLEAN /\ m_fTelecineMode \in BOOLEAN
  /\ m_RecentFrameTypes \in [1 .. Window -> BOOLEAN]
  /\ m_LastFilmFrame \in 0 .. MaxFrames[client] /\ m_FrameCount \in 0 .. MaxFrames[client]
  /\ Flags \in FlagSets[client] \cup {{}}
  /\ m_Frames \in [Yadifs -> Seq(Frames)] /\ \A m \in Yadifs : Len(m_Frames[m]) <= 3
  /\ Len(log) <= MaxFrames[client] /\ stale \in BOOLEAN
  /\ session \in 0 .. MaxChanges[client] /\ changes \in 0 .. MaxChanges[client]

NoFilmTypes == [i \in 1 .. Window |-> FALSE]
NoFrames == [m \in Yadifs |-> <<>>]

\* The filter after its first InitDecode; the object before its first Open.
Init ==
  /\ client \in Clients
  /\ open = (client # "object")
  /\ m_DeinterlaceMethod \in IF client = "object" THEN {"BLEND"} ELSE Methods[client]
  /\ adapt \in IF client = "object" THEN {FALSE} ELSE BOOLEAN
  /\ interlaced = FALSE
  /\ m_FrameQueueSize \in IF client = "d3d11" THEN QueueSizes ELSE {0}
  /\ m_FrameQueue = <<>>
  /\ m_fEnableWaitForKeyFrame = TRUE /\ m_fWaitForKeyFrame = TRUE
  /\ m_fFilm = FALSE /\ m_fTelecineMode = FALSE
  /\ m_RecentFrameTypes = NoFilmTypes
  /\ m_LastFilmFrame = 0 /\ m_FrameCount = 0
  /\ Flags = {} /\ Deinterlace = "WEAVE"
  /\ m_Frames = NoFrames
  /\ log = <<>> /\ passed = <<>> /\ sent = <<>>
  /\ session = 0 /\ stale = FALSE /\ changes = 0

-----------------------------------------------------------------------------
(* The deinterlacers *)

\* CDeinterlacer_Yadif keeps the last three frames it was given; it starts
\* again when the size changes.
History(kept, f) ==
  IF kept # <<>> /\ log'[kept[1]].size # log'[f].size THEN <<f>>
  ELSE IF Len(kept) < 3 THEN Append(kept, f) ELSE Append(Tail(kept), f)

\* Fault: without a neighbour on either side the first frame waits too.
StatusNeverSkip(history) ==
  IF Len(history) = 3 THEN "FRAME_OK" ELSE "FRAME_PENDING"

Status(history) ==
  CASE Len(history) = 1 -> "FRAME_SKIP"
    [] Len(history) = 2 -> "FRAME_PENDING"
    [] OTHER            -> "FRAME_OK"

\* GetFrame of the deinterlacer for method: its status, the frame it writes
\* to the destination and the frames it keeps.
GetFrame(method, kept, f) ==
  IF method \in Yadifs
  THEN LET history == History(kept, f)
       IN  [status |-> Status(history), frame |-> history[Min({2, Len(history)})],
            kept |-> history]
  ELSE [status |-> "FRAME_OK", frame |-> f, kept |-> kept]

\* The times in the attributes of a frame; the object sets none.
Times(f) == IF client = "object" THEN [start |-> NoTime, stop |-> NoTime]
                                 ELSE [start |-> 2 * f, stop |-> 2 * f + 2]

\* The first of two samples takes the first half of the time, the second
\* starts where the destination stops and ends where it did before.
FirstHalf(dst) ==
  IF dst.start >= 0 /\ dst.stop >= 0
  THEN [dst EXCEPT !.stop = (dst.start + dst.stop) \div 2] ELSE dst
SecondHalf(dst, rtStop) ==
  IF rtStop >= 0 THEN [start |-> dst.stop, stop |-> rtStop] ELSE dst

Sample(f, times) == [frame |-> f, start |-> times.start, stop |-> times.stop]

\* Fault: nothing is held back.
DeliverAlways(waits, samples) == samples

\* Deliver sends nothing while a key frame is waited for.
Deliver(waits, samples) == IF waits THEN <<>> ELSE samples

\* DeliverFrame of the filter and OutFrame of the object: frame f is given
\* to the deinterlacer, twice if that makes two frames of one, unless only
\* one is asked for because OnFrame failed.  What GetFrame skips is blended
\* instead; a frame that Yadif writes brings its attributes along.  frames is
\* what the deinterlacers have kept.
Output(f, method, frames, waits, one) ==
  LET got == GetFrame(method, IF method \in Yadifs THEN frames[method] ELSE <<>>, f)
      double == method \in Doubles
      shown == got.status # "FRAME_PENDING"
      written == IF got.status = "FRAME_OK" THEN got.frame ELSE f
      dst == IF shown /\ double THEN FirstHalf(Times(written)) ELSE Times(written)
      first == IF shown THEN <<Sample(written, dst)>> ELSE <<>>
      rtStop == IF shown THEN Times(written).stop ELSE NoTime
      again == GetFrame(method, got.kept, f)
      dst2 == IF method \in Yadifs THEN Times(again.frame) ELSE dst
      second == IF again.status = "FRAME_OK"
                THEN <<Sample(again.frame, SecondHalf(dst2, rtStop))>> ELSE <<>>
      both == double /\ ~one
  IN  /\ m_Frames' = [m \in Yadifs |-> IF m # method THEN frames[m]
                                       ELSE IF both THEN again.kept ELSE got.kept]
      /\ sent' = sent \o Deliver(waits, first \o (IF both THEN second ELSE <<>>))
      /\ passed' = Append(passed, f)

\* Fault: Initialize of the deinterlacer is forgotten.
KeepFrames(method) == m_Frames

\* Initialize of the deinterlacer for method: the frames are deleted.
Initialize(method) == [m \in Yadifs |-> IF m = method THEN <<>> ELSE m_Frames[m]]

-----------------------------------------------------------------------------
(* The filter *)

\* Fault: the window is shifted for film frames only.
ShiftForFilm(film) ==
  IF film THEN Append(Tail(m_RecentFrameTypes), film) ELSE m_RecentFrameTypes

\* A repeated field starts film, two frames without one end it.
Film(flags) ==
  IF "sequence" \in flags \/ "repeat" \in Flags THEN m_fFilm
  ELSE IF ~m_fFilm /\ {"repeat", "frame"} \subseteq flags THEN TRUE
  ELSE IF m_fFilm /\ "repeat" \notin flags THEN FALSE ELSE m_fFilm

\* m_RecentFrameTypes: shifted by one, the bit of the new frame set for film.
Recent(film) == Append(Tail(m_RecentFrameTypes), film)

\* The method for a frame, of m_DeinterlaceMethod and what was found out.
Choose(flags, film, telecine) ==
  IF interlaced \/ m_DeinterlaceMethod = "WEAVE" THEN "WEAVE"
  ELSE IF "sequence" \in flags /\ adapt THEN "WEAVE"
  ELSE IF telecine /\ adapt THEN (IF film THEN "WEAVE" ELSE "BLEND")
  ELSE m_DeinterlaceMethod

\* The part of SetFrameStatus before the choice of the method.
SetTelecineMode(flags) ==
  LET film == Film(flags)
      recent == Recent(film)
      last == IF film THEN m_FrameCount ELSE m_LastFilmFrame
      found == film /\ Cardinality({i \in 1 .. Window : recent[i]}) >= FilmFrames
  IN  /\ m_fFilm' = film
      /\ m_RecentFrameTypes' = recent
      /\ m_LastFilmFrame' = last
      /\ m_fTelecineMode' = \/ found
                            \/ m_fTelecineMode /\ m_FrameCount - last < ExitFrames
      /\ m_FrameCount' = m_FrameCount + 1

\* A frame is displayed with these attributes.
Record(flags, size, film, seen) ==
  log' = Append(log, [flags |-> flags, size |-> size, film |-> film,
                      method |-> Deinterlace', seen |-> seen, session |-> session])

\* Transform displays a frame: SetFrameStatus, the end of the wait for a key
\* frame, then DeliverFrame for the frame that is due, with the method it had
\* when it was displayed.  Neither decoder gives a picture that was skipped,
\* the Direct3D 11 decoder none before the key frame.
Display(flags, size, key, skip) ==
  LET frames == IF Deinterlace' # Deinterlace THEN Initialize(Deinterlace') ELSE m_Frames
      n == Len(log) + 1
      none == skip \/ (client = "d3d11" /\ m_fWaitForKeyFrame')
      queue == IF none THEN m_FrameQueue ELSE Append(m_FrameQueue, n)
      due == ~none /\ Len(queue) > m_FrameQueueSize
  IN  /\ client # "object"
      /\ n <= MaxFrames[client]
      /\ SetTelecineMode(flags)
      /\ Flags' = flags
      /\ Deinterlace' = Choose(flags, m_fFilm', m_fTelecineMode')
      /\ m_fWaitForKeyFrame' = (m_fWaitForKeyFrame /\ ~key)
      /\ Record(flags, size, m_fFilm', ~m_fWaitForKeyFrame')
      /\ m_FrameQueue' = IF due THEN Tail(queue) ELSE queue
      /\ IF due THEN Output(Head(queue), log'[Head(queue)].method, frames, m_fWaitForKeyFrame', FALSE)
                ELSE m_Frames' = frames /\ UNCHANGED <<passed, sent>>
      /\ stale' = \/ stale
                  \/ /\ Deinterlace' # Deinterlace
                     /\ \E f \in ToSet(m_FrameQueue) : log[f].method = Deinterlace'
      /\ UNCHANGED <<client, open, session, optionVars>>

\* InitDecode at a discontinuity or for STATE_INVALID.
InitDecode ==
  /\ client # "object"
  /\ m_FrameQueue' = <<>>
  /\ m_fWaitForKeyFrame' = TRUE
  /\ m_fTelecineMode' = FALSE /\ m_fFilm' = FALSE
  /\ m_RecentFrameTypes' = NoFilmTypes
  /\ m_LastFilmFrame' = 0 /\ m_FrameCount' = 0
  /\ Flags' = {} /\ Deinterlace' = "WEAVE"
  /\ m_Frames' = NoFrames
  /\ session' = session + 1
  /\ UNCHANGED <<client, open, log, passed, sent, stale, optionVars>>

\* EndFlush forgets what is queued, and nothing else.
EndFlush ==
  /\ client = "d3d11"
  /\ m_FrameQueue' = <<>>
  /\ UNCHANGED <<client, open, m_fWaitForKeyFrame, Flags, Deinterlace, log, session, stale,
                 filmVars, optionVars, outputVars>>

\* ReconnectOutput: the output type may become interlaced, or stop being it.
SetOutputType ==
  /\ client # "object"
  /\ interlaced' = ~interlaced
  /\ UNCHANGED <<client, open, m_FrameQueue, m_fWaitForKeyFrame, Flags, Deinterlace, log,
                 session, stale, filmVars, outputVars, m_DeinterlaceMethod, adapt,
                 m_FrameQueueSize, m_fEnableWaitForKeyFrame>>

-----------------------------------------------------------------------------
(* The decoder object *)

\* Open, also for STATE_INVALID: the deinterlacer in use starts again.
Open ==
  /\ client = "object"
  /\ open' = TRUE
  /\ m_fWaitForKeyFrame' = m_fEnableWaitForKeyFrame
  /\ Flags' = {} /\ Deinterlace' = m_DeinterlaceMethod
  /\ m_Frames' = Initialize(m_DeinterlaceMethod)
  /\ session' = session + 1
  /\ UNCHANGED <<client, m_FrameQueue, log, passed, sent, stale, filmVars, optionVars>>

Close ==
  /\ client = "object"
  /\ open
  /\ open' = FALSE
  /\ UNCHANGED <<client, m_FrameQueue, m_fWaitForKeyFrame, Flags, Deinterlace, log, session,
                 stale, filmVars, optionVars, outputVars>>

\* InputStream displays a frame: OutFrame, unless the picture was skipped or
\* a key frame is waited for.  When OnFrame fails, for the first field or the
\* second, the decoder is closed.
InputFrame(flags, size, key, skip) ==
  /\ client = "object"
  /\ open
  /\ Len(log) < MaxFrames[client]
  /\ UNCHANGED Deinterlace
  /\ m_fWaitForKeyFrame' = (m_fWaitForKeyFrame /\ ~key)
  /\ Record(flags, size, FALSE, ~m_fWaitForKeyFrame')
  /\ \/ /\ skip \/ m_fWaitForKeyFrame'
        /\ UNCHANGED <<open, outputVars>>
     \/ /\ ~skip /\ ~m_fWaitForKeyFrame'
        /\ open' \in BOOLEAN
        /\ \E one \in BOOLEAN :
             /\ Output(Len(log) + 1, Deinterlace, m_Frames, FALSE, one)
             /\ one => ~open'
        /\ ~open' => sent' # sent
  /\ UNCHANGED <<client, m_FrameQueue, Flags, session, stale, filmVars, optionVars>>

\* SetWaitForKeyFrame, for the next Open.
SetWaitForKeyFrame ==
  /\ client = "object"
  /\ m_fEnableWaitForKeyFrame' = ~m_fEnableWaitForKeyFrame
  /\ UNCHANGED <<client, open, m_FrameQueue, m_fWaitForKeyFrame, Flags, Deinterlace, log,
                 session, stale, filmVars, outputVars, m_DeinterlaceMethod, adapt, interlaced,
                 m_FrameQueueSize>>

\* SetDeinterlaceMethod of the object takes effect at once, that of the
\* filter with the next frame.  The object has a decoder once it was opened.
SetDeinterlaceMethod(method) ==
  /\ method # m_DeinterlaceMethod
  /\ m_DeinterlaceMethod' = method
  /\ IF client = "object" /\ session > 0
     THEN Deinterlace' = method /\ m_Frames' = Initialize(method) /\ session' = session + 1
     ELSE UNCHANGED <<Deinterlace, m_Frames, session>>
  /\ UNCHANGED <<client, open, m_FrameQueue, m_fWaitForKeyFrame, Flags, log, stale, filmVars,
                 passed, sent, adapt, interlaced, m_FrameQueueSize,
                 m_fEnableWaitForKeyFrame>>

-----------------------------------------------------------------------------
\* A key frame is an I picture; only the first after a restart matters.
Frame ==
  \E flags \in FlagSets[client], resized, key, skip \in BOOLEAN :
    /\ ~m_fWaitForKeyFrame => ~key
    /\ LET size == IF log = <<>> THEN 0 ELSE log[Len(log)].size + (IF resized THEN 1 ELSE 0)
       IN  Display(flags, size, key, skip) \/ InputFrame(flags, size, key, skip)
    /\ changes' = changes + Cardinality({b \in {1} : resized}) + Cardinality({b \in {1} : skip})
    /\ changes' <= MaxChanges[client]

Change ==
  /\ changes < MaxChanges[client]
  /\ changes' = changes + 1
  /\ \/ InitDecode \/ EndFlush \/ SetOutputType
     \/ Open \/ SetWaitForKeyFrame
     \/ \E method \in Methods[client] : SetDeinterlaceMethod(method)

Next == Frame \/ Change \/ (Close /\ UNCHANGED changes)

Spec == Init /\ [][Next]_vars

-----------------------------------------------------------------------------
(* Properties *)

InSession(n) == n \in DOMAIN log /\ log[n].session = session

\* SetFrameStatus stays in the telecine mode exactly as long as it should:
\* since some frame at which enough of the last Window frames were film, no
\* ExitFrames frames in a row were without film.
TelecineMode ==
  LET films(a, b) == {i \in a .. b : InSession(i) /\ log[i].film}
  IN  m_fTelecineMode =
        \E k \in films(1, Len(log)) :
          /\ Cardinality(films(k - Window + 1, k)) >= FilmFrames
          /\ \A j \in k .. Len(log) : films(j - ExitFrames + 1, j) # {}

\* What the two adaptations are for, from the flags of the stream to the
\* method chosen: in 3:2 pulldown every second frame repeats a field, and as
\* soon as there were enough such frames all are woven, those without a
\* repeated field too; when repeated fields have been gone for long enough,
\* the method of the options is back.  Both count one frame before: what it
\* repeats decides whether the first of them is film, and a repeated field
\* right after another one is not.
AdaptsToCadence ==
  LET repeats(n) == "repeat" \in log[n].flags
      last == Len(log)
      pulldown == /\ last > FilmFrames + 1
                  /\ \A n \in last - FilmFrames - 1 .. last :
                       /\ InSession(n) /\ "sequence" \notin log[n].flags
                       /\ repeats(n) => "frame" \in log[n].flags
                       /\ n >= last - FilmFrames => repeats(n) # repeats(n - 1)
      video == /\ last > ExitFrames + 1
               /\ \A n \in last - ExitFrames - 1 .. last :
                    InSession(n) /\ log[n].flags \cap {"repeat", "sequence"} = {}
  IN  client # "object" /\ log # <<>> =>
        /\ pulldown => m_fTelecineMode /\ m_fFilm
        /\ video => ~m_fTelecineMode /\ ~m_fFilm

\* The telecine mode, from the flags of the frames to the method chosen.
TelecineAdapts == TelecineMode /\ AdaptsToCadence

\* Yadif interpolates between neighbours: the frames it keeps were given to
\* deinterlacers one after the other, have one size, and no restart lies
\* between them; whatever methods came and went meanwhile.  It keeps three.
HistoryUnbroken ==
  /\ TypeOK
  /\ ~stale => \A m \in Yadifs : \A i \in 1 .. Len(m_Frames[m]) - 1 :
      LET f == m_Frames[m][i]
          g == m_Frames[m][i + 1]
      IN  /\ f <= g
          /\ \A n \in ToSet(passed) : ~(f < n /\ n < g)
          /\ log[f].size = log[g].size
          /\ log[f].session = log[g].session

\* A frame that waits in Yadif for its successor is sent as soon as that one
\* is given to a deinterlacer, unless the method, the size or the session
\* changed in between: no change costs more than one frame.
Shown == {sent[i].frame : i \in DOMAIN sent}
OnlyLastWithheld ==
  ~stale => \A i \in 1 .. Len(passed) - 1 :
    LET f == passed[i]
        g == passed[i + 1]
    IN  \/ f \in Shown
        \/ ~log[f].seen
        \/ log[f].session # log[g].session
        \/ \E n \in f + 1 .. g : log[n].method # log[f].method \/ log[n].size # log[f].size

\* Samples are sent, and OnFrame is called, in display order, whatever waits
\* in the queue and in Yadif, and no sample starts before the last one ends.
\* Yadif's two samples of a frame are the exception: it takes the second
\* field for a new frame, whose sample ends before it starts.
SamplesForward ==
  ~stale => \A i \in 1 .. Len(sent) - 1 :
    LET a == sent[i]
        b == sent[i + 1]
    IN  /\ a.frame <= b.frame
        /\ "YADIF_BOB" \notin {log[a.frame].method, log[b.frame].method} => a.stop <= b.start

\* Until the key frame nothing is shown; only the software decoder of the
\* filter lets one frame through that Yadif was keeping, the last before it.
KeyFrameFirst ==
  \A n \in Shown : log[n].seen
                   \/ /\ client = "software" /\ log[n].method \in Yadifs
                      /\ \A k \in ToSet(passed) :
                           k > n /\ log[k].session = log[n].session => log[k].seen

\* What leaves starts with a key frame and goes forward from there.
OutputForward == SamplesForward /\ KeyFrameFirst
=============================================================================
