---------------------------- MODULE PictureOrder ----------------------------
(***************************************************************************)
(* The header layer of libmpeg2 (header.c and the control of decode.c) and *)
(* the loop of CTVTestVideoDecoder::Transform that reads its results.      *)
(*                                                                         *)
(* A coded stream is a succession of start codes.  A header is processed   *)
(* when the start code after it is found.  Reference pictures (I, P) are   *)
(* shown one reference later than they are decoded, B pictures at once;    *)
(* the library juggles three frame buffers, fbuf, and two pairs of picture *)
(* records, pictures, to do so.                                            *)
(*                                                                         *)
(* The stream is a legal one, in which up to MaxDamage start codes are     *)
(* lost or headers spoilt.  A frame is its number in display order.        *)
(*                                                                         *)
(* The stream comes in media samples, which may begin anywhere in it and   *)
(* may have a time: that of the first picture that begins in the sample.   *)
(* Transform stores it with the first picture the library reports while it *)
(* is parsing the sample.                                                  *)
(***************************************************************************)
EXTENDS Integers, Sequences, SequencesExt

CONSTANTS
  Formats,      \* picture sizes
  MaxFrames,    \* bound: frames of the stream
  MaxB,         \* bound: B pictures between two references
  MaxDamage,    \* bound: units of the stream that are lost or spoilt
  MaxRestarts   \* bound: discontinuities of the input

ASSUME PictureAssumption ==
  /\ MaxFrames \in Nat
  /\ MaxB \in Nat
  /\ MaxDamage \in Nat
  /\ MaxRestarts \in Nat

NULL == -1
Frames == 1 .. MaxFrames
\* A time is named by the frame that is to be shown at it; 0 is INVALID_TIME.
Later == -1        \* the time of a picture that is still to come
HalfTime == -2     \* the time of a second field
Times == Frames \cup {0, Later, HalfTime}
CodingTypes == {"I", "P", "B"}
Sequences_ == [format : Formats, low_delay : BOOLEAN]
\* nb_fields is 1 for a field; 2 stands for any larger number.
Coded == [frame : Frames, type : CodingTypes, nb_fields : {1, 2}]
NoHeader == [none |-> 0]
Codes == {"none", "seq", "gop", "pic", "slice", "end"}
\* A unit of the stream: a start code and the header after it.
Units == ({"seq"} \X Sequences_) \cup ({"pic"} \X Coded) \cup ({"gop", "slice", "end"} \X {NoHeader})
States == {"SEQUENCE", "SEQUENCE_REPEATED", "SEQUENCE_MODIFIED", "GOP", "PICTURE", "SLICE_1ST",
           "PICTURE_2ND", "SLICE", "END", "INVALID", "INVALID_END"}

VARIABLES
  stream,          \* the sender of the stream
  damage,          \* units lost or spoilt so far
  restarts,        \* discontinuities so far
  rtStart,         \* the time of the input sample, as far as it is not used
  aligned,         \* history: the samples so far were as AlignedWith says
  code, header,    \* the last start code found, and what follows it
  action, state,   \* mpeg2dec_t: the next step of mpeg2_parse, the last state
  sequence,        \* NoHeader when its width is -1
  new_sequence,
  coding_type, picture, pictures, fbuf, first,
  skip,            \* nb_decode_slices is 0
  info,            \* mpeg2_info_t: what is to be displayed
  mem,             \* the frames decoded into each buffer of fbuf_alloc
  ret,             \* the value mpeg2_parse returned, "none" once it is handled
  m_fWaitForKeyFrame,
  m_PictureStatus, \* the time each picture record has
  rtStop,          \* m_FrameBuffer has a time to go on from
  shown,           \* the last frame handed to DeliverFrame
  held,            \* frames the library has reported, not yet shown or given up
  refs,            \* the last two references since the library was initialised
  blank            \* those of them that were skipped

streamVars == <<stream, damage, restarts, rtStart, aligned>>
libVars == <<code, header, action, state, sequence, new_sequence, coding_type, picture,
             pictures, fbuf, first, skip, info, mem>>
filterVars == <<m_fWaitForKeyFrame, m_PictureStatus, rtStop, shown>>
ghostVars == <<held, refs, blank>>
vars == <<streamVars, libVars, ret, filterVars, ghostVars>>

NoInfo == [display_picture |-> NULL, display_picture_2nd |-> NULL, display_fbuf |-> NULL]
NoPicture == [frame |-> 0, type |-> "I", nb_fields |-> 2, skip |-> FALSE]

TypeOK ==
  /\ damage \in 0 .. MaxDamage
  /\ restarts \in 0 .. MaxRestarts
  /\ rtStart \in Times /\ aligned \in BOOLEAN
  /\ code \in Codes
  /\ header \in Sequences_ \cup Coded \cup {NoHeader}
  /\ action \in {"seek_header", "parse_header", "slice_start", "slices", "seek_sequence",
                 "invalid_end"}
  /\ state \in States
  /\ sequence \in Sequences_ \cup {NoHeader}
  /\ new_sequence \in Sequences_ \cup {NoHeader}
  /\ coding_type \in CodingTypes
  /\ picture \in 0 .. 3
  /\ pictures \in [0 .. 3 -> [frame : Frames \cup {0}, type : CodingTypes, nb_fields : {1, 2},
                              skip : BOOLEAN]]
  /\ fbuf \in [0 .. 2 -> 0 .. 2]
  /\ first \in BOOLEAN /\ skip \in BOOLEAN
  /\ info \in [display_picture : NULL .. 3, display_picture_2nd : NULL .. 3,
               display_fbuf : NULL .. 2]
  /\ mem \in [0 .. 2 -> SUBSET Frames]
  /\ ret \in States \cup {"none"}
  /\ m_fWaitForKeyFrame \in BOOLEAN
  /\ m_PictureStatus \in [0 .. 3 -> Times]
  /\ rtStop \in BOOLEAN
  /\ shown \in Frames \cup {0}
  /\ held \in SUBSET Frames
  /\ refs \in BoundedSeq(Frames, 2)
  /\ blank \in SUBSET ToSet(refs)

-----------------------------------------------------------------------------
(* The stream: sequence_header { [gop] I-picture { picture } } [end].      *)
(* stream.bs B pictures are still to come, from frame nextB on, before the *)
(* next reference; second is the coded first field of a frame.             *)

InitStream ==
  stream = [last |-> "end", low_delay |-> FALSE, top |-> 0, bs |-> 0, nextB |-> 1,
            second |-> NoHeader]

\* A place where a sequence or GOP header, or the end, may be sent.
BetweenGroups == stream.bs = 0 /\ stream.second = NoHeader /\ stream.last \in {"slice", "end"}

PictureMayFollow == stream.last \in {"seq", "gop", "slice"}

SendSequence(h) ==
  /\ BetweenGroups
  /\ stream.top < MaxFrames
  /\ stream' = [stream EXCEPT !.last = "seq", !.low_delay = h.low_delay]

SendGop ==
  /\ \/ stream.last = "seq"
     \/ BetweenGroups /\ stream.last = "slice" /\ stream.top < MaxFrames
  /\ stream' = [stream EXCEPT !.last = "gop"]

AfterField(h) == IF h.nb_fields = 1 THEN h ELSE NoHeader

SendReference(h) ==
  /\ PictureMayFollow
  /\ stream.bs = 0 /\ stream.second = NoHeader
  /\ h.type \in (IF stream.last = "slice" THEN {"I", "P"} ELSE {"I"})
  /\ h.frame - stream.top - 1 \in 0 .. (IF stream.low_delay THEN 0 ELSE MaxB)
  /\ stream' = [stream EXCEPT !.last = "pic", !.bs = h.frame - stream.top - 1,
                              !.nextB = stream.top + 1, !.top = h.frame, !.second = AfterField(h)]

SendB(h) ==
  /\ PictureMayFollow
  /\ stream.bs > 0 /\ stream.second = NoHeader
  /\ h.type = "B" /\ h.frame = stream.nextB
  /\ stream' = [stream EXCEPT !.last = "pic", !.bs = @ - 1, !.nextB = @ + 1,
                              !.second = AfterField(h)]

SendSecondField(h) ==
  /\ PictureMayFollow
  /\ stream.second # NoHeader
  /\ h.frame = stream.second.frame /\ h.nb_fields = 1
  /\ h.type \in (IF stream.second.type = "I" THEN {"I", "P"} ELSE {stream.second.type})
  /\ stream' = [stream EXCEPT !.last = "pic", !.second = NoHeader]

SendSlice ==
  /\ stream.last \in {"pic", "slice"}
  /\ stream' = [stream EXCEPT !.last = "slice"]

SendEnd ==
  /\ BetweenGroups /\ stream.last = "slice"
  /\ stream' = [stream EXCEPT !.last = "end"]

Send(u) ==
  \/ u[1] = "seq" /\ SendSequence(u[2])
  \/ u[1] = "gop" /\ SendGop
  \/ u[1] = "pic" /\ (SendReference(u[2]) \/ SendB(u[2]) \/ SendSecondField(u[2]))
  \/ u[1] = "slice" /\ SendSlice
  \/ u[1] = "end" /\ SendEnd

\* The time a sample has when u is the first unit in it.
TimeFrom(u) ==
  IF u[1] # "pic" THEN Later ELSE IF stream.second = NoHeader THEN u[2].frame ELSE HalfTime

\* A unit begins in the sample of the unit before (it may be the picture whose
\* time the sample has), or in a new one, with a time or without.
Sampled(u) ==
  rtStart' \in {0, TimeFrom(u)} \cup (IF rtStart = Later THEN {} ELSE {rtStart})

\* A sample with a time begins at the headers of the frame whose time it has,
\* while the library is not waiting for the end of a picture header, and no
\* other frame begins in it before its time is used.
AlignedWith(u) ==
  \/ rtStart' = 0
  \/ rtStart' = rtStart /\ (u[1] = "pic" => stream.second # NoHeader)
  \/ rtStart = Later
  \/ /\ rtStart' = TimeFrom(u)
     /\ u[1] \in {"seq", "gop", "pic"} /\ stream.second = NoHeader /\ code # "pic"

\* The stream goes on with u.
Pass(u) ==
  /\ Send(u) /\ Sampled(u)
  /\ aligned' = (aligned /\ AlignedWith(u))

\* The next start code with its header is found in the input.
Find ==
  /\ \E u \in Units : Pass(u) /\ code' = u[1] /\ header' = u[2]
  /\ UNCHANGED restarts

\* A unit of the stream is lost.
LoseUnit ==
  /\ ret = "none"
  /\ damage < MaxDamage
  /\ damage' = damage + 1
  /\ \E u \in Units : Pass(u)
  /\ UNCHANGED <<restarts, libVars, ret, filterVars, ghostVars>>

\* The rest of a sample is lost when STATE_INVALID makes the filter start the
\* library again in the middle of it.
LoseRest ==
  /\ ret = "none"
  /\ damage > 0 /\ code = "none" /\ rtStart = 0
  /\ \E u \in Units : Send(u)
  /\ UNCHANGED <<damage, restarts, rtStart, aligned, libVars, ret, filterVars, ghostVars>>

-----------------------------------------------------------------------------
(* The library *)

\* mpeg2_header_state_init, after which the buffers are to be allocated.
HeaderStateInit ==
  /\ coding_type' = "I"
  /\ picture' = 0
  /\ fbuf' = [i \in 0 .. 2 |-> i]
  /\ first' = TRUE
  /\ skip' = FALSE
  /\ mem' = [i \in 0 .. 2 |-> {}]
  /\ held' = {} /\ refs' = <<>> /\ blank' = {}

\* mpeg2_seek_header takes up any header once the sequence is known, and
\* only a sequence header before.
Wanted == code = "seq" \/ (code \in {"end", "gop", "pic"} /\ sequence # NoHeader)

\* mpeg2_parse goes on after its result was handled, and has a header.
AtHeader(c) ==
  /\ ret = "none"
  /\ code = c
  /\ action = "parse_header" \/ (action = "seek_header" /\ Wanted)

\* mpeg2_seek_header skips what it does not want.
SeekHeader ==
  /\ ret = "none"
  /\ action = "seek_header" /\ ~Wanted
  /\ Find
  /\ UNCHANGED <<damage, action, state, sequence, new_sequence, coding_type, picture, pictures,
                 fbuf, first, skip, info, mem, ret, filterVars, ghostVars>>

\* STATE_INVALID: a header is bad, or the start code after it illegal.
ReturnInvalid ==
  /\ ret' = "INVALID"
  /\ action' = "seek_header"
  /\ UNCHANGED <<sequence, new_sequence, coding_type, picture, pictures, fbuf, first, skip, info,
                 mem, filterVars, ghostVars>>

\* A chunk outgrows the buffer, or process_header refuses it.
SpoiltHeader ==
  /\ \E c \in {"seq", "gop", "pic"} : AtHeader(c)
  /\ damage < MaxDamage
  /\ damage' = damage + 1
  /\ Find
  /\ ReturnInvalid
  /\ UNCHANGED state

\* Fault: the buffer of the last reference is taken by the coding type alone.
DisplayLastIgnoringB ==
  info' = [display_picture |-> IF picture >= 2 THEN 2 ELSE 0,
           display_picture_2nd |-> NULL,
           display_fbuf |-> fbuf[0]]

\* mpeg2_header_end shows the last reference, which is still held back.
DisplayLast ==
  LET b_type == coding_type = "B"
      slot == IF (picture >= 2) # b_type THEN 2 ELSE 0
  IN  info' = IF sequence.low_delay THEN NoInfo
              ELSE [display_picture |-> slot,
                    display_picture_2nd |-> IF pictures[slot].nb_fields = 1 THEN slot + 1 ELSE NULL,
                    display_fbuf |-> fbuf[IF b_type THEN 1 ELSE 0]]

HeaderEnd ==
  /\ AtHeader("end") /\ action = "seek_header"
  /\ DisplayLast
  /\ action' = "seek_sequence"
  /\ ret' = "END"
  /\ UNCHANGED <<streamVars, code, header, state, sequence, new_sequence, coding_type, picture,
                 pictures, fbuf, first, skip, mem, filterVars, ghostVars>>

SeekSequence ==
  /\ ret = "none"
  /\ action = "seek_sequence"
  /\ HeaderStateInit
  /\ sequence' = NoHeader
  /\ info' = NoInfo
  /\ action' = "seek_header"
  /\ UNCHANGED <<streamVars, code, header, state, new_sequence, pictures, ret, filterVars>>

\* mpeg2_header_sequence, and mpeg2_header_sequence_finalize when a picture
\* or a GOP follows.
SequenceHeader ==
  /\ AtHeader("seq")
  /\ Find
  /\ UNCHANGED damage
  /\ \/ /\ code' \in {"pic", "gop"}
        /\ new_sequence' = header
        /\ IF sequence # NoHeader /\ header # sequence
           THEN /\ DisplayLast
                /\ action' = "invalid_end"
                /\ state' = "INVALID_END"
                /\ UNCHANGED sequence
           ELSE /\ sequence' = header
                /\ info' = NoInfo
                /\ action' = "parse_header"
                /\ \/ sequence = NoHeader /\ state' = "SEQUENCE"
                   \/ sequence # NoHeader /\ state' \in {"SEQUENCE_REPEATED", "SEQUENCE_MODIFIED"}
        /\ ret' = state'
        /\ UNCHANGED <<coding_type, picture, pictures, fbuf, first, skip, mem, filterVars, ghostVars>>
     \/ code' \notin {"pic", "gop"} /\ state' = "SEQUENCE" /\ ReturnInvalid

\* invalid_end_action: start again with the new sequence.
InvalidEndAction ==
  /\ ret = "none"
  /\ action = "invalid_end"
  /\ info' = NoInfo
  /\ HeaderStateInit
  /\ sequence' = new_sequence
  /\ action' = "seek_header"
  /\ state' = "SEQUENCE"
  /\ ret' = "SEQUENCE"
  /\ UNCHANGED <<streamVars, code, header, new_sequence, pictures, filterVars>>

GopHeader ==
  /\ AtHeader("gop")
  /\ Find
  /\ UNCHANGED damage
  /\ state' = "GOP"
  /\ \/ /\ code' = "pic"
        /\ action' = "parse_header"
        /\ info' = NoInfo
        /\ ret' = "GOP"
        /\ UNCHANGED <<sequence, new_sequence, coding_type, picture, pictures, fbuf, first, skip,
                       mem, filterVars, ghostVars>>
     \/ code' # "pic" /\ ReturnInvalid

\* Fault: the two pairs of records take turns at every picture.
SlotInTurn == IF picture < 2 THEN 2 ELSE 0

\* The pair of records of a new picture: that of the last picture if it was
\* a B, else the other one.
Slot == IF (coding_type = "B") # (picture < 2) THEN 2 ELSE 0

\* The references move on when the last picture was one.
References == IF coding_type = "B" THEN fbuf ELSE [fbuf EXCEPT ![2] = fbuf[1], ![1] = fbuf[0]]

\* Fault: the older reference is not spared.
SetFbufOverOlder(f) == CHOOSE i \in 0 .. 2 : i # f[1] /\ \A j \in 0 .. 2 : j # f[1] => i <= j

\* mpeg2_set_fbuf: the first buffer that is neither reference.
SetFbuf(f) ==
  CHOOSE i \in 0 .. 2 :
    /\ i \notin {f[1], f[2]}
    /\ \A j \in 0 .. 2 : j \notin {f[1], f[2]} => i <= j

\* What is displayed with a new picture: itself when it is a B or the delay
\* is low, else the last reference, if there is one.
DisplayOf(type, slot, f) ==
  IF type = "B" \/ sequence.low_delay
  THEN [display_picture |-> slot, display_picture_2nd |-> NULL, display_fbuf |-> f[0]]
  ELSE IF first THEN NoInfo
  ELSE [display_picture |-> 2 - slot,
        display_picture_2nd |-> IF pictures[2 - slot].nb_fields = 1 THEN 3 - slot ELSE NULL,
        display_fbuf |-> f[1]]

\* No reference has been held back yet.
StillFirst(type) == first /\ (type = "B" \/ sequence.low_delay)

Record(h) == [frame |-> h.frame, type |-> h.type, nb_fields |-> h.nb_fields, skip |-> FALSE]

\* mpeg2_header_picture_finalize for a frame or a first field.
FirstField ==
  LET f == [References EXCEPT ![0] = SetFbuf(References)]
  IN  /\ picture' = Slot
      /\ pictures' = [pictures EXCEPT ![Slot] = Record(header)]
      /\ fbuf' = f
      /\ info' = DisplayOf(header.type, Slot, f)
      /\ first' = StillFirst(header.type)
      /\ refs' = IF header.type = "B" THEN refs
                 ELSE IF refs = <<>> THEN <<header.frame>> ELSE <<header.frame, refs[1]>>
      /\ blank' = blank \cap ToSet(refs')

\* ... and for a second field.
SecondField ==
  /\ picture' = picture + 1
  /\ pictures' = [pictures EXCEPT ![picture + 1] = Record(header)]
  /\ info' = IF header.type = "B" \/ sequence.low_delay
             THEN [info EXCEPT !.display_picture_2nd = picture + 1] ELSE info
  /\ UNCHANGED <<fbuf, first, refs, blank>>

\* Fault: any field picture after another picture is a second field.
PictureStateByField ==
  IF header.nb_fields = 1 /\ state \in {"SLICE_1ST", "SLICE"} THEN "PICTURE_2ND" ELSE "PICTURE"

PictureState == IF state = "SLICE_1ST" THEN "PICTURE_2ND" ELSE "PICTURE"

\* mpeg2_header_picture, and mpeg2_header_picture_finalize when slices follow.
PictureHeader ==
  /\ AtHeader("pic")
  /\ Find
  /\ UNCHANGED damage
  /\ state' = PictureState
  /\ \/ /\ code' = "slice"
        /\ coding_type' = header.type
        /\ IF state' = "PICTURE" THEN FirstField ELSE SecondField
        /\ action' = "slice_start"
        /\ ret' = state'
        /\ UNCHANGED <<sequence, new_sequence, skip, mem, filterVars, held>>
     \/ code' # "slice" /\ ReturnInvalid

\* mpeg2_header_slice_start, and the decoding of the first slice.
SliceStart ==
  /\ ret = "none"
  /\ action = "slice_start"
  /\ state' = IF pictures[picture].nb_fields > 1 \/ state = "PICTURE_2ND" THEN "SLICE" ELSE "SLICE_1ST"
  /\ IF skip
     THEN pictures' = [pictures EXCEPT ![picture].skip = TRUE] /\ UNCHANGED mem
     ELSE /\ mem' = [mem EXCEPT ![fbuf[0]] =
                       {pictures[picture].frame} \cup (IF state = "PICTURE_2ND" THEN @ ELSE {})]
          /\ UNCHANGED pictures
  /\ action' = "slices"
  /\ UNCHANGED <<streamVars, code, header, sequence, new_sequence, coding_type, picture, fbuf,
                 first, skip, info, ret, filterVars, ghostVars>>

\* Fault: forward prediction is from the same buffer for all pictures.
ForwardOlder == fbuf[2]

\* The buffers mpeg2_init_fbuf sets up for prediction: the last reference is
\* forward for a P picture and backward for a B picture; the second field of a
\* reference is predicted from the first one too.
ForwardFbuf == IF coding_type = "B" THEN fbuf[2] ELSE fbuf[1]
BackwardFbuf == IF coding_type = "B" THEN fbuf[1] ELSE fbuf[0]
OtherFieldFbuf == IF picture \in {1, 3} /\ coding_type # "B" THEN fbuf[0] ELSE ForwardFbuf

\* The slices of the picture; what may follow them.
Slices ==
  /\ ret = "none"
  /\ action = "slices"
  /\ Find
  /\ \/ code' = "slice" /\ UNCHANGED <<action, ret>>
     \/ code' = "pic" /\ action' = "seek_header" /\ ret' = state
     \/ /\ code' \in {"seq", "gop", "end"}
        /\ action' = "seek_header"
        /\ ret' = IF state = "SLICE" THEN "SLICE" ELSE "INVALID"
  /\ UNCHANGED <<damage, state, sequence, new_sequence, coding_type, picture, pictures, fbuf,
                 first, skip, info, mem, filterVars, ghostVars>>

-----------------------------------------------------------------------------
(* CTVTestVideoDecoder *)

\* InitDecode: the library and the state of the filter start afresh, and the
\* rest of the sample before is not parsed.
InitDecode ==
  /\ code' = "none" /\ header' = NoHeader
  /\ action' = "seek_header" /\ state' = "INVALID"
  /\ HeaderStateInit
  /\ sequence' = NoHeader /\ new_sequence' = NoHeader
  /\ pictures' = [i \in 0 .. 3 |-> NoPicture]
  /\ info' = NoInfo
  /\ ret' = "none"
  /\ m_fWaitForKeyFrame' = TRUE
  /\ m_PictureStatus' = [i \in 0 .. 3 |-> 0]
  /\ rtStop' = FALSE
  /\ rtStart' = 0
  /\ UNCHANGED <<stream, damage, aligned, shown>>

\* mpeg2_parse needs more data: Transform returns.
NeedsData ==
  /\ ret = "none"
  /\ action \in {"seek_header", "parse_header", "slices"}
  /\ ~(AtHeader("end") /\ action = "seek_header")

\* The next input sample is a discontinuity.
Discontinuity ==
  /\ NeedsData
  /\ restarts < MaxRestarts
  /\ restarts' = restarts + 1
  /\ InitDecode

HandleInvalid ==
  /\ ret = "INVALID"
  /\ InitDecode
  /\ UNCHANGED restarts

\* Fault: a picture without a time leaves the record alone.
StampedIfValid(stamp) ==
  IF stamp = 0 THEN m_PictureStatus ELSE [m_PictureStatus EXCEPT ![picture] = stamp]

\* The record of the picture gets the time, or none.
Stamped(stamp) == [m_PictureStatus EXCEPT ![picture] = stamp]

\* STATE_PICTURE: the picture, whichever it is, gets the time of the input
\* sample, if it has one that is not used yet; it is skipped when it is preroll
\* or frames are dropped.
HandlePicture ==
  /\ ret = "PICTURE"
  /\ m_PictureStatus' = Stamped(rtStart) /\ rtStart' = 0
  /\ skip' \in BOOLEAN
  /\ held' = held \cup {pictures[picture].frame}
  /\ blank' = IF skip' THEN blank \cup ({pictures[picture].frame} \cap ToSet(refs)) ELSE blank
  /\ ret' = "none"
  /\ UNCHANGED <<stream, damage, restarts, aligned, code, header, action, state, sequence,
                 new_sequence, coding_type, picture, pictures, fbuf, first, info, mem,
                 m_fWaitForKeyFrame, rtStop, shown, refs>>

\* Whether the picture has a time: its own, or the end of the one before.
Timed(p) == m_PictureStatus[p] # 0 \/ rtStop

Waits(p) == m_fWaitForKeyFrame /\ pictures[p].type # "I"

Delivers(p) == ~pictures[p].skip /\ Timed(p) /\ ~Waits(p)

\* STATE_SLICE and STATE_END: show the picture the library displays.
HandleSlice ==
  /\ ret \in {"SLICE", "END"}
  /\ ret' = "none"
  /\ LET p == info.display_picture
     IN  \/ /\ p = NULL
            /\ UNCHANGED <<m_fWaitForKeyFrame, rtStop, shown, held>>
         \/ /\ p # NULL
            /\ m_fWaitForKeyFrame' = Waits(p)
            /\ rtStop' = Timed(p)
            /\ shown' = IF Delivers(p) THEN pictures[p].frame ELSE shown
            /\ held' = held \ {pictures[p].frame}
  /\ UNCHANGED <<streamVars, libVars, m_PictureStatus, refs, blank>>

\* The other states need nothing; STATE_INVALID_END is among them.
HandleOther ==
  /\ ret \in States \ {"PICTURE", "SLICE", "END", "INVALID"}
  /\ ret' = "none"
  /\ UNCHANGED <<streamVars, libVars, filterVars, ghostVars>>

-----------------------------------------------------------------------------
Init ==
  /\ InitStream
  /\ damage = 0 /\ restarts = 0 /\ rtStart = 0 /\ aligned = TRUE
  /\ code = "none" /\ header = NoHeader
  /\ action = "seek_header" /\ state = "INVALID"
  /\ sequence = NoHeader /\ new_sequence = NoHeader
  /\ coding_type = "I" /\ picture = 0
  /\ pictures = [i \in 0 .. 3 |-> NoPicture]
  /\ fbuf = [i \in 0 .. 2 |-> i]
  /\ first = TRUE /\ skip = FALSE
  /\ info = NoInfo
  /\ mem = [i \in 0 .. 2 |-> {}]
  /\ ret = "none"
  /\ m_fWaitForKeyFrame = TRUE
  /\ m_PictureStatus = [i \in 0 .. 3 |-> 0]
  /\ rtStop = FALSE
  /\ shown = 0
  /\ held = {} /\ refs = <<>> /\ blank = {}

Parse ==
  \/ SeekHeader \/ SpoiltHeader \/ HeaderEnd \/ SeekSequence
  \/ SequenceHeader \/ InvalidEndAction \/ GopHeader \/ PictureHeader
  \/ SliceStart \/ Slices

Transform == HandleInvalid \/ HandlePicture \/ HandleSlice \/ HandleOther \/ Discontinuity

Next == LoseUnit \/ LoseRest \/ Parse \/ Transform

Spec == Init /\ [][Next]_vars

\* Bound of the run: a stream that is damaged, interrupted or not aligned is
\* shorter by a frame and by one for each time, only one of these happens, and only
\* the first two frames may be coded as fields or give their time to a sample.
Faults == damage + restarts + (IF aligned THEN 0 ELSE 1)

Bounded ==
  /\ Faults > 0 => stream.top + Faults < MaxFrames
  /\ Faults \in {damage, restarts, 1}
  /\ stream.second = NoHeader \/ stream.second.frame <= 2
  /\ rtStart <= 2

-----------------------------------------------------------------------------
(* Properties *)

\* A frame about to be delivered.
AboutToDeliver ==
  /\ ret \in {"SLICE", "END"}
  /\ info.display_picture # NULL
  /\ Delivers(info.display_picture)

\* Frames are delivered in display order, each once, whatever is skipped,
\* restarted or joined together, as long as the stream is intact.
InOrder == damage = 0 /\ AboutToDeliver => shown < pictures[info.display_picture].frame

\* The picture record a frame is delivered with (its type, its flags) is the
\* record of the picture in the buffer, for both its fields.
RecordFitsBuffer ==
  damage = 0 /\ AboutToDeliver =>
    LET p == info.display_picture
        second == info.display_picture_2nd
    IN  /\ info.display_fbuf # NULL
        /\ mem[info.display_fbuf] = {pictures[p].frame}
        /\ pictures[p].nb_fields = 1 <=> second # NULL
        /\ second # NULL => pictures[second].frame = pictures[p].frame

\* As long as the samples are aligned a frame is delivered at its own time or
\* at none, whatever is lost, spoilt or interrupted: the time of a lost picture
\* goes to no other, and none is left in a record that is used again.
TimeFitsRecord ==
  aligned /\ AboutToDeliver =>
    LET p == info.display_picture
    IN  m_PictureStatus[p] \in {0, pictures[p].frame}

\* Even when the stream is damaged, no picture is decoded into the buffer of
\* a reference, and the two references are different buffers.
TargetNoReference == \A i, j \in 0 .. 2 : fbuf[i] = fbuf[j] => i = j

\* The buffer has the frame, unless this was skipped.
HasFrame(buffer, frame) == frame \in blank \/ mem[buffer] = {frame}

\* Of the two references a P picture is one itself: it is predicted from the
\* other, and its second field from the first field of the frame as well.
PredictsP ==
  /\ Len(refs) = 2 => HasFrame(ForwardFbuf, refs[2])
  /\ picture \in {1, 3} => HasFrame(OtherFieldFbuf, pictures[picture].frame)

\* A B picture lies between the last two references.
PredictsB ==
  /\ Len(refs) > 0 => HasFrame(BackwardFbuf, refs[1])
  /\ Len(refs) = 2 => HasFrame(ForwardFbuf, refs[2]) /\ HasFrame(OtherFieldFbuf, refs[2])

\* When the slices of a picture are decoded, each buffer it is predicted from
\* holds the frame that the sender predicted it from, unless that was skipped
\* or came before the last start of the library.
PredictedFromReferences ==
  damage = 0 /\ action = "slices" =>
    /\ coding_type = "P" => PredictsP
    /\ coding_type = "B" => PredictsB

\* The delay is one reference: apart from the picture being decoded only
\* the last reference is held back.
HeldBack == damage = 0 => held \subseteq {pictures[picture].frame} \cup ToSet(refs)

\* What leaves Transform is the stream's frames, in order, each as itself and
\* none later than it must be.
FramesInOrder == InOrder /\ RecordFitsBuffer /\ HeldBack

\* At the end of a sequence nothing is held back.
EndDrains == [][ret = "END" /\ damage = 0 /\ HandleSlice => held' = {}]_vars
=============================================================================
