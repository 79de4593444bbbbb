------------------------ MODULE HardwareSamples_proofs ------------------------
(***************************************************************************)
(* Proofs about PictureOrder and about HardwareSamples, which extends it.  *)
(*                                                                         *)
(* First the library alone, for every stream, damaged or not: the frame    *)
(* buffers, the display order, the references of predicted pictures and    *)
(* the end of the stream.  Then, with these, the hardware decoders: every  *)
(* sample has one owner, there is always one to decode into, the library   *)
(* runs as if it were alone, and references are kept.                      *)
(***************************************************************************)
EXTENDS HardwareSamples, FiniteSetTheorems, SequenceTheorems, WellFoundedInduction, TLAPS

-----------------------------------------------------------------------------
(* The frame buffers *)

FbufInv == fbuf \in [0 .. 2 -> 0 .. 2] /\ TargetNoReference

\* mpeg2_set_fbuf always finds one of the three buffers free.
LEMMA SetFbufFree ==
  ASSUME NEW f
  PROVE  SetFbuf(f) \in 0 .. 2 /\ SetFbuf(f) \notin {f[1], f[2]}
<1> DEFINE Free(i) == /\ i \notin {f[1], f[2]}
                      /\ \A j \in 0 .. 2 : j \notin {f[1], f[2]} => i <= j
<1>1. \E i \in 0 .. 2 : Free(i)
  <2>1. CASE 0 \notin {f[1], f[2]}
    BY <2>1
  <2>2. CASE 0 \in {f[1], f[2]} /\ 1 \notin {f[1], f[2]}
    <3>1. Free(1)
      BY <2>2
    <3> QED BY <3>1
  <2>3. CASE 0 \in {f[1], f[2]} /\ 1 \in {f[1], f[2]}
    <3>1. 2 \notin {f[1], f[2]}
      BY <2>3
    <3>2. Free(2)
      BY <2>3, <3>1
    <3> QED BY <3>2
  <2> QED BY <2>1, <2>2, <2>3
<1> QED BY <1>1 DEF SetFbuf

\* A new picture gets the free buffer, and keeps the buffers different.
LEMMA FirstFieldFbuf ==
  ASSUME FbufInv, FirstField
  PROVE  FbufInv'
<1> DEFINE g == References
<1>1. g \in [0 .. 2 -> 0 .. 2] /\ g[1] # g[2]
  BY DEF FbufInv, TargetNoReference, References
<1>2. SetFbuf(g) \in 0 .. 2 /\ SetFbuf(g) \notin {g[1], g[2]}
  BY SetFbufFree
<1>3. fbuf' = [g EXCEPT ![0] = SetFbuf(g)]
  BY DEF FirstField
<1> HIDE DEF g
<1> QED BY <1>1, <1>2, <1>3 DEF FbufInv, TargetNoReference

LEMMA FbufStep ==
  ASSUME FbufInv, [Next]_vars
  PROVE  FbufInv'
<1>1. CASE FirstField
  BY <1>1, FirstFieldFbuf
<1>2. CASE HeaderStateInit
  BY <1>2 DEF HeaderStateInit, FbufInv, TargetNoReference
<1>3. CASE UNCHANGED fbuf
  BY <1>3 DEF FbufInv, TargetNoReference
<1>4. LoseUnit \/ LoseRest => UNCHANGED fbuf
  BY DEF LoseUnit, LoseRest, libVars
<1>5. Parse => UNCHANGED fbuf \/ FirstField \/ HeaderStateInit
  BY DEF Parse, SeekHeader, SpoiltHeader, HeaderEnd, SeekSequence, SequenceHeader,
         InvalidEndAction, GopHeader, PictureHeader, SliceStart, Slices, ReturnInvalid, SecondField
<1>6. Transform => UNCHANGED fbuf \/ HeaderStateInit
  BY DEF Transform, HandleInvalid, HandlePicture, HandleSlice, HandleOther, Discontinuity,
         InitDecode, libVars
<1>7. UNCHANGED vars => UNCHANGED fbuf
  BY DEF vars, libVars
<1> QED BY <1>1, <1>2, <1>3, <1>4, <1>5, <1>6, <1>7 DEF Next

\* However damaged the stream, mpeg2_set_fbuf never hands out the buffer of
\* one of the two references for the next picture (header.c:529-545).
THEOREM TargetIsFree == Spec => []TargetNoReference
<1>1. Init => FbufInv
  BY DEF Init, FbufInv, TargetNoReference
<1>2. FbufInv /\ [Next]_vars => FbufInv'
  BY FbufStep
<1>3. FbufInv => TargetNoReference
  BY DEF FbufInv
<1> QED BY <1>1, <1>2, <1>3, PTL DEF Spec

-----------------------------------------------------------------------------
(* The records of the pictures *)

Pictures == [frame : Frames \cup {0}, type : CodingTypes, nb_fields : {1, 2}, skip : BOOLEAN]

Infos == [display_picture : {NULL, 0, 2}, display_picture_2nd : NULL .. 3, display_fbuf : NULL .. 2]

RecordType ==
  /\ fbuf \in [0 .. 2 -> 0 .. 2]
  /\ code = "pic" => header \in Coded
  /\ picture \in 0 .. 3
  /\ pictures \in [0 .. 3 -> Pictures]
  /\ info \in Infos

\* picture points to the first record of a pair until a second field has begun.
FirstOfPair ==
  /\ state = "SLICE_1ST" => picture \in {0, 2}
  /\ action = "slice_start" => state = "PICTURE_2ND" \/ (state = "PICTURE" /\ picture \in {0, 2})
  /\ action = "slices" => state # "PICTURE"
  /\ ret = "PICTURE" => picture \in {0, 2}

RecordInv == RecordType /\ FirstOfPair

LEMMA RecordInit == Init => RecordInv
BY DEF Init, RecordInv, RecordType, FirstOfPair, NoPicture, NoInfo, Pictures, Infos, NULL,
       CodingTypes

LEMMA FindHeader ==
  ASSUME Find
  PROVE  code' = "pic" => header' \in Coded
BY DEF Find, Pass, Send, Units

\* Actions that only move the parser on, or show something.
LEMMA RecordMove ==
  ASSUME RecordInv, ret # "PICTURE",
         fbuf' = fbuf,
         code' = "pic" => header' \in Coded,
         picture' = picture, pictures' = pictures,
         info' \in Infos,
         ret' # "PICTURE",
         state' = "SLICE_1ST" => state = "SLICE_1ST",
         action' \in {"slice_start", "slices"} => action' = action /\ state' = state
  PROVE  RecordInv'
BY DEF RecordInv, RecordType, FirstOfPair

\* header_state_init turns back to the first pair of records.
LEMMA RecordRestart ==
  ASSUME RecordInv, ret # "PICTURE", HeaderStateInit,
         code' = "pic" => header' \in Coded,
         pictures' = pictures, info' = NoInfo,
         ret' # "PICTURE",
         action' = "seek_header"
  PROVE  RecordInv'
BY DEF RecordInv, RecordType, FirstOfPair, HeaderStateInit, NoInfo, Infos, NULL

LEMMA RecordInitDecode ==
  ASSUME RecordInv, InitDecode
  PROVE  RecordInv'
BY DEF RecordInv, RecordType, FirstOfPair, InitDecode, HeaderStateInit, NoPicture, NoInfo,
       Pictures, Infos, NULL, CodingTypes

LEMMA DisplayLastInfo ==
  ASSUME RecordInv, DisplayLast
  PROVE  info' \in Infos
BY DEF RecordInv, RecordType, DisplayLast, Infos, NoInfo, NULL

LEMMA NoInfoInfo == NoInfo \in Infos
BY DEF NoInfo, Infos, NULL

LEMMA RecordInvalid ==
  ASSUME RecordInv, ret # "PICTURE", ReturnInvalid,
         code' = "pic" => header' \in Coded,
         state' = "SLICE_1ST" => state = "SLICE_1ST"
  PROVE  RecordInv'
BY RecordMove DEF ReturnInvalid, filterVars, RecordInv, RecordType

LEMMA RecordFirstField ==
  ASSUME RecordInv, ret # "PICTURE", AtHeader("pic"), FirstField,
         code' = "slice", state' = "PICTURE", action' = "slice_start", ret' = state'
  PROVE  RecordInv'
<1>1. header \in Coded
  BY DEF AtHeader, RecordInv, RecordType
<1>2. Slot \in {0, 2} /\ picture' = Slot
  BY DEF Slot, FirstField
<1>3. Record(header) \in Pictures
  BY <1>1 DEF Record, Coded, Pictures
<1>4. pictures' = [pictures EXCEPT ![Slot] = Record(header)]
  BY DEF FirstField
<1> DEFINE g == [References EXCEPT ![0] = SetFbuf(References)]
<1>5. g \in [0 .. 2 -> 0 .. 2] /\ fbuf' = g
  <2>1. References \in [0 .. 2 -> 0 .. 2]
    BY DEF References, RecordInv, RecordType
  <2>2. SetFbuf(References) \in 0 .. 2
    BY SetFbufFree
  <2> QED BY <2>1, <2>2 DEF FirstField
<1>6. info' \in Infos
  <2>1. info' = DisplayOf(header.type, Slot, g)
    BY DEF FirstField
  <2> HIDE DEF g
  <2>2. g[0] \in 0 .. 2 /\ g[1] \in 0 .. 2
    BY <1>5
  <2> QED BY <2>1, <2>2, <1>2 DEF DisplayOf, Infos, NoInfo, NULL
<1> HIDE DEF g
<1>7. RecordType'
  BY <1>2, <1>3, <1>4, <1>5, <1>6 DEF RecordInv, RecordType
<1>8. FirstOfPair'
  BY <1>2 DEF FirstOfPair
<1> QED BY <1>7, <1>8 DEF RecordInv

LEMMA RecordSecondField ==
  ASSUME RecordInv, ret # "PICTURE", AtHeader("pic"), SecondField, state = "SLICE_1ST",
         code' = "slice", state' = "PICTURE_2ND", action' = "slice_start", ret' = state'
  PROVE  RecordInv'
<1>1. header \in Coded
  BY DEF AtHeader, RecordInv, RecordType
<1>2. picture \in {0, 2} /\ picture' = picture + 1
  BY DEF SecondField, RecordInv, FirstOfPair
<1>3. Record(header) \in Pictures
  BY <1>1 DEF Record, Coded, Pictures
<1>4. pictures' = [pictures EXCEPT ![picture + 1] = Record(header)]
  BY DEF SecondField
<1>5. info' \in Infos
  <2>1. CASE info' = info
    BY <2>1 DEF RecordInv, RecordType
  <2>2. CASE info' = [info EXCEPT !.display_picture_2nd = picture + 1]
    BY <2>2, <1>2 DEF RecordInv, RecordType, Infos, NULL
  <2> QED BY <2>1, <2>2 DEF SecondField
<1>6. RecordType'
  BY <1>2, <1>3, <1>4, <1>5 DEF RecordInv, RecordType, SecondField
<1>7. FirstOfPair'
  BY DEF FirstOfPair
<1> QED BY <1>6, <1>7 DEF RecordInv

LEMMA RecordSliceStart ==
  ASSUME RecordInv, SliceStart
  PROVE  RecordInv'
<1>1. pictures' \in [0 .. 3 -> Pictures]
  <2>1. CASE pictures' = pictures
    BY <2>1 DEF RecordInv, RecordType
  <2>2. CASE pictures' = [pictures EXCEPT ![picture].skip = TRUE]
    BY <2>2 DEF RecordInv, RecordType, Pictures
  <2> QED BY <2>1, <2>2 DEF SliceStart
<1>2. RecordType'
  BY <1>1 DEF SliceStart, RecordInv, RecordType, filterVars
<1>3. FirstOfPair'
  BY DEF SliceStart, RecordInv, FirstOfPair
<1> QED BY <1>2, <1>3 DEF RecordInv

LEMMA RecordHandlePicture ==
  ASSUME RecordInv, HandlePicture
  PROVE  RecordInv'
BY DEF HandlePicture, RecordInv, RecordType, FirstOfPair

LEMMA RecordStep ==
  ASSUME RecordInv, [Next]_vars
  PROVE  RecordInv'
<1> USE DEF filterVars, streamVars
<1>info. info \in Infos /\ fbuf \in [0 .. 2 -> 0 .. 2]
  BY DEF RecordInv, RecordType
<1>1. CASE LoseUnit \/ LoseRest
  BY <1>1, <1>info, RecordMove DEF LoseUnit, LoseRest, libVars, RecordInv, RecordType
<1>2. CASE SeekHeader
  BY <1>2, <1>info, RecordMove, FindHeader DEF SeekHeader
<1>3. CASE SpoiltHeader
  BY <1>3, RecordInvalid, FindHeader DEF SpoiltHeader, AtHeader
<1>4. CASE HeaderEnd
  BY <1>4, DisplayLastInfo, RecordMove DEF HeaderEnd, AtHeader, RecordInv, RecordType
<1>5. CASE SeekSequence
  BY <1>5, RecordRestart DEF SeekSequence, RecordInv, RecordType
<1>6. CASE SequenceHeader
  <2>1. ret = "none" /\ (code' = "pic" => header' \in Coded)
    BY <1>6, FindHeader DEF SequenceHeader, AtHeader
  <2>2. CASE state' = "SEQUENCE" /\ ReturnInvalid
    BY <2>1, <2>2, RecordInvalid
  <2>3. CASE sequence # NoHeader /\ header # sequence /\ DisplayLast /\ action' = "invalid_end"
             /\ state' = "INVALID_END" /\ ret' = state'
             /\ UNCHANGED <<picture, pictures, fbuf, filterVars>>
    BY <2>1, <2>3, DisplayLastInfo, RecordMove
  <2>4. CASE info' = NoInfo /\ action' = "parse_header" /\ ret' = state'
             /\ state' \in {"SEQUENCE", "SEQUENCE_REPEATED", "SEQUENCE_MODIFIED"}
             /\ UNCHANGED <<picture, pictures, fbuf, filterVars>>
    BY <2>1, <2>4, NoInfoInfo, RecordMove
  <2> QED BY <1>6, <2>2, <2>3, <2>4 DEF SequenceHeader
<1>7. CASE InvalidEndAction
  BY <1>7, RecordRestart DEF InvalidEndAction, RecordInv, RecordType
<1>8. CASE GopHeader
  <2>1. ret = "none" /\ (code' = "pic" => header' \in Coded) /\ state' = "GOP"
    BY <1>8, FindHeader DEF GopHeader, AtHeader
  <2>2. CASE ReturnInvalid
    BY <2>1, <2>2, RecordInvalid
  <2>3. CASE action' = "parse_header" /\ info' = NoInfo /\ ret' = "GOP"
             /\ UNCHANGED <<picture, pictures, fbuf, filterVars>>
    BY <2>1, <2>3, NoInfoInfo, RecordMove
  <2> QED BY <1>8, <2>2, <2>3 DEF GopHeader
<1>9. CASE PictureHeader
  <2>1. ret = "none" /\ AtHeader("pic") /\ state' = PictureState
        /\ (code' = "pic" => header' \in Coded)
    BY <1>9, FindHeader DEF PictureHeader, AtHeader
  <2>2. CASE ReturnInvalid
    BY <2>1, <2>2, RecordInvalid DEF PictureState
  <2>3. CASE code' = "slice" /\ action' = "slice_start" /\ ret' = state'
             /\ UNCHANGED filterVars /\ state' = "PICTURE" /\ FirstField
    BY <2>1, <2>3, RecordFirstField
  <2>4. CASE code' = "slice" /\ action' = "slice_start" /\ ret' = state'
             /\ UNCHANGED filterVars /\ state' # "PICTURE" /\ SecondField
    BY <2>1, <2>4, RecordSecondField DEF PictureState
  <2> QED BY <1>9, <2>2, <2>3, <2>4 DEF PictureHeader
<1>10. CASE SliceStart
  BY <1>10, RecordSliceStart
<1>11. CASE Slices
  <2>1. state # "PICTURE"
    BY <1>11 DEF Slices, RecordInv, FirstOfPair
  <2> QED BY <1>11, <2>1, <1>info, RecordMove, FindHeader DEF Slices
<1>12. CASE HandleInvalid \/ Discontinuity
  BY <1>12, RecordInitDecode DEF HandleInvalid, Discontinuity
<1>13. CASE HandlePicture
  BY <1>13, RecordHandlePicture
<1>14. CASE HandleSlice
  BY <1>14, <1>info, RecordMove DEF HandleSlice, libVars, RecordInv, RecordType
<1>15. CASE HandleOther
  BY <1>15, <1>info, RecordMove DEF HandleOther, libVars, RecordInv, RecordType, States
<1>16. CASE UNCHANGED vars
  BY <1>16 DEF vars, libVars, RecordInv, RecordType, FirstOfPair
<1> QED BY <1>1, <1>2, <1>3, <1>4, <1>5, <1>6, <1>7, <1>8, <1>9, <1>10, <1>11, <1>12,
           <1>13, <1>14, <1>15, <1>16 DEF Next, Parse, Transform

LEMMA RecordInvariant == Spec => []RecordInv
BY RecordInit, RecordStep, PTL DEF Spec

\* However damaged the stream, the picture++ of a second field (header.c:820)
\* stays within the four records, and only a first field can be followed by
\* a second one.
THEOREM PictureInBounds == Spec => [](picture \in 0 .. 3 /\ (state = "SLICE_1ST" => picture \in {0, 2}))
<1>1. RecordInv => picture \in 0 .. 3 /\ (state = "SLICE_1ST" => picture \in {0, 2})
  BY DEF RecordInv, RecordType, FirstOfPair
<1> QED BY <1>1, RecordInvariant, PTL

-----------------------------------------------------------------------------
(* The types *)

ParserTypes ==
  /\ damage \in 0 .. MaxDamage
  /\ restarts \in 0 .. MaxRestarts
  /\ code \in Codes
  /\ header \in Sequences_ \cup Coded \cup {NoHeader}
  /\ code = "seq" => header \in Sequences_
  /\ action \in {"seek_header", "parse_header", "slice_start", "slices", "seek_sequence",
                 "invalid_end"}
  /\ state \in States
  /\ ret \in States \cup {"none"}
  /\ sequence \in Sequences_ \cup {NoHeader}
  /\ new_sequence \in Sequences_ \cup {NoHeader}
  /\ coding_type \in CodingTypes
  /\ first \in BOOLEAN /\ skip \in BOOLEAN

RefsType ==
  \/ refs = <<>>
  \/ \E a \in Frames : refs = <<a>>
  \/ \E a, b \in Frames : refs = <<a, b>>

\* The record of a picture that is to be decoded is filled.
FrameTypes ==
  /\ mem \in [0 .. 2 -> SUBSET Frames]
  /\ m_fWaitForKeyFrame \in BOOLEAN /\ rtStop \in BOOLEAN
  /\ shown \in Frames \cup {0}
  /\ held \in SUBSET Frames
  /\ RefsType
  /\ blank \in SUBSET ToSet(refs)
  /\ action = "slice_start" => pictures[picture].frame # 0
  /\ ret = "PICTURE" => action = "slice_start"

LEMMA RefsFacts ==
  ASSUME RefsType
  PROVE  /\ refs \in BoundedSeq(Frames, 2)
         /\ ToSet(refs) \in SUBSET Frames
         /\ Len(refs) \in 0 .. 2 /\ DOMAIN refs = 1 .. Len(refs)
         /\ refs = <<>> <=> Len(refs) = 0
         /\ \A i \in DOMAIN refs : refs[i] \in Frames /\ refs[i] \in ToSet(refs)
<1>1. /\ Len(refs) \in 0 .. 2 /\ DOMAIN refs = 1 .. Len(refs)
      /\ refs = <<>> <=> Len(refs) = 0
  BY DEF RefsType
<1>2. \A i \in DOMAIN refs : refs[i] \in Frames
  <2>1. CASE refs = <<>>
    BY <2>1
  <2>2. CASE \E a \in Frames : refs = <<a>>
    BY <2>2
  <2>3. CASE \E a, b \in Frames : refs = <<a, b>>
    BY <2>3
  <2> QED BY <2>1, <2>2, <2>3 DEF RefsType
<1>3. refs \in [1 .. Len(refs) -> Frames]
  <2>1. CASE refs = <<>>
    BY <2>1
  <2>2. CASE \E a \in Frames : refs = <<a>>
    BY <2>2
  <2>3. CASE \E a, b \in Frames : refs = <<a, b>>
    BY <2>3
  <2> QED BY <2>1, <2>2, <2>3 DEF RefsType
<1>4. refs \in BoundedSeq(Frames, 2)
  BY <1>1, <1>3 DEF BoundedSeq, SeqOf
<1>5. ToSet(refs) \in SUBSET Frames /\ \A i \in DOMAIN refs : refs[i] \in ToSet(refs)
  BY <1>2 DEF ToSet
<1> QED BY <1>1, <1>2, <1>4, <1>5

LEMMA FindTypes ==
  ASSUME Find
  PROVE  /\ code' \in {"seq", "gop", "pic", "slice", "end"} /\ code' \in Codes
         /\ header' \in Sequences_ \cup Coded \cup {NoHeader}
         /\ code' = "seq" => header' \in Sequences_
BY DEF Find, Pass, Send, Units, Codes

LEMMA ParserInit == Init => ParserTypes
<1> SUFFICES ASSUME Init
             PROVE  ParserTypes
  OBVIOUS
<1>1. damage \in 0 .. MaxDamage /\ restarts \in 0 .. MaxRestarts
  BY PictureAssumption DEF Init
<1>2. /\ code = "none" /\ header = NoHeader /\ action = "seek_header" /\ state = "INVALID"
      /\ ret = "none" /\ sequence = NoHeader /\ new_sequence = NoHeader /\ coding_type = "I"
  BY DEF Init
<1>3. first \in BOOLEAN /\ skip \in BOOLEAN
  BY DEF Init
<1> QED BY <1>1, <1>2, <1>3 DEF ParserTypes, Codes, States, CodingTypes

LEMMA ParserStep ==
  ASSUME ParserTypes, RecordInv, [Next]_vars
  PROVE  ParserTypes'
<1> USE DEF ParserTypes, ReturnInvalid, filterVars, streamVars, ghostVars
<1>a. MaxDamage \in Nat /\ MaxRestarts \in Nat
  BY PictureAssumption
<1>1. CASE LoseUnit \/ LoseRest
  BY <1>1, <1>a DEF LoseUnit, LoseRest, libVars
<1>2. CASE SeekHeader
  BY <1>2, FindTypes DEF SeekHeader, Find
<1>3. CASE SpoiltHeader
  BY <1>3, <1>a, FindTypes DEF SpoiltHeader, Find, States
<1>4. CASE HeaderEnd \/ SeekSequence \/ InvalidEndAction
  BY <1>4 DEF HeaderEnd, SeekSequence, InvalidEndAction, HeaderStateInit, States, CodingTypes
<1>5. CASE SequenceHeader
  <2>1. header \in Sequences_ /\ damage' = damage /\ restarts' = restarts
    BY <1>5 DEF SequenceHeader, AtHeader, Find
  <2> QED BY <1>5, <2>1, FindTypes DEF SequenceHeader, States
<1>6. CASE GopHeader
  BY <1>6, FindTypes DEF GopHeader, Find, States
<1>7. CASE PictureHeader
  <2>1. header \in Coded /\ damage' = damage /\ restarts' = restarts
    BY <1>7 DEF PictureHeader, AtHeader, RecordInv, RecordType, Find
  <2>2. state' \in {"PICTURE", "PICTURE_2ND"}
    BY <1>7 DEF PictureHeader, PictureState
  <2>3. CASE ReturnInvalid
    BY <1>7, <2>1, <2>2, <2>3, FindTypes DEF PictureHeader, States
  <2>4. CASE ~ReturnInvalid
    <3>1. coding_type' = header.type /\ (FirstField \/ SecondField) /\ action' = "slice_start"
          /\ ret' = state' /\ UNCHANGED <<sequence, new_sequence, skip>>
      BY <1>7, <2>4 DEF PictureHeader
    <3>2. header.type \in CodingTypes
      BY <2>1 DEF Coded
    <3>3. first' \in BOOLEAN
      BY <3>1 DEF FirstField, SecondField, StillFirst
    <3>4. code' \in Codes /\ header' \in Sequences_ \cup Coded \cup {NoHeader}
          /\ (code' = "seq" => header' \in Sequences_)
      BY <1>7, FindTypes DEF PictureHeader
    <3> QED BY <2>1, <2>2, <3>1, <3>2, <3>3, <3>4 DEF States
  <2> QED BY <2>3, <2>4
<1>8. CASE SliceStart
  BY <1>8 DEF SliceStart, States
<1>9. CASE Slices
  BY <1>9, FindTypes DEF Slices, Find, States
<1>10. CASE HandleInvalid \/ Discontinuity
  <2>1. damage' \in 0 .. MaxDamage /\ restarts' \in 0 .. MaxRestarts
    BY <1>10, <1>a DEF HandleInvalid, Discontinuity, InitDecode
  <2>2. InitDecode /\ HeaderStateInit
    BY <1>10 DEF HandleInvalid, Discontinuity, InitDecode
  <2>3. first' \in BOOLEAN /\ skip' \in BOOLEAN
    BY <2>2 DEF HeaderStateInit
  <2> QED BY <2>1, <2>2, <2>3 DEF InitDecode, HeaderStateInit, States, CodingTypes, Codes
<1>11. CASE HandlePicture \/ HandleSlice \/ HandleOther \/ UNCHANGED vars
  BY <1>11 DEF HandlePicture, HandleSlice, HandleOther, vars, libVars
<1> QED BY <1>1, <1>2, <1>3, <1>4, <1>5, <1>6, <1>7, <1>8, <1>9, <1>10, <1>11 DEF Next, Parse, Transform

LEMMA FrameInit == Init => FrameTypes
BY DEF Init, FrameTypes, RefsType, NULL

LEMMA FrameRestart ==
  ASSUME FrameTypes, HeaderStateInit, action' # "slice_start", ret' # "PICTURE",
         m_fWaitForKeyFrame' \in BOOLEAN, rtStop' \in BOOLEAN, shown' = shown
  PROVE  FrameTypes'
<1>1. mem' \in [0 .. 2 -> SUBSET Frames] /\ held' \in SUBSET Frames /\ RefsType'
  BY DEF HeaderStateInit, RefsType
<1>2. blank' \in SUBSET ToSet(refs')
  BY DEF HeaderStateInit
<1> QED BY <1>1, <1>2 DEF FrameTypes

LEMMA FrameSame ==
  ASSUME FrameTypes, UNCHANGED <<mem, m_fWaitForKeyFrame, rtStop, shown, held, refs, blank>>,
         action' = "slice_start" => action = "slice_start" /\ UNCHANGED <<picture, pictures>>,
         ret' = "PICTURE" => ret = "PICTURE" /\ action' = action
  PROVE  FrameTypes'
BY DEF FrameTypes, RefsType

LEMMA FrameStep ==
  ASSUME FrameTypes, ParserTypes, RecordInv, [Next]_vars
  PROVE  FrameTypes'
<1> USE DEF filterVars, streamVars, ghostVars
<1>1. CASE LoseUnit \/ LoseRest
  BY <1>1, FrameSame DEF LoseUnit, LoseRest, libVars
<1>2. CASE SeekHeader \/ SpoiltHeader \/ HeaderEnd \/ GopHeader \/ Slices
  <2>1. Slices => state # "PICTURE"
    BY DEF Slices, RecordInv, FirstOfPair
  <2> QED BY <1>2, <2>1, FrameSame DEF SeekHeader, SpoiltHeader, HeaderEnd, GopHeader, Slices, ReturnInvalid
<1>3. CASE SequenceHeader
  BY <1>3, FrameSame DEF SequenceHeader, ReturnInvalid
<1>4. CASE SeekSequence \/ InvalidEndAction
  <2>1. m_fWaitForKeyFrame \in BOOLEAN /\ rtStop \in BOOLEAN
    BY DEF FrameTypes
  <2> QED BY <1>4, <2>1, FrameRestart DEF SeekSequence, InvalidEndAction
<1>5. CASE HandleInvalid \/ Discontinuity
  BY <1>5, FrameRestart DEF HandleInvalid, Discontinuity, InitDecode
<1>6. CASE PictureHeader
  <2>1. header \in Coded /\ header.frame \in Frames /\ header.frame # 0
    BY <1>6 DEF PictureHeader, AtHeader, RecordInv, RecordType, Coded, Frames
  <2>2. CASE ReturnInvalid
    BY <2>2, FrameSame DEF ReturnInvalid
  <2>3. CASE ~ReturnInvalid
    <3>1. /\ IF state' = "PICTURE" THEN FirstField ELSE SecondField
          /\ action' = "slice_start"
          /\ UNCHANGED <<mem, m_fWaitForKeyFrame, rtStop, shown, held>>
      BY <1>6, <2>3 DEF PictureHeader
    <3>2. RefsType' /\ blank' \in SUBSET ToSet(refs')
      <4>1. CASE FirstField
        <5>1. \/ refs' = refs
              \/ refs = <<>> /\ refs' = <<header.frame>>
              \/ refs # <<>> /\ refs' = <<header.frame, refs[1]>>
          BY <4>1 DEF FirstField
        <5>2. refs # <<>> => refs[1] \in Frames
          BY DEF FrameTypes, RefsType
        <5>3. RefsType'
          BY <2>1, <5>1, <5>2 DEF FrameTypes, RefsType
        <5>4. blank' = blank \cap ToSet(refs')
          BY <4>1 DEF FirstField
        <5> QED BY <5>3, <5>4
      <4>2. CASE SecondField
        <5>1. refs' = refs /\ blank' = blank
          BY <4>2 DEF SecondField
        <5> QED BY <5>1 DEF FrameTypes, RefsType
      <4> QED BY <3>1, <4>1, <4>2
    <3>3. pictures'[picture'].frame = header.frame
      <4>1. CASE FirstField
        <5>1. Slot \in 0 .. 3
          BY DEF Slot
        <5> QED BY <4>1, <5>1 DEF FirstField, Record, RecordInv, RecordType
      <4>2. CASE SecondField /\ state' # "PICTURE"
        <5>1. picture \in {0, 2}
          BY <1>6, <4>2 DEF PictureHeader, PictureState, RecordInv, FirstOfPair
        <5> QED BY <4>2, <5>1 DEF SecondField, Record, RecordInv, RecordType
      <4> QED BY <3>1, <4>1, <4>2
    <3> QED BY <2>1, <3>1, <3>2, <3>3 DEF FrameTypes
  <2> QED BY <2>2, <2>3
<1>7. CASE SliceStart
  <2>1. pictures[picture].frame \in Frames /\ fbuf[0] \in 0 .. 2
    BY <1>7 DEF SliceStart, FrameTypes, RecordInv, RecordType, Pictures
  <2>2. mem' \in [0 .. 2 -> SUBSET Frames]
    <3> DEFINE old == IF state = "PICTURE_2ND" THEN mem[fbuf[0]] ELSE {}
               new == {pictures[picture].frame} \cup old
    <3>1. mem \in [0 .. 2 -> SUBSET Frames]
      BY DEF FrameTypes
    <3>2. new \in SUBSET Frames
      BY <2>1, <3>1
    <3>3. mem' = mem \/ mem' = [mem EXCEPT ![fbuf[0]] = new]
      BY <1>7 DEF SliceStart
    <3> HIDE DEF new
    <3> QED BY <2>1, <3>1, <3>2, <3>3
  <2>3. ret' = "none" /\ action' = "slices"
        /\ UNCHANGED <<m_fWaitForKeyFrame, rtStop, shown, held, refs, blank>>
    BY <1>7 DEF SliceStart
  <2> QED BY <2>2, <2>3 DEF FrameTypes, RefsType
<1>8. CASE HandlePicture
  <2>1. action = "slice_start" /\ pictures[picture].frame \in Frames
    BY <1>8 DEF HandlePicture, FrameTypes, RecordInv, RecordType, Pictures
  <2>2. held' \in SUBSET Frames /\ blank' \in SUBSET ToSet(refs)
    BY <1>8, <2>1 DEF HandlePicture, FrameTypes
  <2>3. ret' = "none"
        /\ UNCHANGED <<mem, m_fWaitForKeyFrame, rtStop, shown, refs, action, picture, pictures>>
    BY <1>8 DEF HandlePicture
  <2> QED BY <2>2, <2>3 DEF FrameTypes, RefsType
<1>9. CASE HandleSlice
  <2> DEFINE p == info.display_picture
  <2>1. p # NULL => pictures[p].frame \in Frames \cup {0}
    BY DEF RecordInv, RecordType, Infos, Pictures
  <2>2. shown' \in Frames \cup {0} /\ held' \in SUBSET Frames
    BY <1>9, <2>1 DEF HandleSlice, FrameTypes
  <2>3. m_fWaitForKeyFrame' \in BOOLEAN /\ rtStop' \in BOOLEAN
    BY <1>9 DEF HandleSlice, FrameTypes, Waits, Timed
  <2>4. ret' = "none" /\ UNCHANGED <<mem, refs, blank, action, picture, pictures>>
    BY <1>9 DEF HandleSlice, libVars
  <2> QED BY <2>2, <2>3, <2>4 DEF FrameTypes, RefsType
<1>10. CASE HandleOther \/ UNCHANGED vars
  BY <1>10, FrameSame DEF HandleOther, vars, libVars
<1> QED BY <1>1, <1>2, <1>3, <1>4, <1>5, <1>6, <1>7, <1>8, <1>9, <1>10 DEF Next, Parse, Transform

LEMMA TypesInvariant == Spec => [](ParserTypes /\ FrameTypes /\ RecordInv)
<1>1. Init => ParserTypes /\ FrameTypes /\ RecordInv
  BY ParserInit, FrameInit, RecordInit
<1>2. ParserTypes /\ FrameTypes /\ RecordInv /\ [Next]_vars => (ParserTypes /\ FrameTypes /\ RecordInv)'
  BY ParserStep, FrameStep, RecordStep
<1> QED BY <1>1, <1>2, PTL DEF Spec

-----------------------------------------------------------------------------
(* The order of the frames.  The invariant follows the stream through the  *)
(* library: the place the parser is at (PlaceInv), the fields of the       *)
(* picture in progress (FieldsInv), the header found (PendingInv), what is *)
(* still to be shown (OrderInv), the records and buffers of the references *)
(* (ReferenceInv, PredictionInv), and what is shown (ShowInv, EndInv) and  *)
(* held back (HeldInv).                                                    *)

StreamType ==
  [last : Codes, low_delay : BOOLEAN, top : 0 .. MaxFrames, bs : Nat, nextB : Nat \ {0},
   second : Coded \cup {NoHeader}]

\* The B pictures still to come lie just before the last reference; there are
\* none, and no second field, at a header between two groups.
StreamInv ==
  /\ stream \in StreamType
  /\ IF stream.top = 0 THEN stream.bs = 0 /\ stream.nextB = 1
     ELSE stream.nextB + stream.bs = stream.top
  /\ stream.low_delay => stream.bs = 0
  /\ stream.last \in {"seq", "gop", "end"} => stream.bs = 0 /\ stream.second = NoHeader
  /\ stream.second # NoHeader => stream.second.nb_fields = 1

Lost == sequence = NoHeader
Abandoned == action \in {"seek_sequence", "invalid_end"}
Synced == ~Lost /\ ~Abandoned

\* The first records of the picture and of the last reference, and the buffer
\* of a reference.
Cur == IF picture >= 2 THEN 2 ELSE 0
LastRef == IF (picture >= 2) # (coding_type = "B") THEN 2 ELSE 0
RefBuf(i) == fbuf[IF coding_type = "B" THEN i ELSE i - 1]

\* The first field of the picture has come, the second has not.
HalfCoded == picture = Cur /\ pictures[Cur].nb_fields = 1

\* The picture has a record and nothing is decoded of it yet.
Undecoded == action = "slice_start" /\ picture = Cur

InProgress == action \in {"slice_start", "slices"} \/ state = "SLICE_1ST" \/ ret = "SLICE"

\* The header of a picture, not of a second field, is to be processed.
Pending == code = "pic" /\ state # "SLICE_1ST"

\* Where the parser may be, and what is known there.
PlaceInv ==
  /\ code # "none" => code = stream.last
  /\ code = "seq" => header \in Sequences_ /\ header.low_delay = stream.low_delay
  /\ Lost => action = "seek_header" /\ ret = "none" /\ refs = <<>> /\ state # "SLICE_1ST"
  /\ ~Lost => sequence \in Sequences_ /\ code # "none"
  /\ ~Lost /\ action \in {"seek_header", "parse_header"} => code \in {"seq", "gop", "pic", "end"}
  /\ action = "parse_header" => code \in {"gop", "pic"} /\ state # "SLICE_1ST"
  /\ action = "invalid_end" => code \in {"gop", "pic"} /\ new_sequence \in Sequences_
                               /\ new_sequence.low_delay = stream.low_delay /\ state = "INVALID_END"
  /\ action = "seek_sequence" => code = "end" /\ ret \in {"none", "END"} /\ state # "SLICE_1ST"
  /\ action \in {"slice_start", "slices"} => code = "slice" /\ refs # <<>>
  /\ Synced /\ code # "seq" => sequence.low_delay = stream.low_delay
  /\ Synced /\ refs = <<>> => code \in {"gop", "pic"} /\ state # "SLICE_1ST"
  /\ state = "SLICE_1ST" => code \in {"pic", "slice"}
  /\ ret = "SLICE" => action = "seek_header" /\ state = "SLICE" /\ refs # <<>>
  /\ ret = "END" => action = "seek_sequence"
  /\ ret = "PICTURE" => action = "slice_start" /\ picture = Cur
  /\ ~Lost => (first <=> refs = <<>> \/ sequence.low_delay)
  /\ refs = <<>> => /\ held = {} /\ coding_type = "I" /\ first /\ ~skip

\* What state the fields of the picture are in.
FieldsInv ==
  /\ action = "slice_start" =>
       /\ state \in {"PICTURE", "PICTURE_2ND"}
       /\ state = "PICTURE" <=> picture = Cur
  /\ action = "slices" => state \in {"SLICE", "SLICE_1ST"}
  /\ Synced /\ action # "slice_start" /\ refs # <<>> => (state = "SLICE_1ST" <=> HalfCoded)
  /\ action \in {"slice_start", "slices"} =>
       IF HalfCoded THEN /\ stream.second # NoHeader
                         /\ stream.second.frame = pictures[picture].frame
                         /\ stream.second.type = coding_type
       ELSE stream.second = NoHeader
  /\ ~Lost /\ refs # <<>> =>
       /\ coding_type = "B" => ~sequence.low_delay
       /\ picture # Cur => pictures[Cur].nb_fields = 1 /\ pictures[picture].frame = pictures[Cur].frame

\* The header that is to be processed.
PendingInv ==
  ~Lost /\ code = "pic" =>
    /\ header \in Coded
    /\ action = "invalid_end" => header.type # "B"
    /\ state = "SLICE_1ST" =>
         /\ stream.second = NoHeader
         /\ header.frame = pictures[picture].frame /\ header.nb_fields = 1
         /\ header.type = "B" <=> coding_type = "B"
    /\ state # "SLICE_1ST" =>
         /\ stream.second = AfterField(header)
         /\ IF header.type = "B" THEN /\ header.frame = stream.nextB - 1
                                      /\ ~stream.low_delay /\ refs # <<>>
            ELSE header.frame = stream.top

\* The next frame that is to be shown after the picture in progress. It stays the
\* same when the sender sends more.
Due ==
  stream.nextB + (IF sequence.low_delay THEN 1 ELSE 0) - (IF Pending THEN 1 ELSE 0)

Behind == shown < (IF code = "pic" THEN stream.nextB ELSE stream.top + 1)

OrderInv ==
  /\ shown <= stream.top
  /\ ~Lost /\ refs = <<>> => Behind
  /\ action = "invalid_end" => Behind
  /\ Synced /\ refs # <<>> =>
       /\ shown < Due
       /\ refs[1] = IF Pending /\ header.type # "B" THEN stream.nextB - 1 ELSE stream.top
       /\ coding_type # "B" => pictures[Cur].frame = refs[1]

\* The record and the buffer of the last reference.
ReferenceInv ==
  ~Lost /\ refs # <<>> =>
    /\ pictures[LastRef].frame = refs[1]
    /\ pictures[LastRef].nb_fields = 1 => picture = LastRef \/ pictures[LastRef + 1].frame = refs[1]
    /\ \/ Undecoded /\ coding_type # "B"
       \/ pictures[LastRef].skip \/ mem[RefBuf(1)] = {refs[1]}

\* The buffers of both references.
PredictionInv ==
  ~Lost =>
    /\ \A i \in DOMAIN refs :
         \/ refs[i] \in blank \/ mem[RefBuf(i)] = {refs[i]}
         \/ i = 1 /\ Undecoded /\ coding_type # "B"
    /\ refs # <<>> /\ skip /\ coding_type # "B" /\ ret # "PICTURE" => refs[1] \in blank

\* What is shown with the picture in progress: itself ...
ShowsItself ==
  /\ info.display_picture = Cur
  /\ info.display_picture_2nd = IF picture = Cur THEN NULL ELSE picture
  /\ info.display_fbuf = fbuf[0]
  /\ Undecoded \/ pictures[Cur].skip \/ mem[fbuf[0]] = {pictures[Cur].frame}

\* ... or the reference before it.
ShowsReference ==
  LET p == info.display_picture
  IN  /\ p = 2 - Cur
      /\ pictures[p].frame = refs[2]
      /\ IF pictures[p].nb_fields = 1
         THEN info.display_picture_2nd = p + 1 /\ pictures[p + 1].frame = refs[2]
         ELSE info.display_picture_2nd = NULL
      /\ info.display_fbuf = fbuf[1]
      /\ pictures[p].skip \/ mem[fbuf[1]] = {refs[2]}

ShownFrame == pictures[info.display_picture].frame

ShowInv ==
  Synced /\ InProgress =>
    /\ IF coding_type = "B" \/ sequence.low_delay THEN ShowsItself
       ELSE IF Len(refs) = 1 THEN info = NoInfo ELSE ShowsReference
    /\ info.display_picture # NULL => shown < ShownFrame /\ ShownFrame < Due

\* The end of a sequence shows the last reference.
EndInv ==
  ret = "END" =>
    /\ IF sequence.low_delay THEN info = NoInfo
       ELSE /\ info.display_picture = LastRef
            /\ info.display_picture_2nd = IF pictures[LastRef].nb_fields = 1 THEN LastRef + 1 ELSE NULL
            /\ pictures[LastRef].nb_fields = 1 => pictures[LastRef + 1].frame = refs[1]
            /\ info.display_fbuf = RefBuf(1)
            /\ pictures[LastRef].skip \/ mem[RefBuf(1)] = {refs[1]}
            /\ shown < ShownFrame /\ ShownFrame <= stream.top
    /\ refs # <<>>

HeldInv ==
  ~Lost /\ refs # <<>> =>
    held \subseteq (IF sequence.low_delay THEN {} ELSE {refs[1]})
                   \cup (IF Synced /\ InProgress /\ info.display_picture # NULL THEN {ShownFrame} ELSE {})

-----------------------------------------------------------------------------
(* The sender *)

\* What the next unit of the stream can be, by its start code.
SentReference(h) ==
  /\ stream.last \in {"seq", "gop", "slice"} /\ stream.bs = 0 /\ stream.second = NoHeader
  /\ h.type # "B" /\ h.frame = stream'.top
  /\ stream'.nextB = stream.top + 1 /\ stream'.top > stream.top
  /\ stream'.second = AfterField(h)

SentB(h) ==
  /\ stream.last = "slice" /\ stream.bs > 0 /\ stream.second = NoHeader
  /\ h.type = "B" /\ h.frame = stream.nextB
  /\ stream'.nextB = stream.nextB + 1 /\ stream'.top = stream.top
  /\ stream'.second = AfterField(h)

SentSecond(h) ==
  /\ stream.last = "slice" /\ stream.second # NoHeader
  /\ h.frame = stream.second.frame /\ h.nb_fields = 1
  /\ h.type = "B" <=> stream.second.type = "B"
  /\ stream'.nextB = stream.nextB /\ stream'.top = stream.top
  /\ stream'.second = NoHeader

SentOther(c, h) ==
  /\ stream'.nextB = stream.nextB /\ stream'.top = stream.top
  /\ stream'.second = stream.second
  /\ c = "seq" => h \in Sequences_ /\ h.low_delay = stream'.low_delay
  /\ c # "seq" => stream'.low_delay = stream.low_delay
  /\ c \in {"seq", "end"} => /\ stream.bs = 0 /\ stream.second = NoHeader
                            /\ stream.last \in {"slice", "end"}
  /\ c = "gop" => /\ stream.bs = 0 /\ stream.second = NoHeader
                  /\ stream.last \in {"seq", "slice"}
  /\ c = "slice" => stream.last \in {"pic", "slice"}

SentPicture(h) == h \in Coded /\ stream'.low_delay = stream.low_delay
               /\ (SentReference(h) \/ SentB(h) \/ SentSecond(h))

LEMMA CodedNotNone ==
  ASSUME NEW h \in Coded
  PROVE  h # NoHeader
<1>1. DOMAIN h = {"frame", "type", "nb_fields"}
  BY DEF Coded
<1>2. DOMAIN NoHeader = {"none"}
  BY DEF NoHeader
<1> QED BY <1>1, <1>2

LEMMA AfterFieldType ==
  ASSUME NEW h \in Coded
  PROVE  /\ AfterField(h) \in Coded \cup {NoHeader}
         /\ AfterField(h) # NoHeader => AfterField(h) = h /\ h.nb_fields = 1
         /\ h.nb_fields = 1 => AfterField(h) = h
BY CodedNotNone DEF AfterField

LEMMA SendPicture ==
  ASSUME StreamInv, NEW h \in Coded, SendReference(h) \/ SendB(h) \/ SendSecondField(h)
  PROVE  StreamInv' /\ SentPicture(h) /\ stream'.last = "pic"
<1>1. h.frame \in 1 .. MaxFrames /\ AfterField(h) \in Coded \cup {NoHeader} /\ NoHeader \in Coded \cup {NoHeader}
      /\ (AfterField(h) # NoHeader => AfterField(h).nb_fields = 1)
  BY AfterFieldType DEF Coded, Frames
<1>2. stream \in StreamType /\ MaxFrames \in Nat /\ MaxB \in Nat /\ "pic" \in Codes
  BY PictureAssumption DEF StreamInv, Codes
<1> HIDE DEF AfterField
<1>3. CASE SendReference(h)
  <2> DEFINE b == h.frame - stream.top - 1
             n == stream.top + 1
             second == AfterField(h)
  <2>1. /\ b \in Nat /\ stream.top \in 0 .. MaxFrames /\ (stream.low_delay => b = 0)
        /\ stream.bs = 0 /\ stream.second = NoHeader
        /\ stream.last \in {"seq", "gop", "slice"} /\ h.type # "B"
    BY <1>1, <1>2, <1>3 DEF SendReference, PictureMayFollow, StreamType
  <2>2. stream' = [stream EXCEPT !.last = "pic", !.bs = b, !.nextB = n,
                                 !.top = h.frame, !.second = second]
    BY <1>3 DEF SendReference
  <2>3. /\ n \in Nat \ {0} /\ h.frame # 0 /\ n + b = h.frame /\ h.frame > stream.top
        /\ n = stream.top + 1 /\ second = AfterField(h) /\ h.frame \in 0 .. MaxFrames
    BY <1>1, <1>2, <2>1
  <2> HIDE DEF b, n, second
  <2>4. /\ stream' \in StreamType /\ stream'.last = "pic" /\ stream'.bs = b /\ stream'.nextB = n
        /\ stream'.top = h.frame /\ stream'.second = second
        /\ stream'.low_delay = stream.low_delay
    BY <1>1, <1>2, <2>1, <2>2, <2>3 DEF StreamType
  <2>5. StreamInv'
    BY <1>1, <2>1, <2>3, <2>4 DEF StreamInv
  <2> QED BY <2>1, <2>3, <2>4, <2>5 DEF SentPicture, SentReference
<1>4. CASE SendB(h)
  <2>1. /\ stream.bs \in Nat \ {0} /\ stream.nextB \in Nat \ {0} /\ stream.second = NoHeader
        /\ stream.last = "slice" /\ h.type = "B" /\ h.frame = stream.nextB /\ stream.top # 0
        /\ stream.nextB + stream.bs = stream.top /\ ~stream.low_delay
    BY <1>2, <1>4 DEF SendB, PictureMayFollow, StreamType, StreamInv
  <2>2. stream' = [stream EXCEPT !.last = "pic", !.bs = stream.bs - 1, !.nextB = stream.nextB + 1,
                                 !.second = AfterField(h)]
    BY <1>4 DEF SendB
  <2>3. stream.bs - 1 \in Nat /\ stream.nextB + 1 \in Nat \ {0}
        /\ stream.nextB + 1 + (stream.bs - 1) = stream.top
    BY <2>1
  <2>4. /\ stream' \in StreamType /\ stream'.last = "pic" /\ stream'.bs = stream.bs - 1
        /\ stream'.nextB = stream.nextB + 1
        /\ stream'.top = stream.top /\ stream'.second = AfterField(h)
        /\ stream'.low_delay = stream.low_delay
    BY <1>1, <1>2, <2>1, <2>2, <2>3 DEF StreamType
  <2>5. StreamInv'
    BY <1>1, <2>1, <2>3, <2>4 DEF StreamInv
  <2> QED BY <2>1, <2>4, <2>5 DEF SentPicture, SentB
<1>5. CASE SendSecondField(h)
  <2>1. /\ stream.last \in {"seq", "gop", "slice"} /\ stream.second # NoHeader
        /\ h.frame = stream.second.frame /\ h.nb_fields = 1
        /\ h.type \in (IF stream.second.type = "I" THEN {"I", "P"} ELSE {stream.second.type})
    BY <1>5 DEF SendSecondField, PictureMayFollow
  <2>2. stream' = [stream EXCEPT !.last = "pic", !.second = NoHeader]
    BY <1>5 DEF SendSecondField
  <2>3. /\ stream' \in StreamType /\ stream'.last = "pic" /\ stream'.bs = stream.bs
        /\ stream'.nextB = stream.nextB /\ stream'.top = stream.top /\ stream'.second = NoHeader
        /\ stream'.low_delay = stream.low_delay
    BY <1>1, <1>2, <2>2 DEF StreamType
  <2>4. stream.last = "slice"
    BY <2>1 DEF StreamInv
  <2>5. h.type = "B" <=> stream.second.type = "B"
    BY <2>1
  <2>6. StreamInv'
    BY <2>3 DEF StreamInv
  <2> QED BY <2>1, <2>3, <2>4, <2>5, <2>6 DEF SentPicture, SentSecond
<1> QED BY <1>3, <1>4, <1>5

LEMMA SendOther ==
  ASSUME StreamInv, NEW u \in Units, Send(u), u[1] # "pic"
  PROVE  StreamInv' /\ SentOther(u[1], u[2]) /\ stream'.last = u[1]
<1>1. stream \in StreamType /\ MaxFrames \in Nat /\ {"seq", "gop", "slice", "end"} \subseteq Codes
  BY PictureAssumption DEF StreamInv, Codes
<1>2. CASE u[1] = "seq" /\ SendSequence(u[2])
  <2>1. u[2] \in Sequences_
    BY <1>2 DEF Units
  <2>2. u[2].low_delay \in BOOLEAN
    BY <2>1 DEF Sequences_
  <2>3. stream.bs = 0 /\ stream.second = NoHeader /\ stream.last \in {"slice", "end"}
    BY <1>2 DEF SendSequence, BetweenGroups
  <2>4. stream' = [stream EXCEPT !.last = "seq", !.low_delay = u[2].low_delay]
    BY <1>2 DEF SendSequence
  <2>5. /\ stream' \in StreamType /\ stream'.last = "seq" /\ stream'.bs = stream.bs
        /\ stream'.nextB = stream.nextB /\ stream'.top = stream.top
        /\ stream'.second = stream.second /\ stream'.low_delay = u[2].low_delay
    BY <1>1, <2>2, <2>4 DEF StreamType
  <2>6. StreamInv'
    BY <2>3, <2>5 DEF StreamInv
  <2> QED BY <1>2, <2>1, <2>3, <2>5, <2>6 DEF SentOther
<1>3. CASE \/ u[1] = "gop" /\ SendGop
           \/ u[1] = "slice" /\ SendSlice
           \/ u[1] = "end" /\ SendEnd
  <2>1. stream' = [stream EXCEPT !.last = u[1]]
    BY <1>3 DEF SendGop, SendSlice, SendEnd
  <2>2. /\ u[1] = "end" => stream.bs = 0 /\ stream.second = NoHeader
        /\ u[1] = "end" => stream.last \in {"slice", "end"}
        /\ u[1] = "gop" => stream.bs = 0 /\ stream.second = NoHeader /\ stream.last \in {"seq", "slice"}
        /\ u[1] = "slice" => stream.last \in {"pic", "slice"}
    BY <1>3 DEF StreamInv, SendGop, SendSlice, SendEnd, BetweenGroups
  <2>3. /\ stream' \in StreamType /\ stream'.last = u[1] /\ stream'.bs = stream.bs
        /\ stream'.nextB = stream.nextB /\ stream'.top = stream.top
        /\ stream'.second = stream.second /\ stream'.low_delay = stream.low_delay
    BY <1>1, <1>3, <2>1 DEF StreamType
  <2>4. StreamInv'
    BY <1>3, <2>2, <2>3 DEF StreamInv
  <2> QED BY <1>3, <2>2, <2>3, <2>4 DEF SentOther
<1> QED BY <1>2, <1>3 DEF Send

LEMMA SendFacts ==
  ASSUME StreamInv, NEW u \in Units, Send(u)
  PROVE  /\ StreamInv' /\ u[1] \in {"seq", "gop", "pic", "slice", "end"} /\ stream'.last = u[1]
         /\ IF u[1] = "pic" THEN SentPicture(u[2]) ELSE SentOther(u[1], u[2])
<1>1. u[1] \in {"seq", "gop", "pic", "slice", "end"}
  BY DEF Units
<1>2. CASE u[1] = "pic"
  <2>1. u[2] \in Coded
    BY <1>2 DEF Units
  <2>2. SendReference(u[2]) \/ SendB(u[2]) \/ SendSecondField(u[2])
    BY <1>2 DEF Send
  <2> QED BY <1>2, <2>1, <2>2, SendPicture
<1>3. CASE u[1] # "pic"
  BY <1>1, <1>3, SendOther
<1> QED BY <1>2, <1>3

LEMMA FindFacts ==
  ASSUME StreamInv, Find
  PROVE  /\ StreamInv'
         /\ code' \in {"seq", "gop", "pic", "slice", "end"} /\ stream'.last = code'
         /\ code' = "pic" => SentPicture(header')
         /\ code' # "pic" => SentOther(code', header')
<1>1. PICK u \in Units : Send(u) /\ code' = u[1] /\ header' = u[2]
  BY DEF Find, Pass
<1>2. /\ StreamInv' /\ u[1] \in {"seq", "gop", "pic", "slice", "end"} /\ stream'.last = u[1]
      /\ IF u[1] = "pic" THEN SentPicture(u[2]) ELSE SentOther(u[1], u[2])
  BY <1>1, SendFacts
<1>3. (code' = "pic" => SentPicture(header')) /\ (code' # "pic" => SentOther(code', header'))
  BY <1>1, <1>2 DEF SentPicture, SentReference, SentB, SentSecond, SentOther, AfterField
<1> QED BY <1>1, <1>2, <1>3

LEMMA StreamInit == Init => StreamInv
BY PictureAssumption DEF Init, InitStream, StreamInv, StreamType, Codes

\* Whatever is lost, the sender goes on sending a legal stream.
LEMMA StreamStep ==
  ASSUME StreamInv, [Next]_vars
  PROVE  StreamInv'
<1>1. CASE Find
  BY <1>1, FindFacts
<1>2. CASE UNCHANGED stream
  BY <1>2 DEF StreamInv
<1>3. CASE LoseUnit \/ LoseRest
  <2>1. PICK u \in Units : Send(u)
    BY <1>3 DEF LoseUnit, LoseRest, Pass
  <2> QED BY <2>1, SendFacts
<1>4. Find \/ UNCHANGED stream \/ LoseUnit \/ LoseRest
  BY DEF Next, vars, streamVars, libVars, Parse, SeekHeader, SpoiltHeader, HeaderEnd, SeekSequence,
         SequenceHeader, InvalidEndAction, GopHeader, PictureHeader, SliceStart, Slices,
         Transform, HandleInvalid, HandlePicture, HandleSlice, HandleOther, Discontinuity, InitDecode
<1> QED BY <1>1, <1>2, <1>3, <1>4

-----------------------------------------------------------------------------
(* The times of the pictures.  While the samples are aligned, the time that  *)
(* is not used yet is that of the frame whose headers are in progress        *)
(* (InputInv), so the picture reported next is one of that frame (StampInv). *)

\* The time that the input sample still has to give away.
AlignedInput ==
  /\ rtStart \in Frames \cup {0, Later}
  /\ rtStart = Later => stream.second = NoHeader
  /\ rtStart \in Frames /\ stream.second # NoHeader => stream.second.frame = rtStart
  /\ code = "pic" /\ rtStart # 0 => rtStart = header.frame

InputInv == rtStart \in Times /\ aligned \in BOOLEAN /\ (aligned => AlignedInput)

\* The first record of a pair has the time of its picture or none, except
\* between the header of the picture and HandlePicture.
OwnTime ==
  \A p \in {0, 2} : \/ m_PictureStatus[p] \in {0, pictures[p].frame}
                    \/ ret = "PICTURE" /\ p = picture

StampInv ==
  /\ m_PictureStatus \in [0 .. 3 -> Times]
  /\ aligned /\ ret = "PICTURE" /\ rtStart # 0 => rtStart = pictures[picture].frame
  /\ aligned => OwnTime

TimeInv == InputInv /\ StampInv

\* What the places of the samples do to the time, whether the unit is found or lost.
LEMMA PassFacts ==
  ASSUME InputInv, RecordInv, StreamInv, NEW u \in Units, Pass(u)
  PROVE  /\ rtStart' \in Times /\ aligned' \in BOOLEAN
         /\ aligned' =>
              /\ aligned
              /\ rtStart' \in Frames \cup {0, Later}
              /\ rtStart' = Later => stream'.second = NoHeader
              /\ rtStart' \in Frames /\ stream'.second # NoHeader => stream'.second.frame = rtStart'
              /\ u[1] = "pic" /\ rtStart' # 0 => rtStart' = u[2].frame
              /\ code = "pic" => rtStart' \in {0, rtStart}
<1>1. /\ rtStart \in Times /\ aligned \in BOOLEAN
      /\ aligned' = (aligned /\ AlignedWith(u))
      /\ aligned => AlignedInput
  BY DEF InputInv, Pass
<1>2. /\ 0 \notin Frames /\ Later \notin Frames /\ HalfTime \notin Frames /\ Later # 0 /\ HalfTime # 0
      /\ Later # HalfTime /\ Times = Frames \cup {0, Later, HalfTime}
  BY PictureAssumption DEF Frames, Later, HalfTime, Times
<1>3. IF u[1] = "pic" THEN SentPicture(u[2]) ELSE stream'.second = stream.second
  BY SendFacts DEF Pass, SentOther
<1>4. u[1] = "pic" => u[2] \in Coded /\ u[2].frame \in Frames
  BY DEF Units, Coded
<1>5. u[1] = "pic" => IF stream.second # NoHeader
                      THEN u[2].frame = stream.second.frame /\ stream'.second = NoHeader
                      ELSE stream'.second # NoHeader => stream'.second = u[2]
  BY <1>3, <1>4, AfterFieldType DEF SentPicture, SentReference, SentB, SentSecond
<1>6. TimeFrom(u) = IF u[1] # "pic" THEN Later
                    ELSE IF stream.second = NoHeader THEN u[2].frame ELSE HalfTime
  BY DEF TimeFrom
<1>7. rtStart' \in {0, TimeFrom(u), rtStart} /\ (rtStart = Later => rtStart' \in {0, TimeFrom(u)})
  BY DEF Pass, Sampled
<1>8. TimeFrom(u) \in Times
  BY <1>2, <1>4, <1>6
<1>9. rtStart' \in Times /\ aligned' \in BOOLEAN
  BY <1>1, <1>2, <1>7, <1>8
<1>10. ASSUME aligned'
       PROVE  /\ aligned
              /\ rtStart' \in Frames \cup {0, Later}
              /\ rtStart' = Later => stream'.second = NoHeader
              /\ rtStart' \in Frames /\ stream'.second # NoHeader => stream'.second.frame = rtStart'
              /\ u[1] = "pic" /\ rtStart' # 0 => rtStart' = u[2].frame
              /\ code = "pic" => rtStart' \in {0, rtStart}
  <2>1. /\ aligned /\ AlignedWith(u)
        /\ rtStart \in Frames \cup {0, Later}
        /\ rtStart = Later => stream.second = NoHeader
        /\ rtStart \in Frames /\ stream.second # NoHeader => stream.second.frame = rtStart
        /\ code = "pic" /\ rtStart # 0 => rtStart = header.frame
    BY <1>1, <1>10 DEF AlignedInput
  <2>2. code = "pic" => rtStart # Later
    <3>1. code = "pic" => header.frame \in Frames
      BY DEF RecordInv, RecordType, Coded
    <3> QED BY <1>2, <2>1, <3>1
  <2>3. CASE rtStart' = 0
    BY <1>2, <2>1, <2>3
  <2>4. CASE rtStart' = rtStart /\ rtStart # Later /\ rtStart # 0 /\ (u[1] = "pic" => stream.second # NoHeader)
    BY <1>2, <1>3, <1>5, <2>1, <2>4
  <2>5. CASE rtStart' = TimeFrom(u) /\ stream.second = NoHeader /\ code # "pic"
    BY <1>2, <1>3, <1>4, <1>5, <1>6, <2>1, <2>5
  <2>6. \/ rtStart' = 0
        \/ rtStart' = rtStart /\ rtStart # Later /\ rtStart # 0 /\ (u[1] = "pic" => stream.second # NoHeader)
        \/ rtStart' = TimeFrom(u) /\ stream.second = NoHeader /\ code # "pic"
    <3>1. CASE rtStart = Later
      BY <1>7, <2>1, <2>2, <3>1
    <3>2. CASE rtStart # Later
      BY <2>1, <3>2 DEF AlignedWith
    <3> QED BY <3>1, <3>2
  <2> QED BY <2>3, <2>4, <2>5, <2>6
<1> QED BY <1>9, <1>10

\* A unit of the stream passes, and no picture is complete with it.
LEMMA TimePass ==
  ASSUME TimeInv, RecordInv, StreamInv, NEW u \in Units, Pass(u),
         (code' = u[1] /\ header' = u[2]) \/ UNCHANGED <<code, header>>,
         ret # "PICTURE", ret' # "PICTURE",
         UNCHANGED m_PictureStatus, \A p \in {0, 2} : pictures'[p] = pictures[p]
  PROVE  TimeInv'
<1>1. /\ rtStart' \in Times /\ aligned' \in BOOLEAN
      /\ aligned' =>
           /\ aligned
           /\ rtStart' \in Frames \cup {0, Later}
           /\ rtStart' = Later => stream'.second = NoHeader
           /\ rtStart' \in Frames /\ stream'.second # NoHeader => stream'.second.frame = rtStart'
           /\ u[1] = "pic" /\ rtStart' # 0 => rtStart' = u[2].frame
           /\ code = "pic" => rtStart' \in {0, rtStart}
  BY PassFacts DEF TimeInv
<1>2. aligned' => AlignedInput'
  <2>1. aligned' /\ code = "pic" /\ rtStart # 0 => rtStart = header.frame
    BY <1>1 DEF TimeInv, InputInv, AlignedInput
  <2> QED BY <1>1, <2>1 DEF AlignedInput
<1>3. InputInv'
  BY <1>1, <1>2 DEF InputInv
<1>4. StampInv'
  BY <1>1 DEF TimeInv, StampInv, OwnTime
<1> QED BY <1>3, <1>4 DEF TimeInv

\* The header of a picture is complete: the picture has the time, or another took it.
LEMMA TimeFirstField ==
  ASSUME TimeInv, RecordInv, StreamInv, Find, ret # "PICTURE", code = "pic", code' = "slice",
         FirstField, ret' = "PICTURE", UNCHANGED m_PictureStatus
  PROVE  TimeInv'
<1>1. PICK u \in Units : Pass(u) /\ code' = u[1] /\ header' = u[2]
  BY DEF Find
<1>2. /\ rtStart' \in Times /\ aligned' \in BOOLEAN
      /\ aligned' =>
           /\ aligned
           /\ rtStart' \in Frames \cup {0, Later}
           /\ rtStart' = Later => stream'.second = NoHeader
           /\ rtStart' \in Frames /\ stream'.second # NoHeader => stream'.second.frame = rtStart'
           /\ rtStart' \in {0, rtStart}
  BY <1>1, PassFacts DEF TimeInv
<1>3. InputInv'
  BY <1>2 DEF InputInv, AlignedInput
<1>4. Slot \in {0, 2} /\ picture' = Slot /\ pictures' = [pictures EXCEPT ![Slot] = Record(header)]
  BY DEF Slot, FirstField
<1>5. pictures'[picture'].frame = header.frame /\ \A p \in {0, 2} : p # picture' => pictures'[p] = pictures[p]
  BY <1>4 DEF Record, RecordInv, RecordType
<1>6. aligned' /\ rtStart' # 0 => rtStart' = pictures'[picture'].frame
  <2>1. aligned' /\ rtStart # 0 => rtStart = header.frame
    BY <1>2 DEF TimeInv, InputInv, AlignedInput
  <2> QED BY <1>2, <1>5, <2>1
<1>7. aligned' => \A p \in {0, 2} : p # picture' => m_PictureStatus'[p] \in {0, pictures'[p].frame}
  BY <1>2, <1>5 DEF TimeInv, StampInv, OwnTime
<1>8. StampInv'
  <2>1. m_PictureStatus' \in [0 .. 3 -> Times]
    BY DEF TimeInv, StampInv
  <2> QED BY <1>6, <1>7, <2>1 DEF StampInv, OwnTime
<1> QED BY <1>3, <1>8 DEF TimeInv

\* Actions without input.
LEMMA TimeSame ==
  ASSUME TimeInv, ret # "PICTURE", ret' # "PICTURE",
         UNCHANGED <<stream, rtStart, aligned, code, header, m_PictureStatus>>,
         \A p \in {0, 2} : pictures'[p].frame = pictures[p].frame
  PROVE  TimeInv'
BY DEF TimeInv, InputInv, AlignedInput, StampInv, OwnTime

LEMMA TimeSecondField ==
  ASSUME TimeInv, RecordInv, StreamInv, Find, ret # "PICTURE", ret' # "PICTURE", SecondField,
         state = "SLICE_1ST", UNCHANGED m_PictureStatus
  PROVE  TimeInv'
<1>1. PICK u \in Units : Pass(u) /\ code' = u[1] /\ header' = u[2]
  BY DEF Find
<1>2. \A p \in {0, 2} : pictures'[p] = pictures[p]
  BY DEF SecondField, RecordInv, RecordType, FirstOfPair
<1> QED BY <1>1, <1>2, TimePass

\* The picture gets the time of the sample: its own.
LEMMA TimeHandlePicture ==
  ASSUME TimeInv, RecordInv, HandlePicture
  PROVE  TimeInv'
<1>1. /\ ret = "PICTURE" /\ ret' = "none" /\ rtStart' = 0
      /\ m_PictureStatus' = [m_PictureStatus EXCEPT ![picture] = rtStart]
      /\ UNCHANGED <<stream, aligned, code, header, pictures, picture>>
  BY DEF HandlePicture, Stamped
<1>2. rtStart \in Times /\ m_PictureStatus \in [0 .. 3 -> Times] /\ picture \in 0 .. 3 /\ 0 \in Times
  BY DEF TimeInv, InputInv, StampInv, RecordInv, RecordType, Times
<1>3. aligned => rtStart \in {0, pictures[picture].frame}
  BY <1>1 DEF TimeInv, StampInv
<1>4. 0 \notin Frames /\ Later # 0
  BY PictureAssumption DEF Frames, Later
<1>5. InputInv'
  BY <1>1, <1>2, <1>4 DEF TimeInv, InputInv, AlignedInput
<1>6. aligned => \A p \in {0, 2} : m_PictureStatus'[p] \in {0, pictures[p].frame}
  BY <1>1, <1>2, <1>3 DEF TimeInv, StampInv, OwnTime
<1>7. m_PictureStatus' \in [0 .. 3 -> Times]
  BY <1>1, <1>2
<1>8. StampInv'
  BY <1>1, <1>6, <1>7 DEF StampInv, OwnTime
<1> QED BY <1>5, <1>8 DEF TimeInv

LEMMA TimeRestart ==
  ASSUME TimeInv, InitDecode
  PROVE  TimeInv'
<1>1. 0 \notin Frames /\ Later # 0 /\ 0 \in Times
  BY PictureAssumption DEF Frames, Later, Times
<1>2. rtStart' = 0 /\ aligned' = aligned /\ code' = "none" /\ ret' = "none"
      /\ m_PictureStatus' = [i \in 0 .. 3 |-> 0]
  BY DEF InitDecode
<1> QED BY <1>1, <1>2 DEF TimeInv, InputInv, AlignedInput, StampInv, OwnTime

LEMMA TimeInit == Init => TimeInv
<1>1. 0 \notin Frames /\ Later # 0 /\ 0 \in Times
  BY PictureAssumption DEF Frames, Later, Times
<1> QED BY <1>1 DEF Init, TimeInv, InputInv, AlignedInput, StampInv, OwnTime

LEMMA TimeStep ==
  ASSUME TimeInv, RecordInv, StreamInv, [Next]_vars
  PROVE  TimeInv'
<1>1. CASE LoseUnit
  <2>1. PICK u \in Units : Pass(u)
    BY <1>1 DEF LoseUnit
  <2> QED BY <1>1, <2>1, TimePass DEF LoseUnit, libVars, filterVars
<1>2. CASE LoseRest
  <2>1. /\ rtStart = 0 /\ ret = "none"
        /\ UNCHANGED <<rtStart, aligned, code, header, ret, pictures, m_PictureStatus>>
    BY <1>2 DEF LoseRest, libVars, filterVars
  <2>2. 0 \notin Frames /\ Later # 0
    BY PictureAssumption DEF Frames, Later
  <2> QED BY <2>1, <2>2 DEF TimeInv, InputInv, AlignedInput, StampInv, OwnTime
<1>3. ASSUME Find, ret # "PICTURE", ret' # "PICTURE", UNCHANGED <<pictures, m_PictureStatus>>
      PROVE  TimeInv'
  <2>1. PICK u \in Units : Pass(u) /\ code' = u[1] /\ header' = u[2]
    BY <1>3 DEF Find
  <2> QED BY <1>3, <2>1, TimePass
<1>4. CASE SeekHeader \/ SpoiltHeader \/ SequenceHeader \/ GopHeader \/ Slices
  <2>1. Slices => state # "PICTURE"
    BY DEF Slices, RecordInv, FirstOfPair
  <2> QED BY <1>3, <1>4, <2>1 DEF SeekHeader, SpoiltHeader, SequenceHeader, GopHeader, Slices, AtHeader,
                                  ReturnInvalid, filterVars
<1>5. CASE PictureHeader
  <2>1. Find /\ ret = "none" /\ code = "pic" /\ state' = PictureState /\ UNCHANGED m_PictureStatus
    BY <1>5 DEF PictureHeader, AtHeader, ReturnInvalid, filterVars
  <2>2. CASE ReturnInvalid
    BY <1>3, <2>1, <2>2 DEF ReturnInvalid
  <2>3. CASE code' = "slice" /\ state' = "PICTURE" /\ FirstField /\ ret' = state'
    BY <2>1, <2>3, TimeFirstField
  <2>4. CASE state' # "PICTURE" /\ SecondField /\ ret' = state'
    BY <2>1, <2>4, TimeSecondField DEF PictureState
  <2> QED BY <1>5, <2>2, <2>3, <2>4 DEF PictureHeader
<1>6. CASE HeaderEnd \/ SeekSequence \/ InvalidEndAction \/ HandleSlice \/ HandleOther
  BY <1>6, TimeSame DEF HeaderEnd, SeekSequence, InvalidEndAction, HandleSlice, HandleOther, AtHeader,
                        streamVars, libVars, filterVars
<1>7. CASE SliceStart
  <2>1. \A p \in {0, 2} : pictures'[p].frame = pictures[p].frame
    <3>1. CASE pictures' = pictures
      BY <3>1
    <3>2. CASE pictures' = [pictures EXCEPT ![picture].skip = TRUE]
      BY <3>2 DEF RecordInv, RecordType, Pictures
    <3> QED BY <1>7, <3>1, <3>2 DEF SliceStart
  <2> QED BY <1>7, <2>1, TimeSame DEF SliceStart, streamVars, filterVars
<1>8. CASE HandlePicture
  BY <1>8, TimeHandlePicture
<1>9. CASE HandleInvalid \/ Discontinuity
  BY <1>9, TimeRestart DEF HandleInvalid, Discontinuity
<1>10. CASE UNCHANGED vars
  BY <1>10 DEF vars, streamVars, libVars, filterVars, TimeInv, InputInv, AlignedInput, StampInv, OwnTime
<1> QED BY <1>1, <1>2, <1>4, <1>5, <1>6, <1>7, <1>8, <1>9, <1>10 DEF Next, Parse, Transform

LEMMA TimeInvariant == Spec => [](TimeInv /\ StreamInv)
<1>1. Init => TimeInv /\ StreamInv
  BY TimeInit, StreamInit
<1>2. RecordInv /\ TimeInv /\ StreamInv /\ [Next]_vars => (TimeInv /\ StreamInv)'
  BY TimeStep, StreamStep
<1> QED BY <1>1, <1>2, RecordInvariant, PTL DEF Spec

\* Whatever is lost, spoilt or interrupted: as long as a sample with a time begins
\* at the headers of the frame whose time it has, and not inside a picture header,
\* no frame is delivered at the time of another, though Transform gives the time to
\* whichever picture is reported next (TVTestVideoDecoder.cpp:619-624, 657-661
\* and 711-714, with the records chosen in header.c:711-717).
THEOREM TimesFit == Spec => []TimeFitsRecord
<1>1. RecordInv /\ TimeInv => TimeFitsRecord
  <2> SUFFICES ASSUME RecordInv, TimeInv, aligned, AboutToDeliver
               PROVE  m_PictureStatus[info.display_picture]
                        \in {0, pictures[info.display_picture].frame}
    BY DEF TimeFitsRecord
  <2>1. info.display_picture \in {0, 2}
    BY DEF RecordInv, RecordType, Infos, AboutToDeliver
  <2> QED BY <2>1 DEF TimeInv, StampInv, OwnTime, AboutToDeliver
<1> QED BY <1>1, RecordInvariant, TimeInvariant, PTL

\* Every variable of the library, of the filter and of the stream keeps its type,
\* however damaged the stream.
THEOREM TypeCorrect == Spec => []TypeOK
<1>1. ParserTypes /\ FrameTypes /\ RecordInv /\ TimeInv => TypeOK
  <2> SUFFICES ASSUME ParserTypes, FrameTypes, RecordInv, TimeInv
               PROVE  TypeOK
    OBVIOUS
  <2>1. refs \in BoundedSeq(Frames, 2)
    BY RefsFacts DEF FrameTypes
  <2>2. info \in [display_picture : NULL .. 3, display_picture_2nd : NULL .. 3, display_fbuf : NULL .. 2]
    BY DEF RecordInv, RecordType, Infos, NULL
  <2> QED BY <2>1, <2>2 DEF ParserTypes, FrameTypes, RecordInv, RecordType, Pictures, TimeInv, InputInv, StampInv,
                           TypeOK
<1> QED BY <1>1, TypesInvariant, TimeInvariant, PTL

-----------------------------------------------------------------------------
(* Steps between the pictures *)

Base == ParserTypes /\ FrameTypes /\ RecordInv /\ FbufInv /\ StreamInv

Good == /\ PlaceInv /\ FieldsInv /\ PendingInv /\ OrderInv
        /\ ReferenceInv /\ PredictionInv /\ ShowInv /\ EndInv /\ HeldInv

PictureSame ==
  UNCHANGED <<coding_type, picture, pictures, fbuf, first, skip, mem, refs, blank, held, shown>>

LEMMA SequenceNotNone ==
  ASSUME NEW s \in Sequences_
  PROVE  s # NoHeader /\ s.low_delay \in BOOLEAN
<1>1. DOMAIN s = {"format", "low_delay"} /\ s.low_delay \in BOOLEAN
  BY DEF Sequences_
<1>2. DOMAIN NoHeader = {"none"}
  BY DEF NoHeader
<1> QED BY <1>1, <1>2

LEMMA Facts ==
  ASSUME Base
  PROVE  /\ stream.top \in Nat /\ stream.nextB \in Nat /\ stream.bs \in Nat /\ shown \in Nat
         /\ stream.low_delay \in BOOLEAN
         /\ picture \in 0 .. 3 /\ Cur \in {0, 2} /\ LastRef \in {0, 2}
         /\ \A p \in 0 .. 3 : /\ pictures[p].frame \in Nat /\ pictures[p].nb_fields \in {1, 2}
                              /\ pictures[p].skip \in BOOLEAN
         /\ code = "pic" => header \in Coded /\ header.frame \in Frames
         /\ code = "seq" => header \in Sequences_
         /\ sequence \in Sequences_ \cup {NoHeader}
         /\ RefsType
         /\ refs # <<>> => refs[1] \in Nat
         /\ coding_type \in {"I", "P", "B"}
<1>1. /\ stream.top \in Nat /\ stream.nextB \in Nat /\ stream.bs \in Nat /\ shown \in Nat
      /\ stream.low_delay \in BOOLEAN
  <2>1. stream \in StreamType /\ MaxFrames \in Nat /\ shown \in Frames \cup {0}
    BY PictureAssumption DEF Base, StreamInv, FrameTypes
  <2> QED BY <2>1 DEF StreamType, Frames
<1>2. picture \in 0 .. 3 /\ Cur \in {0, 2} /\ LastRef \in {0, 2}
  BY DEF Base, RecordInv, RecordType, Cur, LastRef
<1>3. \A p \in 0 .. 3 : /\ pictures[p].frame \in Nat /\ pictures[p].nb_fields \in {1, 2}
                        /\ pictures[p].skip \in BOOLEAN
  BY DEF Base, RecordInv, RecordType, Pictures, Frames
<1>4. (code = "pic" => header \in Coded /\ header.frame \in Frames) /\ (code = "seq" => header \in Sequences_)
  BY DEF Base, RecordInv, RecordType, ParserTypes, Coded
<1>5. RefsType /\ (refs # <<>> => refs[1] \in Nat)
  BY DEF Base, FrameTypes, RefsType, Frames
<1>6. sequence \in Sequences_ \cup {NoHeader} /\ coding_type \in {"I", "P", "B"}
  BY DEF Base, ParserTypes, CodingTypes
<1> QED BY <1>1, <1>2, <1>3, <1>4, <1>5, <1>6

\* The sender's frames only grow.
LEMMA FindMonotone ==
  ASSUME Base, Find
  PROVE  stream'.top >= stream.top
<1>1. stream.top \in Nat
  BY Facts
<1>2. stream'.top = stream.top \/ stream'.top > stream.top
  BY FindFacts DEF Base, SentPicture, SentReference, SentB, SentSecond, SentOther
<1>3. StreamInv' => stream'.top \in Nat
  BY PictureAssumption DEF StreamInv, StreamType
<1> QED BY <1>1, <1>2, <1>3, FindFacts DEF Base

\* The library waits for a sequence header.
LEMMA LostAfter ==
  ASSUME sequence' = NoHeader, action' = "seek_header", ret' = "none", refs' = <<>>,
         state' # "SLICE_1ST", held' = {}, coding_type' = "I", first', ~skip',
         shown' <= stream'.top,
         code' # "none" => code' = stream'.last,
         code' = "seq" => header' \in Sequences_ /\ header'.low_delay = stream'.low_delay
  PROVE  Good'
<1>1. Lost' /\ ~Synced'
  BY DEF Lost, Synced
<1>2. PlaceInv'
  BY <1>1 DEF PlaceInv
<1>3. FieldsInv' /\ PendingInv' /\ OrderInv'
  BY <1>1 DEF FieldsInv, PendingInv, OrderInv
<1>4. ReferenceInv' /\ PredictionInv' /\ ShowInv' /\ EndInv' /\ HeldInv'
  BY <1>1 DEF ReferenceInv, PredictionInv, ShowInv, EndInv, HeldInv
<1> QED BY <1>2, <1>3, <1>4 DEF Good

LEMMA GoodSeekHeader ==
  ASSUME Base, Good, SeekHeader
  PROVE  Good'
<1>1. Lost
  <2>1. ~Wanted /\ action = "seek_header"
    BY DEF SeekHeader
  <2>2. sequence # NoHeader => code \in {"seq", "gop", "pic", "end"}
    BY <2>1 DEF Good, PlaceInv, Lost
  <2> QED BY <2>1, <2>2 DEF Wanted, Lost
<1>2. /\ sequence = NoHeader /\ ret = "none" /\ refs = <<>> /\ state # "SLICE_1ST" /\ held = {}
      /\ coding_type = "I" /\ first /\ ~skip /\ shown <= stream.top
  BY <1>1 DEF Good, PlaceInv, OrderInv, Lost
<1>3. /\ code' = stream'.last
      /\ code' = "seq" => header' \in Sequences_ /\ header'.low_delay = stream'.low_delay
  BY FindFacts DEF Base, SeekHeader, SentOther
<1>4. shown <= stream'.top
  <2>1. stream'.top >= stream.top /\ stream.top \in Nat /\ shown \in Nat
    BY FindMonotone, Facts DEF SeekHeader
  <2>2. stream'.top \in Nat
    BY FindFacts, PictureAssumption DEF Base, SeekHeader, StreamInv, StreamType
  <2> QED BY <1>2, <2>1, <2>2
<1>5. UNCHANGED <<sequence, ret, refs, state, held, coding_type, first, skip, shown>> /\ action' = "seek_header"
  BY DEF SeekHeader, ghostVars, filterVars
<1> QED BY <1>2, <1>3, <1>4, <1>5, LostAfter

LEMMA GoodRestart ==
  ASSUME Base, Good, SeekSequence \/ HandleInvalid \/ Discontinuity
  PROVE  Good'
<1>1. /\ sequence' = NoHeader /\ action' = "seek_header" /\ ret' = "none" /\ HeaderStateInit
      /\ shown' = shown /\ stream' = stream
      /\ code' = "none" \/ (code' = code /\ header' = header)
  BY DEF SeekSequence, HandleInvalid, Discontinuity, InitDecode, Good, PlaceInv, Lost, filterVars, streamVars
<1>2. state' # "SLICE_1ST"
  BY DEF SeekSequence, HandleInvalid, Discontinuity, InitDecode, Good, PlaceInv
<1>3. /\ shown <= stream.top
      /\ code # "none" => code = stream.last
      /\ code = "seq" => header \in Sequences_ /\ header.low_delay = stream.low_delay
  BY DEF Good, PlaceInv, OrderInv
<1>4. refs' = <<>> /\ held' = {} /\ coding_type' = "I" /\ first' /\ ~skip'
  BY <1>1 DEF HeaderStateInit
<1> QED BY <1>1, <1>2, <1>3, <1>4, LostAfter

\* A header other than a picture's, between two pictures.
Idle == /\ ret = "none" /\ action \in {"seek_header", "parse_header"} /\ code \in {"seq", "gop", "end"}

LEMMA IdleFacts ==
  ASSUME Base, Good, Idle
  PROVE  /\ state # "SLICE_1ST" /\ ~InProgress
         /\ Lost => refs = <<>> /\ held = {} /\ coding_type = "I" /\ first /\ ~skip
         /\ ~Lost => /\ sequence \in Sequences_
                     /\ refs # <<>> => /\ ~HalfCoded /\ held \subseteq (IF sequence.low_delay THEN {} ELSE {refs[1]})
                                       /\ coding_type = "B" => ~sequence.low_delay
<1>1. state # "SLICE_1ST" /\ ~InProgress
  BY DEF Idle, Good, PlaceInv, InProgress
<1>2. Lost => refs = <<>> /\ held = {} /\ coding_type = "I" /\ first /\ ~skip
  BY DEF Good, PlaceInv
<1>3. ASSUME ~Lost
      PROVE  sequence \in Sequences_ /\ Synced
  BY <1>3 DEF Idle, Good, PlaceInv, Synced, Abandoned
<1>4. ASSUME ~Lost, refs # <<>>
      PROVE  /\ ~HalfCoded /\ held \subseteq (IF sequence.low_delay THEN {} ELSE {refs[1]})
             /\ coding_type = "B" => ~sequence.low_delay
  <2>1. ~HalfCoded
    BY <1>1, <1>3, <1>4 DEF Idle, Good, FieldsInv
  <2>2. held \subseteq (IF sequence.low_delay THEN {} ELSE {refs[1]})
    BY <1>1, <1>4 DEF Good, HeldInv
  <2>3. coding_type = "B" => ~sequence.low_delay
    BY <1>4 DEF Good, FieldsInv
  <2> QED BY <2>1, <2>2, <2>3
<1> QED BY <1>1, <1>2, <1>3, <1>4

LEMMA IdleReferences ==
  ASSUME Base, Good, Idle, PictureSame
  PROVE  ReferenceInv' /\ PredictionInv'
<1>1. CASE Lost
  <2>1. refs' = <<>>
    BY <1>1, IdleFacts DEF PictureSame
  <2> QED BY <2>1 DEF ReferenceInv, PredictionInv
<1>2. CASE ~Lost
  <2>1. ~Undecoded /\ ret # "PICTURE" /\ LastRef' = LastRef /\ \A i : RefBuf(i)' = RefBuf(i)
    BY DEF Undecoded, Idle, PictureSame, LastRef, RefBuf
  <2>2. ReferenceInv'
    BY <1>2, <2>1 DEF Good, ReferenceInv, PictureSame
  <2>3. PredictionInv'
    BY <1>2, <2>1 DEF Good, PredictionInv, PictureSame
  <2> QED BY <2>2, <2>3
<1> QED BY <1>1, <1>2

LEMMA IdleFields ==
  ASSUME Base, Good, Idle, PictureSame, ~Lost',
         state' # "SLICE_1ST", action' \notin {"slice_start", "slices"}, ret' # "SLICE",
         ~Lost => sequence' = sequence
  PROVE  FieldsInv' /\ ShowInv' /\ HeldInv'
<1>1. ~InProgress'
  BY DEF InProgress
<1>2. Lost => refs' = <<>>
  BY IdleFacts DEF PictureSame
<1>3. Cur' = Cur /\ HalfCoded' = HalfCoded
  BY DEF PictureSame, Cur, HalfCoded
<1>4. FieldsInv'
  <2>1. ASSUME ~Lost, refs # <<>>
        PROVE  picture # Cur => pictures[Cur].nb_fields = 1 /\ pictures[picture].frame = pictures[Cur].frame
    BY <2>1 DEF Good, FieldsInv
  <2> QED BY <1>2, <1>3, <2>1, IdleFacts DEF FieldsInv, PictureSame
<1>5. HeldInv'
  BY <1>1, <1>2, IdleFacts DEF HeldInv, PictureSame
<1> QED BY <1>1, <1>4, <1>5 DEF ShowInv

\* Between two groups the last reference is the last frame that was sent.
LEMMA BetweenOrder ==
  ASSUME Base, Good, Idle, ~Lost
  PROVE  /\ stream.bs = 0 /\ stream.second = NoHeader
         /\ refs # <<>> =>
              /\ refs[1] = stream.top /\ stream.nextB = stream.top
              /\ shown < stream.top + (IF sequence.low_delay THEN 1 ELSE 0)
              /\ coding_type # "B" => pictures[Cur].frame = refs[1]
<1>1. stream.last \in {"seq", "gop", "end"} /\ Synced /\ ~Pending
  BY DEF Idle, Good, PlaceInv, Synced, Abandoned, Pending
<1>2. stream.bs = 0 /\ stream.second = NoHeader
  BY <1>1 DEF Base, StreamInv
<1>3. refs # <<>> => /\ refs[1] = stream.top /\ shown < Due
                     /\ coding_type # "B" => pictures[Cur].frame = refs[1]
  BY <1>1 DEF Good, OrderInv
<1>4. refs # <<>> => refs[1] # 0
  BY DEF Base, FrameTypes, RefsType, Frames
<1>5. Due = stream.nextB + (IF sequence.low_delay THEN 1 ELSE 0) - 0
  BY <1>1 DEF Due
<1>6. stream.top \in Nat /\ stream.nextB \in Nat /\ shown \in Nat
  BY Facts
<1>7. stream.top # 0 => stream.nextB + stream.bs = stream.top
  BY DEF Base, StreamInv
<1>8. refs # <<>> => stream.nextB = stream.top
  BY <1>2, <1>3, <1>4, <1>6, <1>7
<1>9. refs # <<>> => shown < stream.top + (IF sequence.low_delay THEN 1 ELSE 0)
  BY <1>3, <1>5, <1>6, <1>8
<1> QED BY <1>2, <1>3, <1>8, <1>9

LEMMA GoodGopHeader ==
  ASSUME Base, Base', Good, GopHeader, damage' = 0
  PROVE  Good'
<1>1. code = "gop" /\ ret = "none" /\ Idle
  BY DEF GopHeader, AtHeader, Idle
<1>2. ~Lost
  BY <1>1 DEF GopHeader, AtHeader, Wanted, Lost, Good, PlaceInv
<1>3. stream.last = "gop" /\ stream.bs = 0 /\ stream.second = NoHeader
  BY <1>1 DEF Good, PlaceInv, Base, StreamInv
<1>4. /\ code' = "pic" /\ SentPicture(header') /\ SentReference(header')
      /\ stream'.last = "pic"
  BY <1>3, FindFacts DEF GopHeader, Base, SentOther, SentPicture, SentB, SentSecond
<1>5. /\ action' = "parse_header" /\ state' = "GOP" /\ info' = NoInfo /\ ret' = "GOP" /\ PictureSame
      /\ sequence' = sequence /\ new_sequence' = new_sequence
  BY <1>4 DEF GopHeader, ReturnInvalid, PictureSame, filterVars, ghostVars
<1>6. /\ ~Lost' /\ Synced /\ Synced' /\ sequence \in Sequences_ /\ state # "SLICE_1ST"
      /\ sequence.low_delay = stream.low_delay
  BY <1>1, <1>2, <1>5 DEF Lost, Synced, Abandoned, Good, PlaceInv, Idle
<1>7. PlaceInv'
  BY <1>2, <1>4, <1>5, <1>6 DEF Good, PlaceInv, PictureSame, Synced, Abandoned, Lost, SentPicture
<1>8. FieldsInv' /\ ShowInv' /\ HeldInv'
  BY <1>1, <1>5, <1>6, IdleFields
<1>9. PendingInv'
  BY <1>4, <1>5 DEF PendingInv, SentPicture, SentReference
<1>10. OrderInv'
  <2>1. /\ stream'.nextB = stream.top + 1 /\ stream'.top > stream.top
        /\ stream.top \in Nat /\ shown \in Nat /\ header'.type # "B" /\ shown <= stream.top
    BY <1>4, Facts DEF SentReference, Good, OrderInv
  <2>2. stream'.top \in Nat
    BY PictureAssumption DEF Base, StreamInv, StreamType
  <2>4. Pending'
    BY <1>4, <1>5 DEF Pending
  <2>5. refs # <<>> => /\ refs[1] = stream.top /\ shown < stream.top + (IF sequence.low_delay THEN 1 ELSE 0)
                       /\ coding_type # "B" => pictures[Cur].frame = refs[1]
    BY <1>1, <1>2, BetweenOrder
  <2>8. refs # <<>> => shown < Due'
    <3>1. Due' = stream.top + 1 + (IF sequence.low_delay THEN 1 ELSE 0) - 1
      BY <1>5, <2>1, <2>4 DEF Due
    <3> QED BY <2>1, <2>5, <3>1
  <2>9. Behind' /\ shown' <= stream'.top /\ shown' = shown
    BY <1>4, <1>5, <2>1, <2>2 DEF Behind, PictureSame
  <2>10. refs # <<>> => refs[1] = stream'.nextB - 1
    BY <2>1, <2>5
  <2>11. refs' = refs /\ coding_type' = coding_type /\ pictures' = pictures /\ Cur' = Cur
    BY <1>5 DEF PictureSame, Cur
  <2>12. action' # "invalid_end"
    BY <1>5
  <2> QED BY <2>1, <2>4, <2>5, <2>8, <2>9, <2>10, <2>11, <2>12 DEF OrderInv
<1>11. ReferenceInv' /\ PredictionInv'
  BY <1>1, <1>5, IdleReferences
<1>12. EndInv'
  BY <1>5 DEF EndInv
<1> QED BY <1>7, <1>8, <1>9, <1>10, <1>11, <1>12 DEF Good

LEMMA GoodHeaderEnd ==
  ASSUME Base, Base', Good, HeaderEnd
  PROVE  Good'
<1>1. code = "end" /\ ret = "none" /\ action = "seek_header" /\ Wanted /\ Idle
  BY DEF HeaderEnd, AtHeader, Idle
<1>2. ~Lost
  BY <1>1 DEF Wanted, Lost
<1>3. /\ action' = "seek_sequence" /\ ret' = "END" /\ DisplayLast /\ PictureSame
      /\ UNCHANGED <<stream, code, header, state, sequence, new_sequence>>
  BY DEF HeaderEnd, PictureSame, filterVars, ghostVars, streamVars
<1>4. /\ ~Lost' /\ ~Synced' /\ sequence \in Sequences_ /\ state # "SLICE_1ST" /\ Synced
  BY <1>1, <1>2, <1>3 DEF Lost, Synced, Abandoned, Good, PlaceInv
<1>5. refs # <<>>
  BY <1>1, <1>4 DEF Good, PlaceInv
<1>6. PlaceInv'
  BY <1>1, <1>2, <1>3, <1>4, <1>5 DEF Good, PlaceInv, PictureSame, Lost
<1>7. FieldsInv' /\ ShowInv' /\ HeldInv'
  BY <1>1, <1>3, <1>4, IdleFields
<1>8. PendingInv'
  BY <1>1, <1>3 DEF PendingInv
<1>9. OrderInv'
  BY <1>3, <1>4, <1>5 DEF OrderInv, Good, PictureSame
<1>10. ReferenceInv' /\ PredictionInv'
  BY <1>1, <1>3, IdleReferences
<1>11. EndInv'
  <2>1. refs' = refs /\ LastRef' = LastRef /\ RefBuf(1)' = RefBuf(1) /\ sequence' = sequence
        /\ pictures' = pictures /\ mem' = mem /\ shown' = shown
    BY <1>3 DEF PictureSame, LastRef, RefBuf
  <2>2. CASE sequence.low_delay
    BY <1>3, <1>5, <2>1, <2>2 DEF EndInv, DisplayLast
  <2>3. CASE ~sequence.low_delay
    <3>1. info' = [display_picture |-> LastRef,
                   display_picture_2nd |-> IF pictures[LastRef].nb_fields = 1 THEN LastRef + 1 ELSE NULL,
                   display_fbuf |-> RefBuf(1)]
      BY <1>3, <2>3 DEF DisplayLast, LastRef, RefBuf
    <3>2. /\ info'.display_picture = LastRef /\ info'.display_fbuf = RefBuf(1)
          /\ info'.display_picture_2nd = IF pictures[LastRef].nb_fields = 1 THEN LastRef + 1 ELSE NULL
      BY <3>1
    <3>3. /\ pictures[LastRef].frame = refs[1]
          /\ pictures[LastRef].skip \/ mem[RefBuf(1)] = {refs[1]}
          /\ pictures[LastRef].nb_fields = 1 => picture = LastRef \/ pictures[LastRef + 1].frame = refs[1]
      BY <1>1, <1>2, <1>5 DEF Good, ReferenceInv, Undecoded
    <3>4. pictures[LastRef].nb_fields = 1 => picture # LastRef
      <4>1. ~HalfCoded
        BY <1>1, <1>2, <1>5, IdleFacts
      <4>2. picture = LastRef => picture = Cur
        BY Facts DEF LastRef, Cur
      <4> QED BY <4>1, <4>2 DEF HalfCoded
    <3>5. shown < refs[1] /\ refs[1] <= stream.top
      <4>1. refs[1] = stream.top /\ shown < stream.top + 0
        BY <1>1, <1>2, <1>5, <2>3, BetweenOrder
      <4>2. stream.top \in Nat /\ shown \in Nat
        BY Facts
      <4> QED BY <4>1, <4>2
    <3>6. ShownFrame' = refs[1]
      BY <2>1, <3>2, <3>3 DEF ShownFrame
    <3> QED BY <1>3, <1>5, <2>1, <2>3, <3>2, <3>3, <3>4, <3>5, <3>6 DEF EndInv
  <2> QED BY <2>2, <2>3
<1> QED BY <1>6, <1>7, <1>8, <1>9, <1>10, <1>11 DEF Good

LEMMA GoodSequenceHeader ==
  ASSUME Base, Base', Good, SequenceHeader
  PROVE  Good'
<1>1. code = "seq" /\ ret = "none" /\ action \in {"seek_header", "parse_header"} /\ Idle
  BY DEF SequenceHeader, AtHeader, Idle
<1>2. /\ stream.last = "seq" /\ stream.bs = 0 /\ stream.second = NoHeader
      /\ header \in Sequences_ /\ header.low_delay = stream.low_delay
  BY <1>1 DEF Good, PlaceInv, Base, StreamInv
<1>3. code' \in {"pic", "gop"} /\ stream'.last = code' /\ stream'.low_delay = stream.low_delay
  BY <1>2, FindFacts DEF SequenceHeader, Base, SentOther, SentPicture
<1>4. /\ stream.top \in Nat /\ shown \in Nat /\ shown <= stream.top
      /\ code' = "gop" => stream'.top = stream.top /\ stream'.nextB = stream.nextB
      /\ code' = "pic" => /\ stream'.nextB = stream.top + 1 /\ stream'.top > stream.top
                          /\ header' \in Coded /\ header'.type # "B"
                          /\ header'.frame = stream'.top /\ stream'.second = AfterField(header')
  BY <1>2, FindFacts, Facts
     DEF SequenceHeader, Base, SentOther, SentPicture, SentReference, SentB, SentSecond, Good, OrderInv
<1>5. stream'.top \in Nat /\ stream'.nextB \in Nat
  BY PictureAssumption DEF Base, StreamInv, StreamType
<1>6. /\ new_sequence' = header /\ ret' = state' /\ PictureSame
      /\ \/ /\ sequence # NoHeader /\ action' = "invalid_end" /\ state' = "INVALID_END"
            /\ sequence' = sequence
         \/ /\ sequence = NoHeader \/ header = sequence
            /\ sequence' = header /\ action' = "parse_header"
            /\ state' \in {"SEQUENCE", "SEQUENCE_REPEATED", "SEQUENCE_MODIFIED"}
  BY <1>3 DEF SequenceHeader, PictureSame, filterVars, ghostVars
<1>7. sequence' \in Sequences_ /\ ~Lost' /\ ret' \notin {"none", "SLICE", "END", "PICTURE"}
      /\ state' # "SLICE_1ST" /\ action' \notin {"slice_start", "slices"}
  BY <1>2, <1>6, Facts, SequenceNotNone DEF Lost
<1>8. ~Lost => sequence' = sequence /\ Synced /\ refs # <<>>
  BY <1>1, <1>6 DEF Lost, Synced, Abandoned, Good, PlaceInv
<1>9. PlaceInv'
  <2>1. refs' = refs /\ coding_type' = coding_type /\ first' = first /\ skip' = skip /\ held' = held
    BY <1>6 DEF PictureSame
  <2>2. first <=> refs = <<>> \/ sequence'.low_delay
    BY <1>8, IdleFacts, <1>1 DEF Good, PlaceInv
  <2>3. refs = <<>> => held = {} /\ coding_type = "I" /\ first /\ ~skip
    BY DEF Good, PlaceInv
  <2>4. Synced' => sequence'.low_delay = stream'.low_delay
    BY <1>2, <1>3, <1>6 DEF Synced, Abandoned
  <2>5. action' = "invalid_end" => new_sequence' \in Sequences_
                                  /\ new_sequence'.low_delay = stream'.low_delay /\ state' = "INVALID_END"
    BY <1>2, <1>3, <1>6
  <2>6. action' \in {"invalid_end", "parse_header"}
    BY <1>6
  <2> QED BY <1>2, <1>3, <1>7, <2>1, <2>2, <2>3, <2>4, <2>5, <2>6 DEF PlaceInv
<1>10. FieldsInv' /\ ShowInv' /\ HeldInv'
  BY <1>1, <1>6, <1>7, <1>8, IdleFields
<1>11. PendingInv'
  BY <1>4, <1>7 DEF PendingInv
<1>12. OrderInv'
  <2>1. ~Lost => /\ refs[1] = stream.top /\ stream.nextB = stream.top
                 /\ shown < stream.top + (IF sequence.low_delay THEN 1 ELSE 0)
                 /\ coding_type # "B" => pictures[Cur].frame = refs[1]
    BY <1>1, <1>8, BetweenOrder
  <2>2. shown' = shown /\ refs' = refs /\ coding_type' = coding_type /\ pictures' = pictures /\ Cur' = Cur
    BY <1>6 DEF PictureSame, Cur
  <2>3. shown' <= stream'.top
    BY <1>3, <1>4, <1>5, <2>2
  <2>4. Behind'
    BY <1>3, <1>4, <1>5, <2>2 DEF Behind
  <2>5. Pending' <=> code' = "pic"
    BY <1>7 DEF Pending
  <2>6. Lost => refs = <<>>
    BY DEF Good, PlaceInv
  <2>7. ~Lost => shown < Due'
    <3>1. Due' = stream'.nextB + (IF sequence'.low_delay THEN 1 ELSE 0) - (IF code' = "pic" THEN 1 ELSE 0)
      BY <2>5 DEF Due
    <3> QED BY <1>3, <1>4, <1>5, <1>8, <2>1, <3>1
  <2>8. ~Lost => refs[1] = IF Pending' /\ header'.type # "B" THEN stream'.nextB - 1 ELSE stream'.top
    BY <1>3, <1>4, <2>1, <2>5
  <2> QED BY <2>1, <2>2, <2>3, <2>4, <2>6, <2>7, <2>8 DEF OrderInv
<1>13. ReferenceInv' /\ PredictionInv'
  BY <1>1, <1>6, IdleReferences
<1>14. EndInv'
  BY <1>7 DEF EndInv
<1> QED BY <1>9, <1>10, <1>11, <1>12, <1>13, <1>14 DEF Good

\* Shows the last reference no more, and starts with the new sequence.
LEMMA GoodInvalidEnd ==
  ASSUME Base, Base', Good, InvalidEndAction
  PROVE  Good'
<1>1. /\ action = "invalid_end" /\ HeaderStateInit /\ sequence' = new_sequence
      /\ action' = "seek_header" /\ state' = "SEQUENCE" /\ ret' = "SEQUENCE"
      /\ shown' = shown /\ UNCHANGED <<stream, code, header>>
  BY DEF InvalidEndAction, filterVars, streamVars
<1>2. /\ code \in {"gop", "pic"} /\ new_sequence \in Sequences_ /\ state # "SLICE_1ST" /\ ~Lost
      /\ new_sequence.low_delay = stream.low_delay /\ code = stream.last
  BY <1>1 DEF Good, PlaceInv, Lost
<1>3. /\ refs' = <<>> /\ held' = {} /\ coding_type' = "I" /\ first' /\ ~skip'
  BY <1>1 DEF HeaderStateInit
<1>4. ~Lost' /\ sequence' \in Sequences_ /\ sequence'.low_delay = stream.low_delay /\ Synced'
  BY <1>1, <1>2, SequenceNotNone DEF Lost, Synced, Abandoned
<1>5. PlaceInv'
  BY <1>1, <1>2, <1>3, <1>4 DEF PlaceInv
<1>6. FieldsInv' /\ ReferenceInv' /\ HeldInv' /\ PredictionInv' /\ EndInv'
  BY <1>1, <1>3 DEF FieldsInv, ReferenceInv, HeldInv, PredictionInv, EndInv
<1>7. ShowInv'
  BY <1>1 DEF ShowInv, InProgress
<1>8. PendingInv'
  BY <1>1, <1>2 DEF PendingInv, Good
<1>9. OrderInv'
  BY <1>1, <1>3 DEF OrderInv, Behind, Good
<1> QED BY <1>5, <1>6, <1>7, <1>8, <1>9 DEF Good

-----------------------------------------------------------------------------
(* The header of a picture *)

LEMMA PictureHeaderFacts ==
  ASSUME Base, Base', Good, PictureHeader
  PROVE  /\ code = "pic" /\ ret = "none" /\ action \in {"seek_header", "parse_header"}
         /\ Synced /\ Synced' /\ sequence' = sequence /\ sequence \in Sequences_
         /\ sequence.low_delay = stream.low_delay
         /\ code' = "slice" /\ stream'.last = "slice" /\ stream'.nextB = stream.nextB
         /\ stream'.top = stream.top /\ stream'.second = stream.second
         /\ stream'.low_delay = stream.low_delay
         /\ action' = "slice_start" /\ ret' = state' /\ coding_type' = header.type
         /\ IF state = "SLICE_1ST" THEN SecondField /\ state' = "PICTURE_2ND"
            ELSE FirstField /\ state' = "PICTURE"
         /\ UNCHANGED <<skip, mem, shown, held>>
<1>1. /\ code = "pic" /\ ret = "none" /\ action \in {"seek_header", "parse_header"}
      /\ action = "parse_header" \/ sequence # NoHeader
  BY DEF PictureHeader, AtHeader, Wanted
<1>2. ~Lost /\ Synced /\ sequence \in Sequences_ /\ sequence.low_delay = stream.low_delay
      /\ stream.last = "pic"
  BY <1>1 DEF Lost, Synced, Abandoned, Good, PlaceInv
<1>3. /\ code' = "slice" /\ stream'.last = "slice" /\ stream'.nextB = stream.nextB
      /\ stream'.top = stream.top /\ stream'.second = stream.second
      /\ stream'.low_delay = stream.low_delay
  BY <1>2, FindFacts DEF PictureHeader, Base, SentPicture, SentReference, SentB, SentSecond, SentOther
<1>4. /\ action' = "slice_start" /\ ret' = state' /\ coding_type' = header.type
      /\ state' = PictureState
      /\ IF state' = "PICTURE" THEN FirstField ELSE SecondField
      /\ UNCHANGED <<skip, mem, shown, held, sequence>>
  BY <1>3 DEF PictureHeader, filterVars
<1>5. Synced'
  BY <1>2, <1>4 DEF Synced, Lost, Abandoned
<1> QED BY <1>1, <1>2, <1>3, <1>4, <1>5 DEF PictureState

LEMMA SecondFieldFacts ==
  ASSUME Base, Base', Good, PictureHeader, state = "SLICE_1ST"
  PROVE  /\ refs # <<>> /\ picture = Cur /\ pictures[Cur].nb_fields = 1
         /\ stream.second = NoHeader /\ header.frame = pictures[Cur].frame
         /\ header.type = "B" <=> coding_type = "B"
         /\ picture' = Cur + 1 /\ Cur' = Cur /\ LastRef' = LastRef
         /\ \A i : RefBuf(i)' = RefBuf(i)
         /\ pictures'[Cur + 1].frame = pictures[Cur].frame
         /\ \A p \in 0 .. 3 : p # Cur + 1 => pictures'[p] = pictures[p]
         /\ fbuf' = fbuf /\ first' = first /\ refs' = refs /\ blank' = blank
         /\ info' = IF coding_type = "B" \/ sequence.low_delay
                    THEN [info EXCEPT !.display_picture_2nd = Cur + 1] ELSE info
<1>1. SecondField /\ Synced /\ code = "pic" /\ action \in {"seek_header", "parse_header"}
      /\ coding_type' = header.type
  BY PictureHeaderFacts
<1>2. refs # <<>>
  BY <1>1 DEF Good, PlaceInv
<1>3. picture = Cur /\ pictures[Cur].nb_fields = 1
  BY <1>1, <1>2 DEF Good, FieldsInv, HalfCoded
<1>4. /\ stream.second = NoHeader /\ header.frame = pictures[Cur].frame
      /\ header.type = "B" <=> coding_type = "B"
  BY <1>1, <1>3 DEF Good, PendingInv, Synced
<1>5. Cur \in {0, 2} /\ picture' = Cur + 1
  BY <1>1, <1>3, Facts DEF SecondField
<1>6. Cur' = Cur
  BY <1>3, <1>5 DEF Cur
<1>7. LastRef' = LastRef
  BY <1>1, <1>3, <1>4, <1>5 DEF LastRef
<1>8. pictures' = [pictures EXCEPT ![Cur + 1] = Record(header)] /\ pictures \in [0 .. 3 -> Pictures]
  BY <1>1, <1>3 DEF SecondField, Base, RecordInv, RecordType
<1>9. pictures'[Cur + 1] = Record(header) /\ \A p \in 0 .. 3 : p # Cur + 1 => pictures'[p] = pictures[p]
  BY <1>5, <1>8
<1>10. pictures'[Cur + 1].frame = pictures[Cur].frame
  BY <1>4, <1>9 DEF Record
<1>11. /\ fbuf' = fbuf /\ first' = first /\ refs' = refs /\ blank' = blank
       /\ info' = IF coding_type = "B" \/ sequence.low_delay
                  THEN [info EXCEPT !.display_picture_2nd = Cur + 1] ELSE info
  BY <1>1, <1>3, <1>4 DEF SecondField
<1>12. \A i : RefBuf(i)' = RefBuf(i)
  BY <1>1, <1>4, <1>11 DEF RefBuf
<1> QED BY <1>2, <1>3, <1>4, <1>5, <1>6, <1>7, <1>9, <1>10, <1>11, <1>12

LEMMA GoodSecondField ==
  ASSUME Base, Base', Good, PictureHeader, state = "SLICE_1ST"
  PROVE  Good'
<1>1. PlaceInv'
  BY PictureHeaderFacts, SecondFieldFacts DEF PlaceInv, Good, Synced
<1>2. FieldsInv'
  <2>1. ~HalfCoded' /\ picture' # Cur'
    BY SecondFieldFacts, Facts DEF HalfCoded
  <2>2. coding_type = "B" => ~sequence.low_delay
    BY SecondFieldFacts, PictureHeaderFacts DEF Good, FieldsInv, Synced
  <2>3. pictures'[Cur].nb_fields = 1 /\ pictures'[picture'].frame = pictures'[Cur].frame
    BY SecondFieldFacts, Facts
  <2> QED BY <2>1, <2>2, <2>3, PictureHeaderFacts, SecondFieldFacts DEF FieldsInv
<1>3. PendingInv' /\ EndInv'
  BY PictureHeaderFacts DEF PendingInv, EndInv
<1>4. Due' = Due /\ ~Pending /\ ~Pending'
  BY PictureHeaderFacts DEF Due, Pending
<1>5. OrderInv'
  BY <1>4, PictureHeaderFacts, SecondFieldFacts, Facts DEF OrderInv, Good, Synced
<1>6. ~Undecoded /\ ~Lost
  BY PictureHeaderFacts DEF Undecoded, Synced
<1>7. ReferenceInv'
  <2>1. /\ pictures[LastRef].frame = refs[1]
        /\ pictures[LastRef].nb_fields = 1 => picture = LastRef \/ pictures[LastRef + 1].frame = refs[1]
        /\ pictures[LastRef].skip \/ mem[RefBuf(1)] = {refs[1]}
    BY <1>6, SecondFieldFacts DEF Good, ReferenceInv
  <2>2. pictures'[LastRef] = pictures[LastRef]
    BY SecondFieldFacts, Facts
  <2>3. pictures[LastRef].nb_fields = 1 => pictures'[LastRef + 1].frame = refs[1]
    <3>1. CASE LastRef = Cur
      BY <2>1, <3>1, SecondFieldFacts
    <3>2. CASE LastRef # Cur
      <4>1. LastRef + 1 # Cur + 1 /\ LastRef + 1 \in 0 .. 3 /\ picture # LastRef
        BY <3>2, SecondFieldFacts, Facts
      <4> QED BY <2>1, <4>1, SecondFieldFacts
    <3> QED BY <3>1, <3>2
  <2> QED BY <2>1, <2>2, <2>3, SecondFieldFacts, PictureHeaderFacts DEF ReferenceInv
<1>8. PredictionInv'
  BY <1>6, SecondFieldFacts, PictureHeaderFacts DEF Good, PredictionInv
<1>9. info'.display_picture = info.display_picture
      /\ info'.display_fbuf = info.display_fbuf
      /\ info'.display_picture_2nd = IF coding_type = "B" \/ sequence.low_delay THEN Cur + 1
                                     ELSE info.display_picture_2nd
  BY SecondFieldFacts DEF Base, RecordInv, RecordType, Infos
<1>10. Synced /\ InProgress /\ InProgress' /\ Synced'
  BY PictureHeaderFacts DEF InProgress
<1>11. info.display_picture # NULL => ShownFrame' = ShownFrame
  <2>1. info.display_picture \in {NULL, 0, 2}
    BY DEF Base, RecordInv, RecordType, Infos
  <2>2. info.display_picture # NULL => pictures'[info.display_picture] = pictures[info.display_picture]
    BY <2>1, SecondFieldFacts, Facts
  <2> QED BY <1>9, <2>2 DEF ShownFrame
<1>12. ShowInv'
  <2>1. CASE coding_type = "B" \/ sequence.low_delay
    <3>1. ShowsItself /\ (info.display_picture # NULL => shown < ShownFrame /\ ShownFrame < Due)
      BY <1>10, <2>1 DEF Good, ShowInv
    <3>2. pictures'[Cur] = pictures[Cur] /\ picture' # Cur
      BY SecondFieldFacts, Facts
    <3>3. ShowsItself'
      BY <1>6, <1>9, <2>1, <3>1, <3>2, SecondFieldFacts, PictureHeaderFacts DEF ShowsItself
    <3> QED BY <1>4, <1>9, <1>11, <2>1, <3>1, <3>3, SecondFieldFacts, PictureHeaderFacts DEF ShowInv
  <2>2. CASE ~(coding_type = "B" \/ sequence.low_delay)
    <3>1. /\ IF Len(refs) = 1 THEN info = NoInfo ELSE ShowsReference
          /\ info.display_picture # NULL => shown < ShownFrame /\ ShownFrame < Due
      BY <1>10, <2>2 DEF Good, ShowInv
    <3>2. info' = info
      BY <2>2, SecondFieldFacts
    <3>3. ShowsReference => ShowsReference'
      <4>1. SUFFICES ASSUME ShowsReference
                     PROVE  ShowsReference'
        OBVIOUS
      <4>2. info.display_picture = 2 - Cur /\ Cur \in {0, 2}
        BY <4>1, Facts DEF ShowsReference
      <4>3. pictures'[2 - Cur] = pictures[2 - Cur] /\ pictures'[2 - Cur + 1] = pictures[2 - Cur + 1]
        BY <4>2, SecondFieldFacts
      <4> QED BY <4>1, <4>2, <4>3, <3>2, SecondFieldFacts, PictureHeaderFacts DEF ShowsReference
    <3> QED BY <1>4, <1>11, <2>2, <3>1, <3>2, <3>3, SecondFieldFacts, PictureHeaderFacts DEF ShowInv
  <2> QED BY <2>1, <2>2
<1>13. HeldInv'
  BY <1>6, <1>9, <1>10, <1>11, SecondFieldFacts, PictureHeaderFacts DEF Good, HeldInv
<1> QED BY <1>1, <1>2, <1>3, <1>5, <1>7, <1>8, <1>12, <1>13 DEF Good

LEMMA FirstFieldFacts ==
  ASSUME Base, Base', Good, PictureHeader, state # "SLICE_1ST"
  PROVE  /\ picture' = 2 - LastRef /\ Cur' = 2 - LastRef
         /\ LastRef' = IF header.type = "B" THEN LastRef ELSE 2 - LastRef
         /\ coding_type # "B" => Cur = LastRef
         /\ pictures'[2 - LastRef] = Record(header)
         /\ \A p \in 0 .. 3 : p # 2 - LastRef => pictures'[p] = pictures[p]
         /\ fbuf'[1] = RefBuf(1) /\ fbuf'[2] = RefBuf(2)
         /\ RefBuf(1)' = fbuf'[IF header.type = "B" THEN 1 ELSE 0]
         /\ RefBuf(2)' = fbuf'[IF header.type = "B" THEN 2 ELSE 1]
         /\ info' = DisplayOf(header.type, 2 - LastRef, fbuf')
         /\ first' = StillFirst(header.type)
         /\ refs' = IF header.type = "B" THEN refs
                    ELSE IF refs = <<>> THEN <<header.frame>> ELSE <<header.frame, refs[1]>>
         /\ blank' = blank \cap ToSet(refs')
<1>1. FirstField /\ coding_type' = header.type
  BY PictureHeaderFacts
<1>2. Slot = 2 - LastRef /\ picture \in 0 .. 3 /\ LastRef \in {0, 2}
  BY Facts DEF Slot, LastRef
<1>3. picture' = 2 - LastRef
  BY <1>1, <1>2 DEF FirstField
<1>4. Cur' = 2 - LastRef
  BY <1>2, <1>3 DEF Cur
<1>5. LastRef' = IF header.type = "B" THEN LastRef ELSE 2 - LastRef
  BY <1>1, <1>2, <1>3 DEF LastRef
<1>6. coding_type # "B" => Cur = LastRef
  BY <1>2 DEF Cur, LastRef
<1>7. pictures' = [pictures EXCEPT ![2 - LastRef] = Record(header)] /\ pictures \in [0 .. 3 -> Pictures]
  BY <1>1, <1>2 DEF FirstField, Base, RecordInv, RecordType
<1>8. /\ pictures'[2 - LastRef] = Record(header)
      /\ \A p \in 0 .. 3 : p # 2 - LastRef => pictures'[p] = pictures[p]
  BY <1>2, <1>7
<1>9. fbuf'[1] = RefBuf(1) /\ fbuf'[2] = RefBuf(2)
  <2> DEFINE g == References
  <2>1. g \in [0 .. 2 -> 0 .. 2] /\ g[1] = RefBuf(1) /\ g[2] = RefBuf(2)
    BY DEF References, RefBuf, Base, FbufInv
  <2>2. fbuf' = [g EXCEPT ![0] = SetFbuf(g)]
    BY <1>1 DEF FirstField
  <2> HIDE DEF g
  <2> QED BY <2>1, <2>2
<1>10. /\ RefBuf(1)' = fbuf'[IF header.type = "B" THEN 1 ELSE 0]
       /\ RefBuf(2)' = fbuf'[IF header.type = "B" THEN 2 ELSE 1]
  BY <1>1 DEF RefBuf
<1>11. info' = DisplayOf(header.type, 2 - LastRef, fbuf')
  BY <1>1, <1>2 DEF FirstField
<1>12. /\ first' = StillFirst(header.type)
       /\ refs' = IF header.type = "B" THEN refs
                  ELSE IF refs = <<>> THEN <<header.frame>> ELSE <<header.frame, refs[1]>>
       /\ blank' = blank \cap ToSet(refs')
  BY <1>1 DEF FirstField
<1> QED BY <1>3, <1>4, <1>5, <1>6, <1>8, <1>9, <1>10, <1>11, <1>12

\* What a picture's header finds when it is not that of a second field.
LEMMA BeforeFirstField ==
  ASSUME Base, Base', Good, PictureHeader, state # "SLICE_1ST"
  PROVE  /\ header \in Coded /\ header.frame \in Nat /\ header.frame # 0
         /\ stream.second = AfterField(header)
         /\ IF header.type = "B"
            THEN header.frame = stream.nextB - 1 /\ ~sequence.low_delay /\ refs # <<>>
            ELSE header.frame = stream.top
         /\ shown < stream.nextB
         /\ refs # <<>> => /\ shown < stream.nextB + (IF sequence.low_delay THEN 1 ELSE 0) - 1
                           /\ refs[1] = IF header.type = "B" THEN stream.top ELSE stream.nextB - 1
         /\ sequence.low_delay => stream.nextB = stream.top
         /\ Due' = stream.nextB + (IF sequence.low_delay THEN 1 ELSE 0)
         /\ held \subseteq (IF sequence.low_delay \/ refs = <<>> THEN {} ELSE {refs[1]})
         /\ first <=> refs = <<>> \/ sequence.low_delay
<1>1. /\ code = "pic" /\ Synced /\ sequence' = sequence /\ code' = "slice" /\ stream'.nextB = stream.nextB
      /\ sequence.low_delay = stream.low_delay /\ action \in {"seek_header", "parse_header"}
      /\ ret = "none" /\ Pending /\ ~Pending' /\ ~Lost
  BY PictureHeaderFacts DEF Pending, Synced
<1>2. header \in Coded /\ header.frame \in Nat /\ header.frame # 0
  BY <1>1, Facts DEF Frames
<1>3. /\ stream.second = AfterField(header)
      /\ IF header.type = "B"
         THEN header.frame = stream.nextB - 1 /\ ~sequence.low_delay /\ refs # <<>>
         ELSE header.frame = stream.top
  BY <1>1 DEF Good, PendingInv
<1>4. /\ stream.top \in Nat /\ stream.nextB \in Nat /\ shown \in Nat
  BY Facts
<1>5. Due = stream.nextB + (IF sequence.low_delay THEN 1 ELSE 0) - 1
  BY <1>1 DEF Due
<1>6. Due' = stream.nextB + (IF sequence.low_delay THEN 1 ELSE 0) - 0
  BY <1>1 DEF Due
<1>7. refs # <<>> => shown < Due /\ refs[1] = IF header.type = "B" THEN stream.top ELSE stream.nextB - 1
  BY <1>1 DEF Good, OrderInv
<1>8. refs = <<>> => shown < stream.nextB
  BY <1>1 DEF Good, OrderInv, Behind
<1>9. shown < stream.nextB
  BY <1>4, <1>5, <1>7, <1>8
<1>10. sequence.low_delay => stream.nextB = stream.top
  <2>1. sequence.low_delay => stream.bs = 0 /\ stream.top # 0
    BY <1>1, <1>2, <1>3 DEF Base, StreamInv
  <2>2. stream.top # 0 => stream.nextB + stream.bs = stream.top
    BY DEF Base, StreamInv
  <2> QED BY <1>4, <2>1, <2>2
<1>11. held \subseteq (IF sequence.low_delay \/ refs = <<>> THEN {} ELSE {refs[1]})
  <2>1. refs = <<>> => held = {}
    BY DEF Good, PlaceInv
  <2>2. ~InProgress
    BY <1>1 DEF InProgress
  <2> QED BY <1>1, <2>1, <2>2 DEF Good, HeldInv
<1>12. first <=> refs = <<>> \/ sequence.low_delay
  BY <1>1 DEF Good, PlaceInv
<1> QED BY <1>2, <1>3, <1>4, <1>5, <1>6, <1>7, <1>9, <1>10, <1>11, <1>12

LEMMA RecordOf ==
  ASSUME NEW h
  PROVE  Record(h).frame = h.frame /\ Record(h).type = h.type /\ Record(h).nb_fields = h.nb_fields
BY DEF Record

LEMMA GoodFirstField ==
  ASSUME Base, Base', Good, PictureHeader, state # "SLICE_1ST"
  PROVE  Good'
<1>0. LastRef \in {0, 2} /\ 2 - LastRef \in {0, 2} /\ 2 - LastRef # LastRef /\ 2 - (2 - LastRef) = LastRef
      /\ LastRef \in 0 .. 3 /\ LastRef + 1 \in 0 .. 3 /\ LastRef + 1 # 2 - LastRef
  BY Facts
<1> DEFINE slot == 2 - LastRef
<1>a. refs' # <<>> /\ ~Lost' /\ ~Lost /\ Synced' /\ InProgress' /\ Undecoded'
  <2>1. refs' # <<>>
    <3>1. header.type = "B" => refs' = refs /\ refs # <<>>
      BY FirstFieldFacts, BeforeFirstField
    <3>2. \A a, b : <<a>> # <<>> /\ <<a, b>> # <<>>
      OBVIOUS
    <3>3. header.type # "B" => refs' = <<header.frame>> \/ refs' = <<header.frame, refs[1]>>
      BY FirstFieldFacts
    <3> QED BY <3>1, <3>2, <3>3
  <2>2. Synced /\ Synced' /\ action' = "slice_start"
    BY PictureHeaderFacts
  <2>3. picture' = Cur'
    BY FirstFieldFacts
  <2> QED BY <2>1, <2>2, <2>3 DEF Synced, InProgress, Undecoded
<1>b. pictures'[slot].frame = header.frame /\ pictures'[slot].nb_fields = header.nb_fields
  BY FirstFieldFacts, RecordOf
<1>c. /\ pictures'[LastRef] = pictures[LastRef] /\ pictures'[LastRef + 1] = pictures[LastRef + 1]
      /\ picture' = slot /\ Cur' = slot
  BY <1>0, FirstFieldFacts
<1>d. refs # <<>> => /\ pictures[LastRef].frame = refs[1]
                     /\ pictures[LastRef].nb_fields = 1 => pictures[LastRef + 1].frame = refs[1]
                     /\ pictures[LastRef].skip \/ mem[RefBuf(1)] = {refs[1]}
  <2>1. SUFFICES ASSUME refs # <<>>
                 PROVE  /\ pictures[LastRef].frame = refs[1]
                        /\ pictures[LastRef].nb_fields = 1 => pictures[LastRef + 1].frame = refs[1]
                        /\ pictures[LastRef].skip \/ mem[RefBuf(1)] = {refs[1]}
    OBVIOUS
  <2>2. ~Undecoded
    BY PictureHeaderFacts DEF Undecoded
  <2>3. ~HalfCoded
    BY <2>1, PictureHeaderFacts DEF Good, FieldsInv
  <2>4. picture = LastRef => picture = Cur
    BY Facts DEF LastRef, Cur
  <2>5. pictures[LastRef].nb_fields = 1 => picture # LastRef
    BY <2>3, <2>4 DEF HalfCoded
  <2> QED BY <1>a, <2>1, <2>2, <2>5 DEF Good, ReferenceInv
<1> HIDE DEF slot
<1>1. PlaceInv'
  <2>1. first' <=> sequence.low_delay
    BY FirstFieldFacts, BeforeFirstField DEF StillFirst
  <2> QED BY <1>a, <1>c, <2>1, PictureHeaderFacts DEF PlaceInv
<1>2. FieldsInv'
  <2>1. HalfCoded' <=> header.nb_fields = 1
    BY <1>b, <1>c DEF HalfCoded
  <2>2. IF header.nb_fields = 1 THEN stream.second # NoHeader /\ stream.second = header
        ELSE stream.second = NoHeader
    BY BeforeFirstField, CodedNotNone DEF AfterField
  <2> QED BY <1>b, <1>c, <2>1, <2>2, PictureHeaderFacts, BeforeFirstField DEF FieldsInv
<1>3. PendingInv' /\ EndInv'
  BY PictureHeaderFacts DEF PendingInv, EndInv
<1>n. stream.top \in Nat /\ stream.nextB \in Nat /\ shown \in Nat
  BY Facts
<1>4. OrderInv'
  <2>1. shown' <= stream'.top
    BY PictureHeaderFacts DEF Good, OrderInv
  <2>2. shown' < Due'
    BY <1>n, BeforeFirstField, PictureHeaderFacts
  <2>3. ~Pending' /\ action' # "invalid_end"
    BY PictureHeaderFacts DEF Pending
  <2>4. refs'[1] = stream.top
    BY FirstFieldFacts, BeforeFirstField
  <2>5. coding_type' # "B" => pictures'[slot].frame = refs'[1]
    BY <1>b, FirstFieldFacts, BeforeFirstField, PictureHeaderFacts
  <2> QED BY <1>a, <1>c, <2>1, <2>2, <2>3, <2>4, <2>5, PictureHeaderFacts DEF OrderInv
<1>5. ReferenceInv'
  <2>1. CASE header.type = "B"
    <3>1. refs' = refs /\ LastRef' = LastRef /\ RefBuf(1)' = RefBuf(1) /\ refs # <<>> /\ mem' = mem
      BY <2>1, FirstFieldFacts, BeforeFirstField, PictureHeaderFacts
    <3> QED BY <1>c, <1>d, <3>1 DEF ReferenceInv
  <2>2. CASE header.type # "B"
    <3>1. refs'[1] = header.frame /\ LastRef' = slot /\ coding_type' # "B"
      BY <2>2, FirstFieldFacts, PictureHeaderFacts DEF slot
    <3> QED BY <1>a, <1>b, <1>c, <3>1 DEF ReferenceInv
  <2> QED BY <2>1, <2>2
<1>6. PredictionInv'
  <2>1. mem' = mem /\ ret' = "PICTURE" /\ coding_type' = header.type /\ blank' = blank \cap ToSet(refs')
    BY PictureHeaderFacts, FirstFieldFacts
  <2>2. ~Undecoded
    BY PictureHeaderFacts DEF Undecoded
  <2>3. \A i \in DOMAIN refs : refs[i] \in blank \/ mem[RefBuf(i)] = {refs[i]}
    BY <1>a, <2>2 DEF Good, PredictionInv
  <2>4. RefsType' /\ RefsType
    BY DEF Base, FrameTypes
  <2>5. \A i \in DOMAIN refs' : refs'[i] \in ToSet(refs')
    BY <2>4 DEF ToSet
  <2>6. CASE header.type = "B"
    <3>1. refs' = refs
      BY <2>6, FirstFieldFacts
    <3>2. \A i \in DOMAIN refs : i \in {1, 2}
      BY <2>4, RefsFacts
    <3>3. \A i \in DOMAIN refs : RefBuf(i)' = RefBuf(i)
      BY <2>6, <3>2, FirstFieldFacts
    <3>4. \A i \in DOMAIN refs' : refs'[i] \in blank' \/ mem'[RefBuf(i)'] = {refs'[i]}
      BY <2>1, <2>3, <2>5, <3>1, <3>3
    <3> QED BY <2>1, <3>4 DEF PredictionInv
  <2>7. CASE header.type # "B"
    <3>1. \A i \in DOMAIN refs' : i = 1 \/ (i = 2 /\ refs # <<>> /\ refs'[2] = refs[1])
      BY <2>7, FirstFieldFacts
    <3>2. RefBuf(2)' = RefBuf(1)
      BY <2>7, FirstFieldFacts
    <3>3. refs # <<>> => 1 \in DOMAIN refs
      BY <2>4, RefsFacts
    <3>4. \A i \in DOMAIN refs' : \/ refs'[i] \in blank' \/ mem'[RefBuf(i)'] = {refs'[i]}
                                  \/ i = 1
      BY <2>1, <2>3, <2>5, <3>1, <3>2, <3>3
    <3> QED BY <1>a, <2>1, <2>7, <3>4 DEF PredictionInv
  <2> QED BY <2>6, <2>7
<1>7. ShowInv' /\ HeldInv'
  <2>1. shown' = shown /\ mem' = mem /\ held' = held /\ sequence' = sequence /\ coding_type' = header.type
    BY PictureHeaderFacts
  <2>2. CASE header.type = "B" \/ sequence.low_delay
    <3>1. info' = [display_picture |-> slot, display_picture_2nd |-> NULL, display_fbuf |-> fbuf'[0]]
      BY <2>2, FirstFieldFacts DEF DisplayOf, slot
    <3>2. info'.display_picture = slot /\ info'.display_picture_2nd = NULL /\ info'.display_fbuf = fbuf'[0]
      BY <3>1
    <3>3. ShowsItself'
      BY <1>a, <1>c, <3>2 DEF ShowsItself
    <3>4. ShownFrame' = header.frame
      BY <1>b, <3>2 DEF ShownFrame
    <3>5. shown < header.frame /\ header.frame < Due'
      BY <1>n, <2>2, BeforeFirstField
    <3>6. ShowInv'
      BY <2>1, <2>2, <3>3, <3>4, <3>5 DEF ShowInv
    <3>7. slot # NULL
      BY <1>0 DEF slot, NULL
    <3>8. held \subseteq (IF sequence.low_delay THEN {} ELSE {refs'[1]})
      BY <2>2, BeforeFirstField, FirstFieldFacts
    <3>9. HeldInv'
      BY <2>1, <3>8 DEF HeldInv
    <3> QED BY <3>6, <3>9
  <2>3. CASE header.type # "B" /\ ~sequence.low_delay /\ refs = <<>>
    <3>1. info' = NoInfo /\ Len(refs') = 1
      BY <2>3, FirstFieldFacts, BeforeFirstField DEF DisplayOf
    <3>2. info'.display_picture = NULL
      BY <3>1 DEF NoInfo
    <3>3. held = {}
      BY <2>3, BeforeFirstField
    <3> QED BY <2>1, <2>3, <3>1, <3>2, <3>3 DEF ShowInv, HeldInv
  <2>4. CASE header.type # "B" /\ ~sequence.low_delay /\ refs # <<>>
    <3>1. info' = [display_picture |-> 2 - slot,
                   display_picture_2nd |-> IF pictures[2 - slot].nb_fields = 1 THEN 3 - slot ELSE NULL,
                   display_fbuf |-> fbuf'[1]]
      BY <2>4, FirstFieldFacts, BeforeFirstField DEF DisplayOf, slot
    <3>2. 2 - slot = LastRef /\ 3 - slot = LastRef + 1
      BY <1>0 DEF slot
    <3>3. /\ info'.display_picture = LastRef /\ info'.display_fbuf = fbuf'[1]
          /\ info'.display_picture_2nd = IF pictures[LastRef].nb_fields = 1 THEN LastRef + 1 ELSE NULL
      BY <3>1, <3>2
    <3>4. refs' = <<header.frame, refs[1]>> /\ Len(refs') = 2 /\ refs'[2] = refs[1] /\ refs'[1] = header.frame
      BY <2>4, FirstFieldFacts
    <3>5. ShowsReference'
      BY <1>c, <1>d, <2>1, <2>4, <3>2, <3>3, <3>4, FirstFieldFacts DEF ShowsReference
    <3>6. ShownFrame' = refs[1]
      BY <1>c, <1>d, <2>4, <3>3 DEF ShownFrame
    <3>7. shown < refs[1] /\ refs[1] < Due'
      BY <1>n, <2>4, BeforeFirstField
    <3>8. ShowInv'
      BY <2>1, <2>4, <3>4, <3>5, <3>6, <3>7 DEF ShowInv
    <3>9. LastRef # NULL
      BY <1>0 DEF NULL
    <3>10. HeldInv'
      BY <1>a, <2>1, <2>4, <3>3, <3>6, <3>9, BeforeFirstField DEF HeldInv
    <3> QED BY <3>8, <3>10
  <2> QED BY <2>2, <2>3, <2>4
<1> QED BY <1>1, <1>2, <1>3, <1>4, <1>5, <1>6, <1>7 DEF Good

-----------------------------------------------------------------------------
(* The slices of a picture *)

LEMMA SliceStartFacts ==
  ASSUME Base, Good, SliceStart
  PROVE  /\ action = "slice_start" /\ ret = "none" /\ ret' = "none" /\ action' = "slices"
         /\ Synced /\ Synced' /\ ~Lost /\ refs # <<>> /\ code = "slice"
         /\ picture \in {Cur, Cur + 1} /\ pictures[picture].frame = pictures[Cur].frame
         /\ (state = "PICTURE" <=> picture = Cur) /\ state \in {"PICTURE", "PICTURE_2ND"}
         /\ UNCHANGED <<stream, code, header, sequence, new_sequence, coding_type, picture, fbuf,
                        first, skip, info, shown, held, refs, blank>>
         /\ Cur' = Cur /\ LastRef' = LastRef /\ (\A i : RefBuf(i)' = RefBuf(i)) /\ Due' = Due
         /\ \A p \in 0 .. 3 : /\ pictures'[p].frame = pictures[p].frame
                              /\ pictures'[p].nb_fields = pictures[p].nb_fields
                              /\ p # picture => pictures'[p].skip = pictures[p].skip
         /\ \A i \in 0 .. 2 : i # fbuf[0] => mem'[i] = mem[i]
         /\ IF skip THEN pictures'[picture].skip /\ mem' = mem
            ELSE /\ mem'[fbuf[0]] = {pictures[Cur].frame} \cup
                                    (IF picture = Cur THEN {} ELSE mem[fbuf[0]])
                 /\ pictures' = pictures
<1>1. /\ action = "slice_start" /\ ret = "none" /\ ret' = "none" /\ action' = "slices"
      /\ UNCHANGED <<stream, code, header, sequence, new_sequence, coding_type, picture, fbuf,
                        first, skip, info, shown, held, refs, blank>>
  BY DEF SliceStart, streamVars, filterVars, ghostVars
<1>2. Synced /\ Synced' /\ ~Lost /\ refs # <<>> /\ code = "slice"
  BY <1>1 DEF Synced, Lost, Abandoned, Good, PlaceInv
<1>3. (state = "PICTURE" <=> picture = Cur) /\ state \in {"PICTURE", "PICTURE_2ND"}
      /\ pictures[picture].frame = pictures[Cur].frame
  BY <1>1, <1>2 DEF Good, FieldsInv
<1>4. picture \in {Cur, Cur + 1}
  BY Facts DEF Cur
<1>5. Cur' = Cur /\ LastRef' = LastRef /\ \A i : RefBuf(i)' = RefBuf(i)
  BY <1>1 DEF Cur, LastRef, RefBuf
<1>6. Due' = Due
  BY <1>1, <1>2 DEF Due, Pending
<1>7. pictures \in [0 .. 3 -> Pictures] /\ fbuf[0] \in 0 .. 2 /\ mem \in [0 .. 2 -> SUBSET Frames]
      /\ picture \in 0 .. 3
  BY DEF Base, RecordInv, RecordType, FrameTypes
<1>8. CASE skip
  <2>1. pictures' = [pictures EXCEPT ![picture].skip = TRUE] /\ mem' = mem
    BY <1>8 DEF SliceStart
  <2>2. \A p \in 0 .. 3 : /\ pictures'[p].frame = pictures[p].frame
                          /\ pictures'[p].nb_fields = pictures[p].nb_fields
                          /\ p # picture => pictures'[p].skip = pictures[p].skip
    BY <1>7, <2>1 DEF Pictures
  <2>3. pictures'[picture].skip
    BY <1>7, <2>1 DEF Pictures
  <2> QED BY <1>1, <1>2, <1>3, <1>4, <1>5, <1>6, <1>8, <2>1, <2>2, <2>3
<1>9. CASE ~skip
  <2> DEFINE new == {pictures[picture].frame} \cup (IF state = "PICTURE_2ND" THEN mem[fbuf[0]] ELSE {})
  <2>1. mem' = [mem EXCEPT ![fbuf[0]] = new] /\ pictures' = pictures
    BY <1>9 DEF SliceStart
  <2>2. new = {pictures[Cur].frame} \cup (IF picture = Cur THEN {} ELSE mem[fbuf[0]])
    BY <1>3
  <2> HIDE DEF new
  <2>3. mem'[fbuf[0]] = new /\ \A i \in 0 .. 2 : i # fbuf[0] => mem'[i] = mem[i]
    BY <1>7, <2>1
  <2> QED BY <1>1, <1>2, <1>3, <1>4, <1>5, <1>6, <1>9, <2>1, <2>2, <2>3
<1> QED BY <1>8, <1>9

LEMMA GoodSliceStart ==
  ASSUME Base, Base', Good, SliceStart
  PROVE  Good'
<1>0. Cur \in {0, 2} /\ LastRef \in {0, 2} /\ Cur \in 0 .. 3 /\ LastRef \in 0 .. 3 /\ picture \in 0 .. 3
      /\ LastRef + 1 \in 0 .. 3
      /\ picture \in {Cur, Cur + 1} /\ 2 - Cur \in 0 .. 3 /\ 2 - Cur + 1 \in 0 .. 3
      /\ 2 - Cur # picture /\ 2 - Cur + 1 # picture
  BY Facts, SliceStartFacts
<1>a. state' = IF pictures[picture].nb_fields > 1 \/ state = "PICTURE_2ND" THEN "SLICE" ELSE "SLICE_1ST"
  BY DEF SliceStart
<1>b. \A p \in 0 .. 3 : pictures[p].nb_fields \in {1, 2}
  BY Facts
<1>c. /\ state' \in {"SLICE", "SLICE_1ST"}
      /\ state' = "SLICE_1ST" <=> picture = Cur /\ pictures[Cur].nb_fields = 1
  BY <1>0, <1>a, <1>b, SliceStartFacts
<1>d. /\ ~Undecoded' /\ (Undecoded <=> picture = Cur) /\ InProgress /\ InProgress'
      /\ (HalfCoded' <=> HalfCoded) /\ (HalfCoded <=> picture = Cur /\ pictures[Cur].nb_fields = 1)
  BY <1>0, SliceStartFacts DEF Undecoded, InProgress, HalfCoded
<1>e. fbuf[0] \in 0 .. 2 /\ fbuf[1] \in 0 .. 2 /\ fbuf[2] \in 0 .. 2 /\ fbuf[1] # fbuf[0] /\ fbuf[2] # fbuf[0]
  BY DEF Base, FbufInv, TargetNoReference
\* What is decoded in the buffer of the picture.
<1>f. ASSUME pictures[Cur].skip \/ mem[fbuf[0]] = {pictures[Cur].frame} \/ Undecoded
      PROVE  pictures'[Cur].skip \/ mem'[fbuf[0]] = {pictures[Cur].frame}
  <2>1. CASE skip
    BY <1>0, <1>d, <1>f, <2>1, SliceStartFacts
  <2>2. CASE ~skip
    BY <1>0, <1>d, <1>f, <2>2, SliceStartFacts
  <2> QED BY <2>1, <2>2
<1>1. PlaceInv'
  BY <1>c, SliceStartFacts DEF Good, PlaceInv, Synced, Abandoned, Lost
<1>2. FieldsInv'
  <2>1. /\ IF HalfCoded THEN /\ stream.second # NoHeader
                             /\ stream.second.frame = pictures[picture].frame
                             /\ stream.second.type = coding_type
           ELSE stream.second = NoHeader
        /\ coding_type = "B" => ~sequence.low_delay
        /\ picture # Cur => pictures[Cur].nb_fields = 1 /\ pictures[picture].frame = pictures[Cur].frame
    BY SliceStartFacts DEF Good, FieldsInv
  <2> QED BY <1>0, <1>c, <1>d, <2>1, SliceStartFacts DEF FieldsInv
<1>3. PendingInv' /\ EndInv'
  BY SliceStartFacts DEF PendingInv, EndInv
<1>4. OrderInv'
  <2>1. ~Pending /\ ~Pending' /\ action' # "invalid_end"
    BY SliceStartFacts DEF Pending
  <2> QED BY <1>0, <2>1, SliceStartFacts DEF Good, OrderInv
<1>5. ReferenceInv'
  <2>1. /\ pictures[LastRef].frame = refs[1]
        /\ pictures[LastRef].nb_fields = 1 => picture = LastRef \/ pictures[LastRef + 1].frame = refs[1]
        /\ \/ Undecoded /\ coding_type # "B"
           \/ pictures[LastRef].skip \/ mem[RefBuf(1)] = {refs[1]}
    BY SliceStartFacts DEF Good, ReferenceInv
  <2>2. pictures'[LastRef].skip \/ mem'[RefBuf(1)] = {refs[1]}
    <3>1. CASE coding_type = "B"
      <4>1. RefBuf(1) = fbuf[1] /\ LastRef # picture
        BY <1>0, <3>1, Facts DEF RefBuf, LastRef, Cur
      <4> QED BY <1>0, <1>e, <2>1, <3>1, <4>1, SliceStartFacts
    <3>2. CASE coding_type # "B"
      <4>1. RefBuf(1) = fbuf[0] /\ LastRef = Cur
        BY <3>2 DEF RefBuf, LastRef, Cur
      <4> QED BY <1>f, <2>1, <4>1
    <3> QED BY <3>1, <3>2
  <2>3. pictures'[LastRef].frame = pictures[LastRef].frame /\ pictures'[LastRef + 1].frame = pictures[LastRef + 1].frame
        /\ pictures'[LastRef].nb_fields = pictures[LastRef].nb_fields
    BY <1>0, SliceStartFacts
  <2> QED BY <2>1, <2>2, <2>3, SliceStartFacts DEF ReferenceInv
<1>6. PredictionInv'
  <2>1. /\ \A i \in DOMAIN refs :
             \/ refs[i] \in blank \/ mem[RefBuf(i)] = {refs[i]}
             \/ i = 1 /\ Undecoded /\ coding_type # "B"
        /\ skip /\ coding_type # "B" => refs[1] \in blank
    <3>1. PredictionInv /\ ~Lost /\ refs # <<>> /\ ret # "PICTURE"
      BY SliceStartFacts DEF Good
    <3>2. \A i \in DOMAIN refs :
             \/ refs[i] \in blank \/ mem[RefBuf(i)] = {refs[i]}
             \/ i = 1 /\ Undecoded /\ coding_type # "B"
      BY <3>1 DEF PredictionInv
    <3>3. skip /\ coding_type # "B" => refs[1] \in blank
      BY <3>1 DEF PredictionInv
    <3> QED BY <3>2, <3>3
  <2>2. \A i \in DOMAIN refs : i \in {1, 2}
    BY Facts, RefsFacts
  <2>3. ASSUME NEW i \in DOMAIN refs
        PROVE  refs[i] \in blank \/ mem'[RefBuf(i)] = {refs[i]}
    <3>1. CASE coding_type = "B" \/ i = 2
      <4>1. RefBuf(i) \in {fbuf[1], fbuf[2]}
        BY <2>2, <3>1 DEF RefBuf
      <4>2. mem'[RefBuf(i)] = mem[RefBuf(i)]
        BY <1>e, <4>1, SliceStartFacts
      <4>3. ~(i = 1 /\ coding_type # "B")
        BY <3>1
      <4> QED BY <2>1, <4>2, <4>3
    <3>2. CASE coding_type # "B" /\ i = 1
      <4>1. RefBuf(i) = fbuf[0]
        BY <3>2 DEF RefBuf
      <4>2. CASE skip
        BY <2>1, <3>2, <4>2
      <4>3. CASE ~skip
        <5>1. pictures[Cur].frame = refs[1]
          BY <3>2, SliceStartFacts DEF Good, OrderInv
        <5>2. mem'[fbuf[0]] = {refs[1]} \cup (IF picture = Cur THEN {} ELSE mem[fbuf[0]])
          BY <4>3, <5>1, SliceStartFacts
        <5>3. refs[1] \in blank \/ mem[fbuf[0]] = {refs[1]} \/ picture = Cur
          BY <1>d, <2>1, <3>2, <4>1
        <5> QED BY <3>2, <4>1, <5>2, <5>3
      <4> QED BY <4>2, <4>3
    <3> QED BY <2>2, <3>1, <3>2
  <2> QED BY <2>1, <2>3, SliceStartFacts DEF PredictionInv
<1>7. info.display_picture # NULL => ShownFrame' = ShownFrame
  <2>1. info.display_picture \in {NULL, 0, 2}
    BY DEF Base, RecordInv, RecordType, Infos
  <2>2. info.display_picture # NULL => info.display_picture \in 0 .. 3
    BY <2>1
  <2> QED BY <2>2, SliceStartFacts DEF ShownFrame
<1>8. ShowInv'
  <2>1. info.display_picture # NULL => shown < ShownFrame /\ ShownFrame < Due
    BY <1>d, SliceStartFacts DEF Good, ShowInv
  <2>2. CASE coding_type = "B" \/ sequence.low_delay
    <3>1. ShowsItself
      BY <1>d, <2>2, SliceStartFacts DEF Good, ShowInv
    <3>2. ShowsItself'
      <4>1. pictures'[Cur].frame = pictures[Cur].frame
        BY <1>0, SliceStartFacts
      <4>2. pictures[Cur].skip \/ mem[fbuf[0]] = {pictures[Cur].frame} \/ Undecoded
        BY <3>1 DEF ShowsItself
      <4> QED BY <1>f, <3>1, <4>1, <4>2, SliceStartFacts DEF ShowsItself
    <3> QED BY <1>7, <2>1, <2>2, <3>2, SliceStartFacts DEF ShowInv
  <2>3. CASE ~(coding_type = "B" \/ sequence.low_delay)
    <3>1. IF Len(refs) = 1 THEN info = NoInfo ELSE ShowsReference
      BY <1>d, <2>3, SliceStartFacts DEF Good, ShowInv
    <3>2. ASSUME ShowsReference
          PROVE  ShowsReference'
      <4>1. info.display_picture = 2 - Cur
        BY <3>2 DEF ShowsReference
      <4>2. /\ pictures'[2 - Cur].frame = pictures[2 - Cur].frame
            /\ pictures'[2 - Cur].nb_fields = pictures[2 - Cur].nb_fields
            /\ pictures'[2 - Cur].skip = pictures[2 - Cur].skip
            /\ pictures'[2 - Cur + 1].frame = pictures[2 - Cur + 1].frame
            /\ mem'[fbuf[1]] = mem[fbuf[1]]
        BY <1>0, <1>e, SliceStartFacts
      <4> QED BY <3>2, <4>1, <4>2, SliceStartFacts DEF ShowsReference
    <3> QED BY <1>7, <2>1, <2>3, <3>1, <3>2, SliceStartFacts DEF ShowInv
  <2> QED BY <2>2, <2>3
<1>9. HeldInv'
  BY <1>7, <1>d, SliceStartFacts DEF Good, HeldInv
<1> QED BY <1>1, <1>2, <1>3, <1>4, <1>5, <1>6, <1>8, <1>9 DEF Good

LEMMA GoodSlices ==
  ASSUME Base, Base', Good, Slices
  PROVE  Good'
<1>1. /\ action = "slices" /\ ret = "none" /\ code = "slice" /\ stream.last = "slice"
      /\ Synced /\ ~Lost /\ refs # <<>> /\ state \in {"SLICE", "SLICE_1ST"} /\ sequence \in Sequences_
      /\ sequence.low_delay = stream.low_delay
  BY DEF Slices, Good, PlaceInv, FieldsInv, Synced, Lost, Abandoned
<1>2. /\ PictureSame /\ info' = info /\ sequence' = sequence /\ state' = state
      /\ Find /\ code' \in {"slice", "pic", "seq", "gop", "end"}
      /\ code' = "slice" => action' = "slices" /\ ret' = "none"
      /\ code' = "pic" => action' = "seek_header" /\ ret' = state
      /\ code' \in {"seq", "gop", "end"} =>
           action' = "seek_header" /\ ret' = IF state = "SLICE" THEN "SLICE" ELSE "INVALID"
  BY FindFacts, <1>1 DEF Slices, Base, PictureSame, filterVars, ghostVars
<1>3. /\ IF HalfCoded THEN /\ stream.second # NoHeader
                           /\ stream.second.frame = pictures[picture].frame
                           /\ stream.second.type = coding_type
         ELSE stream.second = NoHeader
      /\ state = "SLICE_1ST" <=> HalfCoded
      /\ coding_type = "B" => ~sequence.low_delay
      /\ picture # Cur => pictures[Cur].nb_fields = 1 /\ pictures[picture].frame = pictures[Cur].frame
  BY <1>1 DEF Good, FieldsInv
<1>4. /\ Cur' = Cur /\ LastRef' = LastRef /\ HalfCoded' = HalfCoded /\ (\A i : RefBuf(i)' = RefBuf(i))
      /\ ShownFrame' = ShownFrame /\ ~Undecoded /\ ~Undecoded' /\ ~Pending
      /\ pictures' = pictures /\ refs' = refs /\ shown' = shown /\ coding_type' = coding_type
  BY <1>1, <1>2 DEF PictureSame, Cur, LastRef, HalfCoded, RefBuf, ShownFrame, Undecoded, Pending
<1>5. Synced' /\ ~Lost' /\ action' \in {"slices", "seek_header"}
  BY <1>1, <1>2 DEF Synced, Lost, Abandoned
\* A second field follows a first one.
<1>6. /\ code' = "pic" => /\ SentPicture(header')
                          /\ state = "SLICE_1ST" => SentSecond(header')
                          /\ state # "SLICE_1ST" => SentReference(header') \/ SentB(header')
      /\ code' # "pic" => SentOther(code', header')
      /\ code' \in {"seq", "gop", "end"} => state = "SLICE"
      /\ stream'.last = code'
  BY <1>1, <1>2, <1>3, FindFacts DEF Base, SentPicture, SentReference, SentB, SentSecond, SentOther
<1>7. ret' \in {"none", "SLICE", "SLICE_1ST"} /\ (ret' = "SLICE" => action' = "seek_header" /\ state = "SLICE")
  BY <1>1, <1>2, <1>6
<1>8. (code' = "seq" => header' \in Sequences_ /\ header'.low_delay = stream'.low_delay)
      /\ (code' # "seq" => stream'.low_delay = stream.low_delay)
  BY <1>6 DEF SentPicture, SentOther
<1>9. PlaceInv'
  <2>1. (first <=> refs = <<>> \/ sequence.low_delay)
    BY <1>1 DEF Good, PlaceInv
  <2>2. code' = "slice" \/ action' = "seek_header"
    BY <1>2
  <2>3. code' \in {"slice", "pic"} \/ state = "SLICE"
    BY <1>2, <1>6
  <2> QED BY <1>1, <1>2, <1>4, <1>5, <1>6, <1>7, <1>8, <2>1, <2>2, <2>3 DEF PlaceInv, PictureSame
<1>10. FieldsInv'
  <2>1. action' = "slices" => stream'.second = stream.second
    BY <1>2, <1>6 DEF SentOther
  <2> QED BY <1>1, <1>2, <1>3, <1>4, <1>5, <2>1 DEF FieldsInv, PictureSame
<1>n. /\ stream.top \in Nat /\ stream.nextB \in Nat /\ shown \in Nat /\ stream.bs \in Nat
      /\ stream.top # 0 => stream.nextB + stream.bs = stream.top
      /\ stream'.top \in Nat /\ stream'.nextB \in Nat /\ shown <= stream.top /\ shown < Due
      /\ refs[1] = stream.top /\ refs[1] # 0 /\ refs[1] \in Nat
      /\ coding_type # "B" => pictures[Cur].frame = refs[1]
  <2>1. stream.top \in Nat /\ stream.nextB \in Nat /\ shown \in Nat /\ stream.bs \in Nat /\ refs[1] \in Nat
    BY <1>1, Facts
  <2>2. stream.top # 0 => stream.nextB + stream.bs = stream.top
    BY DEF Base, StreamInv
  <2>3. stream'.top \in Nat /\ stream'.nextB \in Nat
    BY PictureAssumption DEF Base, StreamInv, StreamType
  <2>4. /\ shown <= stream.top /\ shown < Due /\ refs[1] = stream.top
        /\ coding_type # "B" => pictures[Cur].frame = refs[1]
    BY <1>1, <1>4 DEF Good, OrderInv
  <2>5. refs[1] # 0
    BY <1>1 DEF Base, FrameTypes, RefsType, Frames
  <2> QED BY <2>1, <2>2, <2>3, <2>4, <2>5
<1>11. PendingInv'
  <2>1. CASE code' # "pic"
    BY <2>1 DEF PendingInv
  <2>2. CASE code' = "pic" /\ state = "SLICE_1ST"
    <3>1. /\ SentSecond(header') /\ header' \in Coded /\ HalfCoded
          /\ stream.second.frame = pictures[picture].frame /\ stream.second.type = coding_type
      BY <1>3, <1>6, <2>2 DEF SentPicture
    <3> QED BY <1>2, <2>2, <3>1 DEF PendingInv, SentSecond, PictureSame
  <2>3. CASE code' = "pic" /\ state # "SLICE_1ST"
    <3>1. header' \in Coded /\ (SentReference(header') \/ SentB(header')) /\ action' = "seek_header"
          /\ stream'.low_delay = stream.low_delay
      BY <1>2, <1>6, <2>3 DEF SentPicture
    <3>2. CASE SentReference(header')
      BY <1>2, <2>3, <3>1, <3>2 DEF PendingInv, SentReference
    <3>3. CASE SentB(header')
      <4>1. ~stream.low_delay
        BY <3>3 DEF SentB, Base, StreamInv
      <4>2. header'.frame = stream'.nextB - 1
        BY <1>n, <3>3 DEF SentB
      <4> QED BY <1>1, <1>2, <1>4, <2>3, <3>1, <3>3, <4>1, <4>2 DEF PendingInv, SentB
    <3> QED BY <3>1, <3>2, <3>3
  <2> QED BY <2>1, <2>2, <2>3
<1>12. Due' = Due /\ shown <= stream'.top
       /\ refs[1] = (IF Pending' /\ header'.type # "B" THEN stream'.nextB - 1 ELSE stream'.top)
  <2>1. Due = stream.nextB + (IF sequence.low_delay THEN 1 ELSE 0) - 0
    BY <1>4 DEF Due
  <2>2. Due' = stream'.nextB + (IF sequence.low_delay THEN 1 ELSE 0) - (IF Pending' THEN 1 ELSE 0)
    BY <1>2 DEF Due
  <2>3. CASE code' # "pic"
    <3>1. ~Pending' /\ stream'.nextB = stream.nextB /\ stream'.top = stream.top
      BY <1>6, <2>3 DEF Pending, SentOther
    <3> QED BY <1>n, <2>1, <2>2, <3>1
  <2>4. CASE code' = "pic" /\ state = "SLICE_1ST"
    <3>1. ~Pending' /\ stream'.nextB = stream.nextB /\ stream'.top = stream.top
      BY <1>2, <1>6, <2>4 DEF Pending, SentSecond
    <3> QED BY <1>n, <2>1, <2>2, <3>1
  <2>5. CASE code' = "pic" /\ state # "SLICE_1ST" /\ SentReference(header')
    <3>1. Pending' /\ stream'.nextB = stream.top + 1 /\ stream'.top > stream.top /\ header'.type # "B"
          /\ stream.bs = 0
      BY <1>2, <2>5 DEF Pending, SentReference
    <3> QED BY <1>n, <2>1, <2>2, <3>1
  <2>6. CASE code' = "pic" /\ state # "SLICE_1ST" /\ SentB(header')
    <3>1. Pending' /\ stream'.nextB = stream.nextB + 1 /\ stream'.top = stream.top /\ header'.type = "B"
      BY <1>2, <2>6 DEF Pending, SentB
    <3> QED BY <1>n, <2>1, <2>2, <3>1
  <2> QED BY <1>6, <2>3, <2>4, <2>5, <2>6
<1>13. OrderInv'
  BY <1>1, <1>4, <1>5, <1>n, <1>12 DEF OrderInv
<1>14. ReferenceInv'
  BY <1>1, <1>2, <1>4 DEF Good, ReferenceInv, PictureSame
<1>15. PredictionInv'
  BY <1>1, <1>2, <1>4 DEF Good, PredictionInv, PictureSame
<1>16. InProgress
  BY <1>1 DEF InProgress
<1>17. ShowsItself => ShowsItself'
  BY <1>2, <1>4 DEF ShowsItself, PictureSame
<1>18. ShowsReference => ShowsReference'
  BY <1>2, <1>4 DEF ShowsReference, PictureSame
<1>19. ShowInv'
  <2>1. /\ IF coding_type = "B" \/ sequence.low_delay THEN ShowsItself
           ELSE IF Len(refs) = 1 THEN info = NoInfo ELSE ShowsReference
        /\ info.display_picture # NULL => shown < ShownFrame /\ ShownFrame < Due
    BY <1>1, <1>16 DEF Good, ShowInv
  <2> QED BY <1>2, <1>4, <1>12, <1>17, <1>18, <2>1 DEF ShowInv
<1>20. EndInv'
  BY <1>7 DEF EndInv
<1>21. HeldInv'
  <2>1. InProgress'
    BY <1>1, <1>2, <1>6, <1>7 DEF InProgress
  <2> QED BY <1>1, <1>2, <1>4, <1>5, <1>16, <2>1 DEF Good, HeldInv, PictureSame
<1> QED BY <1>9, <1>10, <1>11, <1>13, <1>14, <1>15, <1>19, <1>20, <1>21 DEF Good

-----------------------------------------------------------------------------
(* The results handled by Transform *)

LEMMA GoodHandlePicture ==
  ASSUME Base, Base', Good, HandlePicture
  PROVE  Good'
<1>1. /\ ret = "PICTURE" /\ ret' = "none" /\ action = "slice_start" /\ picture = Cur
      /\ Synced /\ ~Lost /\ refs # <<>> /\ code = "slice"
  BY DEF HandlePicture, Good, PlaceInv, Synced, Lost, Abandoned
<1>2. UNCHANGED <<stream, code, header, action, state, sequence, new_sequence, coding_type,
                  picture, pictures, fbuf, first, info, mem, shown, refs>>
  BY DEF HandlePicture, streamVars
<1>3. /\ held' = held \cup {pictures[Cur].frame}
      /\ blank' = IF skip' THEN blank \cup ({pictures[Cur].frame} \cap ToSet(refs)) ELSE blank
  BY <1>1 DEF HandlePicture
<1>4. /\ Cur' = Cur /\ LastRef' = LastRef /\ HalfCoded' = HalfCoded /\ (\A i : RefBuf(i)' = RefBuf(i))
      /\ (Lost' <=> Lost) /\ (Synced' <=> Synced) /\ (Undecoded' <=> Undecoded) /\ (Pending' <=> Pending)
      /\ ShownFrame' = ShownFrame /\ InProgress /\ InProgress' /\ ~Pending
  BY <1>1, <1>2 DEF Cur, LastRef, HalfCoded, RefBuf, Lost, Synced, Abandoned, Undecoded, Pending, ShownFrame, InProgress
<1>5. Due' = Due
  BY <1>1, <1>2, <1>4 DEF Due, Pending
<1>6. coding_type # "B" => pictures[Cur].frame = refs[1]
  BY <1>1 DEF Good, OrderInv
<1>7. PlaceInv'
  BY <1>1, <1>2, <1>4 DEF Good, PlaceInv
<1>8. FieldsInv'
  BY <1>1, <1>2, <1>4 DEF Good, FieldsInv
<1>9. PendingInv' /\ EndInv'
  BY <1>1, <1>2 DEF PendingInv, EndInv
<1>10. OrderInv'
  BY <1>1, <1>2, <1>4, <1>5 DEF Good, OrderInv
<1>11. ReferenceInv'
  BY <1>1, <1>2, <1>4 DEF Good, ReferenceInv
<1>12. PredictionInv'
  <2>1. \A i \in DOMAIN refs :
          \/ refs[i] \in blank \/ mem[RefBuf(i)] = {refs[i]}
          \/ i = 1 /\ Undecoded /\ coding_type # "B"
    BY <1>1 DEF Good, PredictionInv
  <2>2. blank \subseteq blank'
    BY <1>3
  <2>3. refs[1] \in ToSet(refs)
    <3>1. RefsType
      BY Facts
    <3>2. 1 \in DOMAIN refs
      BY <1>1, <3>1, RefsFacts
    <3> QED BY <3>1, <3>2, RefsFacts
  <2>4. skip' /\ coding_type # "B" => refs[1] \in blank'
    BY <1>3, <1>6, <2>3
  <2>5. \A i \in DOMAIN refs' :
          \/ refs'[i] \in blank' \/ mem'[RefBuf(i)'] = {refs'[i]}
          \/ i = 1 /\ Undecoded' /\ coding_type' # "B"
    BY <1>2, <1>4, <2>1, <2>2
  <2>6. coding_type' = coding_type /\ refs' = refs
    BY <1>2
  <2> QED BY <2>4, <2>5, <2>6 DEF PredictionInv
<1>13. /\ IF coding_type = "B" \/ sequence.low_delay THEN ShowsItself
          ELSE IF Len(refs) = 1 THEN info = NoInfo ELSE ShowsReference
       /\ info.display_picture # NULL => shown < ShownFrame /\ ShownFrame < Due
  BY <1>1, <1>4 DEF Good, ShowInv
<1>14. ShowInv'
  <2>1. ShowsItself => ShowsItself'
    BY <1>2, <1>4 DEF ShowsItself
  <2>2. ShowsReference => ShowsReference'
    BY <1>2, <1>4 DEF ShowsReference
  <2> QED BY <1>2, <1>4, <1>5, <1>13, <2>1, <2>2 DEF ShowInv
<1>15. HeldInv'
  <2>1. held \subseteq (IF sequence.low_delay THEN {} ELSE {refs[1]})
                   \cup (IF info.display_picture # NULL THEN {ShownFrame} ELSE {})
    BY <1>1, <1>4 DEF Good, HeldInv
  <2>2. CASE coding_type = "B" \/ sequence.low_delay
    <3>1. info.display_picture = Cur /\ Cur # NULL /\ ShownFrame = pictures[Cur].frame
      BY <1>13, <2>2, Facts DEF ShowsItself, ShownFrame, NULL
    <3> QED BY <1>1, <1>2, <1>3, <1>4, <2>1, <3>1 DEF HeldInv
  <2>3. CASE ~(coding_type = "B" \/ sequence.low_delay)
    BY <1>1, <1>2, <1>3, <1>4, <1>6, <2>1, <2>3 DEF HeldInv
  <2> QED BY <2>2, <2>3
<1> QED BY <1>7, <1>8, <1>9, <1>10, <1>11, <1>12, <1>14, <1>15 DEF Good

\* What stays when a result is handled.
LEMMA HandledFacts ==
  ASSUME Base, Good, ret' = "none", UNCHANGED <<streamVars, libVars, refs, blank>>, ret # "PICTURE"
  PROVE  /\ UNCHANGED <<stream, code, header, action, state, sequence, new_sequence, coding_type,
                        picture, pictures, fbuf, first, skip, info, mem>>
         /\ Cur' = Cur /\ LastRef' = LastRef /\ HalfCoded' = HalfCoded /\ (\A i : RefBuf(i)' = RefBuf(i))
         /\ (Lost' <=> Lost) /\ (Synced' <=> Synced) /\ (Undecoded' <=> Undecoded) /\ (Pending' <=> Pending)
         /\ ShownFrame' = ShownFrame /\ Due' = Due
         /\ FieldsInv' /\ PendingInv' /\ ReferenceInv' /\ PredictionInv' /\ EndInv'
         /\ (refs = <<>> => held' = {}) => PlaceInv'
<1>1. UNCHANGED <<stream, code, header, action, state, sequence, new_sequence, coding_type,
                  picture, pictures, fbuf, first, skip, info, mem>>
  BY DEF libVars, streamVars
<1>2. /\ Cur' = Cur /\ LastRef' = LastRef /\ HalfCoded' = HalfCoded /\ (\A i : RefBuf(i)' = RefBuf(i))
      /\ (Lost' <=> Lost) /\ (Synced' <=> Synced) /\ (Undecoded' <=> Undecoded) /\ (Pending' <=> Pending)
      /\ ShownFrame' = ShownFrame
  BY <1>1 DEF Cur, LastRef, HalfCoded, RefBuf, Lost, Synced, Abandoned, Undecoded, Pending, ShownFrame
<1>3. Due' = Due
  BY <1>1, <1>2 DEF Due
<1>4. FieldsInv'
  BY <1>1, <1>2 DEF Good, FieldsInv
<1>5. PendingInv'
  BY <1>1, <1>2 DEF Good, PendingInv
<1>6. ReferenceInv'
  BY <1>1, <1>2 DEF Good, ReferenceInv
<1>7. PredictionInv'
  <2>1. ~Lost =>
          \A i \in DOMAIN refs :
            \/ refs[i] \in blank \/ mem[RefBuf(i)] = {refs[i]}
            \/ i = 1 /\ Undecoded /\ coding_type # "B"
    BY DEF Good, PredictionInv
  <2>2. ~Lost /\ refs # <<>> /\ skip /\ coding_type # "B" => refs[1] \in blank
    BY DEF Good, PredictionInv
  <2>3. ~Lost' =>
          \A i \in DOMAIN refs' :
            \/ refs'[i] \in blank' \/ mem'[RefBuf(i)'] = {refs'[i]}
            \/ i = 1 /\ Undecoded' /\ coding_type' # "B"
    BY <1>1, <1>2, <2>1
  <2>4. ~Lost' /\ refs' # <<>> /\ skip' /\ coding_type' # "B" => refs'[1] \in blank'
    BY <1>1, <1>2, <2>2
  <2> QED BY <2>3, <2>4 DEF PredictionInv
<1>8. EndInv'
  BY DEF EndInv
<1>9. ASSUME refs = <<>> => held' = {}
      PROVE  PlaceInv'
  BY <1>1, <1>2, <1>9 DEF Good, PlaceInv
<1> QED BY <1>1, <1>2, <1>3, <1>4, <1>5, <1>6, <1>7, <1>8, <1>9

LEMMA GoodHandleOther ==
  ASSUME Base, Good, HandleOther
  PROVE  Good'
<1>1. /\ ret' = "none" /\ ret \notin {"PICTURE", "SLICE", "END"} /\ held' = held /\ shown' = shown
      /\ refs' = refs /\ UNCHANGED <<streamVars, libVars, refs, blank>>
  BY DEF HandleOther, filterVars, ghostVars
<1>2. InProgress' <=> InProgress
  BY <1>1, HandledFacts DEF InProgress
<1>3. PlaceInv'
  BY <1>1, HandledFacts DEF Good, PlaceInv
<1>4. OrderInv'
  BY <1>1, HandledFacts DEF Good, OrderInv, Behind
<1>5. ShowInv'
  <2>1. ShowsItself => ShowsItself'
    BY <1>1, HandledFacts DEF ShowsItself
  <2>2. ShowsReference => ShowsReference'
    BY <1>1, HandledFacts DEF ShowsReference
  <2> QED BY <1>1, <1>2, <2>1, <2>2, HandledFacts DEF Good, ShowInv
<1>6. HeldInv'
  BY <1>1, <1>2, HandledFacts DEF Good, HeldInv
<1> QED BY <1>1, <1>3, <1>4, <1>5, <1>6, HandledFacts DEF Good

\* What is shown was sent.
LEMMA ShownSent ==
  ASSUME Base, Good, ret \in {"SLICE", "END"}
  PROVE  /\ ~Lost /\ refs # <<>>
         /\ info.display_picture # NULL => /\ ShownFrame \in Nat /\ shown < ShownFrame /\ ShownFrame <= stream.top
                                           /\ ret = "SLICE" => ShownFrame < Due
         /\ ret = "SLICE" => Synced /\ InProgress /\ action = "seek_header" /\ state = "SLICE"
         /\ ret = "END" => ~Synced /\ action = "seek_sequence"
<1>1. ~Lost
  BY DEF Good, PlaceInv
<1>2. refs # <<>>
  BY DEF Good, PlaceInv, EndInv
<1>3. ret = "SLICE" => Synced /\ InProgress /\ action = "seek_header" /\ state = "SLICE"
  BY <1>1 DEF Good, PlaceInv, Synced, Abandoned, InProgress
<1>4. ret = "END" => ~Synced /\ action = "seek_sequence"
  BY DEF Good, PlaceInv, Synced, Abandoned
<1>5. ASSUME info.display_picture # NULL
      PROVE  ShownFrame \in Nat
  <2>1. info.display_picture \in {0, 2}
    BY <1>5 DEF Base, RecordInv, RecordType, Infos
  <2>2. info.display_picture \in 0 .. 3
    BY <2>1
  <2> QED BY <2>2, Facts DEF ShownFrame
<1>6. ASSUME info.display_picture # NULL, ret = "END"
      PROVE  shown < ShownFrame /\ ShownFrame <= stream.top
  <2>1. info # NoInfo
    BY <1>6 DEF NoInfo
  <2> QED BY <1>6, <2>1 DEF Good, EndInv
<1>7. ASSUME info.display_picture # NULL, ret = "SLICE"
      PROVE  shown < ShownFrame /\ ShownFrame < Due /\ ShownFrame <= stream.top
  <2>1. shown < ShownFrame /\ ShownFrame < Due
    BY <1>3, <1>7 DEF Good, ShowInv
  <2>2. /\ stream.top \in Nat /\ stream.nextB \in Nat /\ stream.bs \in Nat /\ refs[1] \in Nat
    BY <1>2, Facts
  <2>3. IF stream.top = 0 THEN stream.nextB = 1 ELSE stream.nextB + stream.bs = stream.top
    BY DEF Base, StreamInv
  <2>4. refs[1] # 0
    BY <1>2 DEF Base, FrameTypes, RefsType, Frames
  <2>5. refs[1] = stream.nextB - 1 \/ refs[1] = stream.top
    BY <1>2, <1>3, <1>7 DEF Good, OrderInv
  <2>6. Due \in {stream.nextB - 1, stream.nextB, stream.nextB + 1}
    <3>1. Due = stream.nextB + (IF sequence.low_delay THEN 1 ELSE 0) - (IF Pending THEN 1 ELSE 0)
      BY DEF Due
    <3> QED BY <2>2, <3>1
  <2>7. Due <= stream.top + 1
    BY <2>2, <2>3, <2>4, <2>5, <2>6
  <2> QED BY <1>5, <1>7, <2>1, <2>2, <2>6, <2>7
<1> QED BY <1>1, <1>2, <1>3, <1>4, <1>5, <1>6, <1>7

LEMMA GoodHandleSlice ==
  ASSUME Base, Good, HandleSlice
  PROVE  Good'
<1>1. /\ ret \in {"SLICE", "END"} /\ ret' = "none" /\ ret # "PICTURE" /\ refs' = refs
      /\ UNCHANGED <<streamVars, libVars, refs, blank>>
  BY DEF HandleSlice
<1>2. /\ shown' = shown \/ (info.display_picture # NULL /\ shown' = ShownFrame)
      /\ held' = IF info.display_picture = NULL THEN held ELSE held \ {ShownFrame}
  <2>1. \/ info.display_picture = NULL /\ shown' = shown /\ held' = held
        \/ /\ info.display_picture # NULL
           /\ shown' = IF Delivers(info.display_picture) THEN ShownFrame ELSE shown
           /\ held' = held \ {ShownFrame}
    BY DEF HandleSlice, ShownFrame
  <2> QED BY <2>1
<1>3. ~InProgress'
  <2>1. action \in {"seek_header", "seek_sequence"} /\ state # "SLICE_1ST"
    BY <1>1, ShownSent DEF Good, PlaceInv
  <2> QED BY <1>1, <2>1, HandledFacts DEF InProgress
<1>4. PlaceInv'
  BY <1>1, HandledFacts, ShownSent
<1>5. OrderInv'
  <2>1. shown' <= stream.top
    BY <1>1, <1>2, ShownSent DEF Good, OrderInv
  <2>2. Synced => shown' < Due
    BY <1>1, <1>2, ShownSent DEF Good, OrderInv
  <2>3. Synced => /\ refs[1] = IF Pending /\ header.type # "B" THEN stream.nextB - 1 ELSE stream.top
                  /\ coding_type # "B" => pictures[Cur].frame = refs[1]
    BY <1>1, ShownSent DEF Good, OrderInv
  <2>4. action' # "invalid_end"
    BY <1>1, ShownSent, HandledFacts
  <2> QED BY <1>1, <2>1, <2>2, <2>3, <2>4, HandledFacts, ShownSent DEF OrderInv
<1>6. ShowInv'
  BY <1>3 DEF ShowInv
<1>7. HeldInv'
  <2>1. held \subseteq (IF sequence.low_delay THEN {} ELSE {refs[1]})
                       \cup (IF info.display_picture # NULL THEN {ShownFrame} ELSE {})
    BY <1>1, ShownSent DEF Good, HeldInv
  <2>2. held' \subseteq (IF sequence.low_delay THEN {} ELSE {refs[1]})
    BY <1>2, <2>1
  <2> QED BY <1>1, <1>3, <2>2, HandledFacts DEF HeldInv
<1> QED BY <1>1, <1>4, <1>5, <1>6, <1>7, HandledFacts DEF Good

-----------------------------------------------------------------------------
(* The invariant *)

LEMMA GoodStutter ==
  ASSUME Good, UNCHANGED vars
  PROVE  Good'
<1>1. UNCHANGED <<stream, code, header, action, state, sequence, new_sequence, coding_type, picture,
                  pictures, fbuf, first, skip, info, mem, ret, shown, held, refs, blank>>
  BY DEF vars, streamVars, libVars, filterVars, ghostVars
<1>2. /\ Cur' = Cur /\ LastRef' = LastRef /\ HalfCoded' = HalfCoded /\ (\A i : RefBuf(i)' = RefBuf(i))
      /\ (Lost' <=> Lost) /\ (Synced' <=> Synced) /\ (Undecoded' <=> Undecoded) /\ (Pending' <=> Pending)
      /\ ShownFrame' = ShownFrame /\ (InProgress' <=> InProgress) /\ (Behind' <=> Behind)
  BY <1>1 DEF Cur, LastRef, HalfCoded, RefBuf, Lost, Synced, Abandoned, Undecoded, Pending, ShownFrame,
              InProgress, Behind
<1>3. Due' = Due
  BY <1>1, <1>2 DEF Due
<1>4. PlaceInv' /\ FieldsInv'
  BY <1>1, <1>2 DEF Good, PlaceInv, FieldsInv
<1>5. PendingInv' /\ OrderInv' /\ ReferenceInv'
  BY <1>1, <1>2, <1>3 DEF Good, PendingInv, OrderInv, ReferenceInv
<1>6. PredictionInv'
  BY <1>1, <1>2 DEF Good, PredictionInv
<1>7. ShowInv'
  <2>1. (ShowsItself => ShowsItself') /\ (ShowsReference => ShowsReference')
    BY <1>1, <1>2 DEF ShowsItself, ShowsReference
  <2> QED BY <1>1, <1>2, <1>3, <2>1 DEF Good, ShowInv
<1>8. EndInv' /\ HeldInv'
  BY <1>1, <1>2 DEF Good, EndInv, HeldInv
<1> QED BY <1>4, <1>5, <1>6, <1>7, <1>8 DEF Good

Intact == damage = 0 => Good

LEMMA IntactInit == Init => Base /\ Intact
<1>1. Init => ParserTypes /\ FrameTypes /\ RecordInv /\ FbufInv
  BY ParserInit, FrameInit, RecordInit DEF Init, FbufInv, TargetNoReference
<1>2. Init => StreamInv
  BY StreamInit
<1>3. Init => Good
  <2> SUFFICES ASSUME Init
               PROVE  Good
    OBVIOUS
  <2>1. /\ Lost /\ ~Synced /\ action = "seek_header" /\ ret = "none" /\ refs = <<>> /\ state = "INVALID"
        /\ held = {} /\ coding_type = "I" /\ first /\ ~skip /\ shown = 0 /\ stream.top = 0 /\ code = "none"
    BY DEF Init, InitStream, Lost, Synced
  <2>2. PlaceInv
    BY <2>1 DEF PlaceInv
  <2>3. FieldsInv /\ PendingInv /\ OrderInv
    BY <2>1 DEF FieldsInv, PendingInv, OrderInv
  <2>4. ReferenceInv /\ PredictionInv /\ ShowInv /\ EndInv /\ HeldInv
    BY <2>1 DEF ReferenceInv, PredictionInv, ShowInv, EndInv, HeldInv
  <2> QED BY <2>2, <2>3, <2>4 DEF Good
<1> QED BY <1>1, <1>2, <1>3 DEF Base, Intact

LEMMA BaseStep ==
  ASSUME Base, [Next]_vars
  PROVE  Base'
BY ParserStep, FrameStep, RecordStep, FbufStep, StreamStep DEF Base

LEMMA IntactStep ==
  ASSUME Base, Base', Intact, [Next]_vars
  PROVE  Intact'
<1> SUFFICES ASSUME damage' = 0
             PROVE  Good'
  BY DEF Intact
<1>1. damage \in Nat /\ (damage' = damage \/ damage' = damage + 1)
  <2>1. damage \in Nat
    BY PictureAssumption DEF Base, ParserTypes
  <2>2. damage' = damage \/ damage' = damage + 1
    BY DEF Next, vars, streamVars, libVars, Parse, LoseUnit, LoseRest, SeekHeader, SpoiltHeader, HeaderEnd,
           SeekSequence, SequenceHeader, InvalidEndAction, GopHeader, PictureHeader, SliceStart, Slices,
           Transform, HandleInvalid, HandlePicture, HandleSlice, HandleOther, Discontinuity, InitDecode
  <2> QED BY <2>1, <2>2
<1>2. damage = 0 /\ Good
  BY <1>1 DEF Intact
<1>3. ~LoseUnit /\ ~LoseRest /\ ~SpoiltHeader
  BY <1>1, <1>2 DEF LoseUnit, LoseRest, SpoiltHeader
<1>4. CASE SeekHeader
  BY <1>2, <1>4, GoodSeekHeader
<1>5. CASE HeaderEnd
  BY <1>2, <1>5, GoodHeaderEnd
<1>6. CASE SeekSequence \/ HandleInvalid \/ Discontinuity
  BY <1>2, <1>6, GoodRestart
<1>7. CASE SequenceHeader
  BY <1>2, <1>7, GoodSequenceHeader
<1>8. CASE InvalidEndAction
  BY <1>2, <1>8, GoodInvalidEnd
<1>9. CASE GopHeader
  BY <1>2, <1>9, GoodGopHeader
<1>10. CASE PictureHeader
  BY <1>2, <1>10, GoodFirstField, GoodSecondField
<1>11. CASE SliceStart
  BY <1>2, <1>11, GoodSliceStart
<1>12. CASE Slices
  BY <1>2, <1>12, GoodSlices
<1>13. CASE HandlePicture
  BY <1>2, <1>13, GoodHandlePicture
<1>14. CASE HandleSlice
  BY <1>2, <1>14, GoodHandleSlice
<1>15. CASE HandleOther
  BY <1>2, <1>15, GoodHandleOther
<1>16. CASE UNCHANGED vars
  BY <1>2, <1>16, GoodStutter
<1> QED BY <1>3, <1>4, <1>5, <1>6, <1>7, <1>8, <1>9, <1>10, <1>11, <1>12, <1>13, <1>14, <1>15, <1>16
    DEF Next, Parse, Transform

LEMMA IntactInvariant == Spec => [](Base /\ Intact)
<1>1. Base /\ Intact /\ [Next]_vars => (Base /\ Intact)'
  BY BaseStep, IntactStep
<1> QED BY <1>1, IntactInit, PTL DEF Spec

\* What is delivered, by the step that shows a picture and at the end of a sequence.
LEMMA OrderFollows ==
  ASSUME Base, Good, AboutToDeliver
  PROVE  /\ shown < pictures[info.display_picture].frame
         /\ LET p == info.display_picture
                second == info.display_picture_2nd
            IN  /\ info.display_fbuf # NULL
                /\ mem[info.display_fbuf] = {pictures[p].frame}
                /\ pictures[p].nb_fields = 1 <=> second # NULL
                /\ second # NULL => pictures[second].frame = pictures[p].frame
<1> DEFINE p == info.display_picture
           second == info.display_picture_2nd
<1>1. ret \in {"SLICE", "END"} /\ p # NULL /\ ~pictures[p].skip
  BY DEF AboutToDeliver, Delivers
<1>2. shown < ShownFrame /\ ~Lost /\ refs # <<>>
  BY <1>1, ShownSent
<1>3. fbuf[0] # NULL /\ fbuf[1] # NULL /\ RefBuf(1) # NULL
  <2>1. fbuf \in [0 .. 2 -> 0 .. 2] /\ NULL \notin 0 .. 2
    BY DEF Base, FbufInv, NULL
  <2> QED BY <2>1 DEF RefBuf
<1>4. picture # NULL /\ Cur + 1 # NULL /\ LastRef + 1 # NULL /\ \A i \in {0, 2} : i + 1 # NULL
  BY Facts DEF NULL
<1>5. CASE ret = "SLICE"
  <2>1. Synced /\ InProgress /\ action = "seek_header" /\ state = "SLICE"
    BY <1>5, ShownSent
  <2>2. /\ ~HalfCoded /\ ~Undecoded
        /\ picture # Cur => pictures[Cur].nb_fields = 1 /\ pictures[picture].frame = pictures[Cur].frame
    BY <1>2, <2>1 DEF Good, FieldsInv, Undecoded
  <2>3. CASE ShowsItself
    BY <1>1, <1>2, <1>3, <1>4, <2>2, <2>3 DEF ShowsItself, ShownFrame, HalfCoded
  <2>4. CASE ShowsReference
    <3>1. p = 2 - Cur /\ p + 1 # NULL
      BY <2>4, Facts DEF ShowsReference, NULL
    <3> QED BY <1>1, <1>2, <1>3, <2>4, <3>1 DEF ShowsReference, ShownFrame
  <2>5. ShowsItself \/ ShowsReference
    BY <1>1, <2>1 DEF Good, ShowInv, NoInfo
  <2> QED BY <2>3, <2>4, <2>5
<1>6. CASE ret = "END"
  <2>1. ~sequence.low_delay
    BY <1>1, <1>6 DEF Good, EndInv, NoInfo
  <2>2. pictures[LastRef].frame = refs[1]
    BY <1>2 DEF Good, ReferenceInv
  <2> QED BY <1>1, <1>2, <1>3, <1>4, <1>6, <2>1, <2>2 DEF Good, EndInv, ShownFrame
<1> QED BY <1>1, <1>5, <1>6

LEMMA HeldFollows ==
  ASSUME Base, Good
  PROVE  held \subseteq {pictures[picture].frame} \cup ToSet(refs)
<1>1. CASE refs = <<>>
  BY <1>1 DEF Good, PlaceInv
<1>2. CASE refs # <<>>
  <2>1. ~Lost
    BY <1>2 DEF Good, PlaceInv
  <2>2. RefsType
    BY Facts
  <2>3. refs[1] \in ToSet(refs) /\ (Len(refs) # 1 => refs[2] \in ToSet(refs))
    <3>1. 1 \in DOMAIN refs /\ (Len(refs) # 1 => 2 \in DOMAIN refs)
      BY <1>2, <2>2, RefsFacts
    <3> QED BY <2>2, <3>1, RefsFacts
  <2>4. ASSUME Synced, InProgress, info.display_picture # NULL
        PROVE  ShownFrame \in {pictures[picture].frame} \cup ToSet(refs)
    <3>1. CASE ShowsItself
      <4>1. pictures[picture].frame = pictures[Cur].frame
        BY <1>2, <2>1 DEF Good, FieldsInv
      <4> QED BY <3>1, <4>1 DEF ShowsItself, ShownFrame
    <3>2. CASE ShowsReference /\ Len(refs) # 1
      BY <2>3, <3>2 DEF ShowsReference, ShownFrame
    <3> QED BY <2>4, <3>1, <3>2 DEF Good, ShowInv, NoInfo
  <2>5. held \subseteq (IF sequence.low_delay THEN {} ELSE {refs[1]})
                       \cup (IF Synced /\ InProgress /\ info.display_picture # NULL THEN {ShownFrame} ELSE {})
    BY <1>2, <2>1 DEF Good, HeldInv
  <2> QED BY <2>3, <2>4, <2>5
<1> QED BY <1>1, <1>2

\* For every intact stream, however often it is interrupted or joined to another,
\* and whatever is skipped: the frames leave Transform in display order, each
\* with its own record and its own buffer, and none but the last reference waits
\* for a later picture (header.c:819-848 and 946-976, with
\* CTVTestVideoDecoder::Transform).
THEOREM FramesInOrderCorrect == Spec => []FramesInOrder
<1>1. Base /\ Intact => InOrder
  BY OrderFollows DEF InOrder, Intact
<1>2. Base /\ Intact => RecordFitsBuffer
  BY OrderFollows DEF RecordFitsBuffer, Intact
<1>3. Base /\ Intact => HeldBack
  BY HeldFollows DEF HeldBack, Intact
<1> QED BY <1>1, <1>2, <1>3, IntactInvariant, PTL DEF FramesInOrder

\* For every intact stream, each buffer that mpeg2_init_fbuf sets up for the
\* prediction of a P or B picture, of the second field of a reference too, holds
\* the frame the sender predicted it from, unless that was skipped
\* (header.c:529-545, 819-848 and 936-943, slice.c:1546-1581).
THEOREM PredictedCorrect == Spec => []PredictedFromReferences
<1>1. Base /\ Intact => PredictedFromReferences
  <2> SUFFICES ASSUME Base, Intact, damage = 0, action = "slices"
               PROVE  /\ coding_type = "P" => PredictsP
                      /\ coding_type = "B" => PredictsB
    BY DEF PredictedFromReferences
  <2>1. Good /\ ~Lost /\ Synced /\ refs # <<>> /\ ~Undecoded
    BY DEF Intact, Good, PlaceInv, Synced, Lost, Abandoned, Undecoded
  <2>2. \A i \in DOMAIN refs : HasFrame(RefBuf(i), refs[i])
    BY <2>1 DEF Good, PredictionInv, HasFrame
  <2>3. (Len(refs) > 0 => 1 \in DOMAIN refs) /\ (Len(refs) = 2 => 2 \in DOMAIN refs) /\ 1 \in DOMAIN refs
    <3>1. RefsType
      BY Facts
    <3> QED BY <2>1, <3>1, RefsFacts
  <2>4. ASSUME coding_type = "P"
        PROVE  PredictsP
    <3>1. RefBuf(1) = fbuf[0] /\ RefBuf(2) = fbuf[1] /\ ForwardFbuf = fbuf[1]
      BY <2>4 DEF RefBuf, ForwardFbuf
    <3>2. Len(refs) = 2 => HasFrame(ForwardFbuf, refs[2])
      BY <2>2, <2>3, <3>1
    <3>3. ASSUME picture \in {1, 3}
          PROVE  HasFrame(OtherFieldFbuf, pictures[picture].frame)
      <4>1. OtherFieldFbuf = RefBuf(1)
        BY <2>4, <3>1, <3>3 DEF OtherFieldFbuf
      <4>2. picture # Cur
        BY <3>3 DEF Cur
      <4>3. pictures[picture].frame = refs[1]
        BY <2>1, <2>4, <4>2 DEF Good, FieldsInv, OrderInv
      <4> QED BY <2>2, <2>3, <4>1, <4>3
    <3> QED BY <3>2, <3>3 DEF PredictsP
  <2>5. ASSUME coding_type = "B"
        PROVE  PredictsB
    <3>1. RefBuf(1) = fbuf[1] /\ RefBuf(2) = fbuf[2]
      BY <2>5 DEF RefBuf
    <3>2. BackwardFbuf = RefBuf(1) /\ ForwardFbuf = RefBuf(2) /\ OtherFieldFbuf = RefBuf(2)
      BY <2>5, <3>1 DEF BackwardFbuf, ForwardFbuf, OtherFieldFbuf
    <3> QED BY <2>2, <2>3, <3>2 DEF PredictsB
  <2> QED BY <2>4, <2>5
<1> QED BY <1>1, IntactInvariant, PTL

\* The end of an intact sequence leaves no frame behind (header.c:946-976).
THEOREM EndDrainsCorrect == Spec => EndDrains
<1>1. Base /\ Intact => (ret = "END" /\ damage = 0 /\ HandleSlice => held' = {})
  <2> SUFFICES ASSUME Base, Intact, ret = "END", damage = 0, HandleSlice
               PROVE  held' = {}
    OBVIOUS
  <2>1. Good /\ ~Lost /\ refs # <<>> /\ ~Synced
    BY ShownSent DEF Intact
  <2>2. held \subseteq (IF sequence.low_delay THEN {} ELSE {refs[1]})
    BY <2>1 DEF Good, HeldInv
  <2>3. held' = IF info.display_picture = NULL THEN held ELSE held \ {ShownFrame}
    BY DEF HandleSlice, ShownFrame
  <2>4. CASE sequence.low_delay
    BY <2>2, <2>3, <2>4
  <2>5. CASE ~sequence.low_delay
    <3>1. info.display_picture = LastRef /\ LastRef # NULL
      BY <2>1, <2>5, Facts DEF Good, EndInv, NULL
    <3>2. ShownFrame = refs[1]
      BY <2>1, <3>1 DEF Good, ReferenceInv, ShownFrame
    <3> QED BY <2>2, <2>3, <2>5, <3>1, <3>2
  <2> QED BY <2>4, <2>5
<1>2. Base /\ Intact /\ [Next]_vars =>
        [ret = "END" /\ damage = 0 /\ HandleSlice => held' = {}]_vars
  BY <1>1
<1> QED BY <1>2, IntactInvariant, PTL DEF Spec, EndDrains

-----------------------------------------------------------------------------
(* The hardware decoders: who has which sample *)

\* The samples in a list or an array.
Holds(f) == {f[i] : i \in DOMAIN f} \ {None}

\* None of them is there twice.
Distinct(f) == \A i, j \in DOMAIN f : f[i] = f[j] /\ f[i] # None => i = j

Slots(n) == [0 .. n -> Surfaces \cup {None}]

Apart(S, T) == S \cap T = {}

OneOwner(free, samples, references, renderer) ==
  /\ free \in Seq(Surfaces) /\ Distinct(free)
  /\ samples \in Slots(2) /\ Distinct(samples)
  /\ references \in Slots(1) /\ Distinct(references)
  /\ renderer \subseteq Surfaces
  /\ Apart(Holds(free), Holds(samples))
  /\ Apart(Holds(free), Holds(references))
  /\ Apart(Holds(free), renderer)
  /\ Apart(Holds(samples), Holds(references))
  /\ Apart(Holds(samples), renderer)
  /\ Apart(Holds(references), renderer)
  /\ Surfaces \subseteq Holds(free) \cup Holds(samples) \cup Holds(references) \cup renderer

LEMMA NoneApart == None \notin Surfaces
BY SampleAssumption DEF None, Surfaces

\* A list holds surfaces only.
LEMMA ListHolds ==
  ASSUME NEW free \in Seq(Surfaces)
  PROVE  /\ Holds(free) = {free[i] : i \in 1 .. Len(free)}
         /\ Holds(free) \subseteq Surfaces
<1>1. DOMAIN free = 1 .. Len(free) /\ \A i \in 1 .. Len(free) : free[i] \in Surfaces
  BY LenProperties, ElementOfSeq
<1> QED BY <1>1, NoneApart DEF Holds

LEMMA SlotsHold ==
  ASSUME NEW n \in Nat, NEW f \in Slots(n)
  PROVE  /\ Holds(f) = {f[i] : i \in 0 .. n} \ {None}
         /\ Holds(f) \subseteq Surfaces
BY DEF Slots, Holds

LEMMA Cleared ==
  ASSUME NEW n \in Nat, NEW f \in Slots(n), Distinct(f), NEW i \in 0 .. n
  PROVE  LET g == [f EXCEPT ![i] = None]
         IN  g \in Slots(n) /\ Distinct(g) /\ Holds(g) = Holds(f) \ {f[i]}
<1> DEFINE g == [f EXCEPT ![i] = None]
<1>1. /\ DOMAIN f = 0 .. n /\ DOMAIN g = 0 .. n
      /\ \A j \in 0 .. n : g[j] = IF j = i THEN None ELSE f[j]
  BY DEF Slots
<1>2. g \in Slots(n)
  BY DEF Slots
<1>3. Distinct(g)
  BY <1>1 DEF Distinct
<1>4. Holds(g) = Holds(f) \ {f[i]}
  <2> HIDE DEF g
  <2>1. ASSUME NEW s \in Holds(g) PROVE s \in Holds(f) \ {f[i]}
    <3>1. PICK j \in 0 .. n : g[j] = s
      BY <1>1, <2>1 DEF Holds
    <3>2. j # i /\ f[j] = s /\ s # None
      BY <1>1, <2>1, <3>1 DEF Holds
    <3> QED BY <1>1, <3>2 DEF Holds, Distinct
  <2>2. ASSUME NEW s \in Holds(f) \ {f[i]} PROVE s \in Holds(g)
    <3>1. PICK j \in 0 .. n : f[j] = s
      BY <1>1, <2>2 DEF Holds
    <3>2. g[j] = s /\ s # None
      BY <1>1, <2>2, <3>1 DEF Holds
    <3> QED BY <1>1, <3>2 DEF Holds
  <2> QED BY <2>1, <2>2
<1> QED BY <1>2, <1>3, <1>4

LEMMA Filled ==
  ASSUME NEW f \in Slots(2), Distinct(f), NEW i \in 0 .. 2, f[i] = None,
         NEW s \in Surfaces, s \notin Holds(f)
  PROVE  LET g == [f EXCEPT ![i] = s]
         IN  g \in Slots(2) /\ Distinct(g) /\ Holds(g) = Holds(f) \cup {s}
<1> DEFINE g == [f EXCEPT ![i] = s]
<1>1. /\ DOMAIN f = 0 .. 2 /\ DOMAIN g = 0 .. 2
      /\ \A j \in 0 .. 2 : g[j] = IF j = i THEN s ELSE f[j]
      /\ s # None
  BY NoneApart DEF Slots
<1>2. g \in Slots(2)
  BY DEF Slots
<1> HIDE DEF g
<1>3. \A j \in 0 .. 2 : f[j] # s
  BY <1>1 DEF Holds
<1>4. Distinct(g)
  BY <1>1, <1>3 DEF Distinct
<1>5. ASSUME NEW t \in Holds(g) PROVE t \in Holds(f) \cup {s}
  <2>1. PICK j \in 0 .. 2 : g[j] = t
    BY <1>1, <1>5 DEF Holds
  <2> QED BY <1>1, <1>5, <2>1 DEF Holds
<1>6. ASSUME NEW t \in Holds(f) PROVE t \in Holds(g)
  <2>1. PICK j \in 0 .. 2 : f[j] = t /\ t # None
    BY <1>1, <1>6 DEF Holds
  <2>2. g[j] = t
    BY <1>1, <2>1
  <2> QED BY <1>1, <2>1, <2>2 DEF Holds
<1>7. s \in Holds(g)
  BY <1>1 DEF Holds
<1> QED BY <1>2, <1>4, <1>5, <1>6, <1>7 DEF g

LEMMA Released ==
  ASSUME NEW free \in Seq(Surfaces), Distinct(free), NEW s \in Surfaces, s \notin Holds(free)
  PROVE  /\ Release(s, free) \in Seq(Surfaces)
         /\ Distinct(Release(s, free))
         /\ Holds(Release(s, free)) = Holds(free) \cup {s}
<1> DEFINE list == Release(s, free)
<1>1. list = <<s>> \o free /\ s # None
  BY NoneApart DEF Release
<1>2. Len(free) \in Nat /\ DOMAIN free = 1 .. Len(free)
  BY LenProperties
<1>3. /\ list \in Seq(Surfaces) /\ Len(list) = Len(free) + 1
      /\ list[1] = s /\ \A i \in 1 .. Len(free) : list[i + 1] = free[i]
  BY <1>1, <1>2
<1> HIDE DEF list
<1>4. DOMAIN list = 1 .. Len(free) + 1
  BY <1>3, LenProperties
<1>5. \A j \in 1 .. Len(free) + 1 : j = 1 \/ (j - 1 \in 1 .. Len(free) /\ list[j] = free[j - 1])
  BY <1>2, <1>3
<1>6. \A i \in 1 .. Len(free) : free[i] # s
  BY <1>1, <1>2 DEF Holds
<1>7. Distinct(list)
  <2> SUFFICES ASSUME NEW i \in 1 .. Len(free) + 1, NEW j \in 1 .. Len(free) + 1, list[i] = list[j]
               PROVE  i = j
    BY <1>4 DEF Distinct
  <2>1. CASE i = 1 \/ j = 1
    BY <1>3, <1>5, <1>6, <2>1
  <2>2. CASE i # 1 /\ j # 1
    <3>1. i - 1 \in DOMAIN free /\ j - 1 \in DOMAIN free /\ free[i - 1] = free[j - 1]
      BY <1>2, <1>5, <2>2
    <3>2. free[i - 1] # None
      BY <1>2, <3>1, ElementOfSeq, NoneApart
    <3>3. i - 1 = j - 1
      BY <3>1, <3>2 DEF Distinct
    <3> QED BY <1>2, <3>3
  <2> QED BY <2>1, <2>2
<1>8. Holds(list) = Holds(free) \cup {s}
  <2>1. ASSUME NEW t \in Holds(list) PROVE t \in Holds(free) \cup {s}
    <3>1. PICK j \in 1 .. Len(free) + 1 : list[j] = t
      BY <1>4, <2>1 DEF Holds
    <3> QED BY <1>2, <1>3, <1>5, <2>1, <3>1 DEF Holds
  <2>2. ASSUME NEW t \in Holds(free) PROVE t \in Holds(list)
    <3>1. PICK i \in 1 .. Len(free) : free[i] = t /\ t # None
      BY <1>2, <2>2 DEF Holds
    <3>2. i + 1 \in DOMAIN list /\ list[i + 1] = t
      BY <1>2, <1>3, <1>4, <3>1
    <3> QED BY <3>1, <3>2 DEF Holds
  <2>3. s \in Holds(list)
    BY <1>1, <1>2, <1>3, <1>4 DEF Holds
  <2> QED BY <2>1, <2>2, <2>3
<1> QED BY <1>3, <1>7, <1>8 DEF list

-----------------------------------------------------------------------------
(* A sample changes hands *)

\* A frame buffer releases its sample, if it has one.
LEMMA ReleaseSample ==
  ASSUME NEW free, NEW samples, NEW references, NEW renderer,
         OneOwner(free, samples, references, renderer),
         NEW i \in 0 .. 2
  PROVE  OneOwner(Release(samples[i], free), [samples EXCEPT ![i] = None], references, renderer)
<1> DEFINE s == samples[i]
           g == [samples EXCEPT ![i] = None]
<1>1. g \in Slots(2) /\ Distinct(g) /\ Holds(g) = Holds(samples) \ {s}
  BY Cleared DEF OneOwner
<1>2. CASE s = None
  <2>1. g = samples /\ Release(s, free) = free
    BY <1>2 DEF OneOwner, Slots, Release
  <2> QED BY <2>1
<1>3. CASE s # None
  <2>1. s \in Holds(samples) /\ s \in Surfaces
    BY <1>3 DEF OneOwner, Slots, Holds
  <2>2. s \notin Holds(free)
    BY <2>1 DEF OneOwner, Apart
  <2>3. /\ Release(s, free) \in Seq(Surfaces)
        /\ Distinct(Release(s, free))
        /\ Holds(Release(s, free)) = Holds(free) \cup {s}
    BY <2>1, <2>2, Released DEF OneOwner
  <2> HIDE DEF s, g
  <2>4. /\ Apart(Holds(free) \cup {s}, Holds(samples) \ {s})
        /\ Apart(Holds(free) \cup {s}, Holds(references))
        /\ Apart(Holds(free) \cup {s}, renderer)
        /\ Apart(Holds(samples) \ {s}, Holds(references))
        /\ Apart(Holds(samples) \ {s}, renderer)
        /\ Apart(Holds(references), renderer)
    BY <2>1 DEF OneOwner, Apart
  <2>5. Surfaces \subseteq (Holds(free) \cup {s}) \cup (Holds(samples) \ {s}) \cup Holds(references) \cup renderer
    BY DEF OneOwner
  <2>6. OneOwner(Release(s, free), g, references, renderer)
    BY <1>1, <2>3, <2>4, <2>5 DEF OneOwner, Apart
  <2> QED BY <2>6 DEF s, g
<1> QED BY <1>2, <1>3

\* The same for a sample that is put aside as a reference.
LEMMA ReleaseReference ==
  ASSUME NEW free, NEW samples, NEW references, NEW renderer,
         OneOwner(free, samples, references, renderer),
         NEW k \in 0 .. 1
  PROVE  OneOwner(Release(references[k], free), samples, [references EXCEPT ![k] = None], renderer)
<1> DEFINE s == references[k]
           g == [references EXCEPT ![k] = None]
<1>1. g \in Slots(1) /\ Distinct(g) /\ Holds(g) = Holds(references) \ {s}
  BY Cleared DEF OneOwner
<1>2. CASE s = None
  <2>1. g = references /\ Release(s, free) = free
    BY <1>2 DEF OneOwner, Slots, Release
  <2> QED BY <2>1
<1>3. CASE s # None
  <2>1. s \in Holds(references) /\ s \in Surfaces
    BY <1>3 DEF OneOwner, Slots, Holds
  <2>2. s \notin Holds(free)
    BY <2>1 DEF OneOwner, Apart
  <2>3. /\ Release(s, free) \in Seq(Surfaces)
        /\ Distinct(Release(s, free))
        /\ Holds(Release(s, free)) = Holds(free) \cup {s}
    BY <2>1, <2>2, Released DEF OneOwner
  <2> HIDE DEF s, g
  <2>4. /\ Apart(Holds(free) \cup {s}, Holds(references) \ {s})
        /\ Apart(Holds(free) \cup {s}, Holds(samples))
        /\ Apart(Holds(free) \cup {s}, renderer)
        /\ Apart(Holds(references) \ {s}, Holds(samples))
        /\ Apart(Holds(references) \ {s}, renderer)
        /\ Apart(Holds(samples), renderer)
    BY <2>1 DEF OneOwner, Apart
  <2>5. Surfaces \subseteq (Holds(free) \cup {s}) \cup (Holds(references) \ {s}) \cup Holds(samples) \cup renderer
    BY DEF OneOwner
  <2>6. OneOwner(Release(s, free), samples, g, renderer)
    BY <1>1, <2>3, <2>4, <2>5 DEF OneOwner, Apart
  <2> QED BY <2>6 DEF s, g
<1> QED BY <1>2, <1>3

\* The references move on, and the sample of the older one is released.
LEMMA MoveReferences ==
  ASSUME NEW free, NEW samples, NEW references, NEW renderer,
         OneOwner(free, samples, references, renderer)
  PROVE  OneOwner(Release(references[1], free), samples,
                  [k \in 0 .. 1 |-> IF k = 1 THEN references[0] ELSE None], renderer)
<1> DEFINE older == [references EXCEPT ![1] = None]
           moved == [k \in 0 .. 1 |-> IF k = 1 THEN references[0] ELSE None]
<1>1. OneOwner(Release(references[1], free), samples, older, renderer)
  <2>1. 1 \in 0 .. 1
    OBVIOUS
  <2> QED BY <2>1, ReleaseReference DEF older
<1>2. references \in Slots(1)
  BY DEF OneOwner
<1>3. /\ DOMAIN older = 0 .. 1 /\ older[0] = references[0] /\ older[1] = None
      /\ DOMAIN moved = 0 .. 1 /\ moved[0] = None /\ moved[1] = references[0]
      /\ moved \in Slots(1)
  BY <1>2 DEF Slots
<1> HIDE DEF older, moved
<1>4. Holds(moved) = Holds(older) /\ Distinct(moved)
  <2>1. \A k \in 0 .. 1 : k = 0 \/ k = 1
    OBVIOUS
  <2>2. Holds(moved) = {references[0]} \ {None} /\ Holds(older) = {references[0]} \ {None}
    BY <1>3, <2>1 DEF Holds
  <2>3. Distinct(moved)
    BY <1>3, <2>1 DEF Distinct
  <2> QED BY <2>2, <2>3
<1> QED BY <1>1, <1>3, <1>4 DEF OneOwner, moved

\* The renderer keeps the sample that is delivered to it.
LEMMA KeepSample ==
  ASSUME NEW free, NEW samples, NEW references, NEW renderer,
         OneOwner(free, samples, references, renderer),
         NEW i \in 0 .. 2, samples[i] # None
  PROVE  OneOwner(free, [samples EXCEPT ![i] = None], references, renderer \cup {samples[i]})
<1> DEFINE s == samples[i]
           g == [samples EXCEPT ![i] = None]
<1>1. g \in Slots(2) /\ Distinct(g) /\ Holds(g) = Holds(samples) \ {s}
  BY Cleared DEF OneOwner
<1>2. s \in Holds(samples) /\ s \in Surfaces
  BY DEF OneOwner, Slots, Holds
<1> HIDE DEF s, g
<1>3. OneOwner(free, g, references, renderer \cup {s})
  BY <1>1, <1>2 DEF OneOwner, Apart
<1> QED BY <1>3 DEF s, g

\* The renderer releases one that it kept.
LEMMA ReturnSample ==
  ASSUME NEW free, NEW samples, NEW references, NEW renderer,
         OneOwner(free, samples, references, renderer),
         NEW s \in renderer
  PROVE  OneOwner(Release(s, free), samples, references, renderer \ {s})
<1>1. s \in Surfaces /\ s \notin Holds(free)
  BY DEF OneOwner, Apart
<1>2. /\ Release(s, free) \in Seq(Surfaces)
      /\ Distinct(Release(s, free))
      /\ Holds(Release(s, free)) = Holds(free) \cup {s}
  BY <1>1, Released DEF OneOwner
<1> QED BY <1>1, <1>2 DEF OneOwner, Apart

\* A new allocator has every sample.
LEMMA NewAllocator ==
  ASSUME NEW samples \in [0 .. 2 -> {None}], NEW references \in [0 .. 1 -> {None}]
  PROVE  OneOwner(AllFree, samples, references, {})
<1>1. cBuffers \in Nat
  BY SampleAssumption
<1>2. /\ AllFree \in Seq(Surfaces) /\ DOMAIN AllFree = 1 .. cBuffers
      /\ \A i \in 1 .. cBuffers : AllFree[i] = IF decoder = "DXVA2" THEN i - 1 ELSE cBuffers - i
  <2>1. \A i \in 1 .. cBuffers : i - 1 \in Surfaces /\ cBuffers - i \in Surfaces
    BY <1>1 DEF Surfaces
  <2>2. AllFree \in [1 .. cBuffers -> Surfaces]
    BY <2>1 DEF AllFree
  <2>3. AllFree \in Seq(Surfaces)
    BY <1>1, <2>2, SeqDef
  <2> QED BY <2>3 DEF AllFree
<1>3. Distinct(AllFree)
  BY <1>1, <1>2 DEF Distinct
<1>4. Surfaces \subseteq Holds(AllFree)
  <2> SUFFICES ASSUME NEW s \in Surfaces
               PROVE  s \in Holds(AllFree)
    OBVIOUS
  <2>1. s + 1 \in 1 .. cBuffers /\ cBuffers - s \in 1 .. cBuffers /\ s # None
    BY <1>1, NoneApart DEF Surfaces
  <2>2. \E i \in 1 .. cBuffers : AllFree[i] = s
    <3>1. CASE decoder = "DXVA2"
      <4>1. AllFree[s + 1] = s
        BY <1>1, <1>2, <2>1, <3>1 DEF Surfaces
      <4> QED BY <2>1, <4>1
    <3>2. CASE decoder # "DXVA2"
      <4>1. AllFree[cBuffers - s] = s
        BY <1>1, <1>2, <2>1, <3>2 DEF Surfaces
      <4> QED BY <2>1, <4>1
    <3> QED BY <3>1, <3>2
  <2> QED BY <1>2, <2>1, <2>2 DEF Holds
<1>5. /\ samples \in Slots(2) /\ references \in Slots(1)
      /\ Holds(samples) = {} /\ Holds(references) = {}
      /\ Distinct(samples) /\ Distinct(references)
  BY DEF Slots, Holds, Distinct
<1> QED BY <1>2, <1>3, <1>4, <1>5 DEF OneOwner, Apart

-----------------------------------------------------------------------------
(* DecodeFrame takes a sample *)

LEMMA LeastElement ==
  ASSUME NEW S \in SUBSET Nat, S # {}
  PROVE  \E i \in S : \A j \in S : i <= j
<1>1. PICK i \in S : \A j \in S : ~ (<<j, i>> \in OpToRel(<, Nat))
  BY NatLessThanWellFounded, WFMin
<1>2. \A j \in S : ~ (j < i)
  BY <1>1 DEF OpToRel
<1> QED BY <1>2

\* Each of the two reference records has the sample of its slice, or none.
ReferenceSlices ==
  /\ RefSlice \in Slots(1)
  /\ \A k \in 0 .. 1 : RefSample[k] \in {None, RefSlice[k]}

\* What the loop over GetBuffer finds: the first sample that will do, and before it
\* only such as are put aside.
LEMMA GotFacts ==
  ASSUME m_lFree \in Seq(Surfaces), Distinct(m_lFree), Suitable # {}
  PROVE  /\ Got \in 1 .. Len(m_lFree)
         /\ m_lFree[Got] \in Surfaces /\ m_lFree[Got] \notin Reserved
         /\ PutAside \subseteq Reserved /\ PutAside \subseteq Holds(m_lFree)
         /\ SubSeq(m_lFree, Got + 1, Len(m_lFree)) \in Seq(Surfaces)
         /\ Distinct(SubSeq(m_lFree, Got + 1, Len(m_lFree)))
         /\ Holds(SubSeq(m_lFree, Got + 1, Len(m_lFree)))
              = Holds(m_lFree) \ (PutAside \cup {m_lFree[Got]})
<1> DEFINE len == Len(m_lFree)
           rest == SubSeq(m_lFree, Got + 1, len)
<1>1. /\ len \in Nat /\ DOMAIN m_lFree = 1 .. len
      /\ \A i \in 1 .. len : m_lFree[i] \in Surfaces
  BY LenProperties, ElementOfSeq
<1>2. Suitable \in SUBSET Nat
  BY <1>1 DEF Suitable
<1>3. Got \in Suitable /\ \A j \in Suitable : Got <= j
  BY <1>2, LeastElement DEF Got
<1>4. Got \in 1 .. len /\ m_lFree[Got] \notin Reserved
  BY <1>1, <1>3 DEF Suitable
<1>5. \A i \in 1 .. Got - 1 : i \in 1 .. len /\ m_lFree[i] \in Reserved
  <2> SUFFICES ASSUME NEW i \in 1 .. Got - 1
               PROVE  i \in 1 .. len /\ m_lFree[i] \in Reserved
    OBVIOUS
  <2>1. i \in 1 .. len /\ ~ (Got <= i)
    BY <1>1, <1>4
  <2> QED BY <1>1, <1>3, <2>1 DEF Suitable
<1>6. PutAside \subseteq Reserved /\ PutAside \subseteq Holds(m_lFree)
  BY <1>1, <1>5, NoneApart DEF PutAside, Holds
<1>7. /\ rest \in Seq(Surfaces) /\ Len(rest) = len - Got
      /\ \A i \in 1 .. len - Got : rest[i] = m_lFree[Got + i]
  <2> HIDE DEF len
  <2>1. Got + 1 \in Int /\ len \in Int /\ \A i \in Got + 1 .. len : m_lFree[i] \in Surfaces
    BY <1>1, <1>4
  <2>2. /\ rest \in Seq(Surfaces)
        /\ Len(rest) = IF Got + 1 <= len THEN len - (Got + 1) + 1 ELSE 0
        /\ \A i \in 1 .. len - (Got + 1) + 1 : rest[i] = m_lFree[Got + 1 + i - 1]
    BY <2>1, SubSeqProperties
  <2> HIDE DEF rest
  <2> QED BY <1>1, <1>4, <2>2
<1> HIDE DEF rest
<1>8. DOMAIN rest = 1 .. len - Got
  BY <1>7, LenProperties
<1> HIDE DEF len
<1>9. Distinct(rest)
  <2> SUFFICES ASSUME NEW i \in 1 .. len - Got, NEW j \in 1 .. len - Got, rest[i] = rest[j]
               PROVE  i = j
    BY <1>8 DEF Distinct
  <2>1. Got + i \in 1 .. len /\ Got + j \in 1 .. len /\ m_lFree[Got + i] = m_lFree[Got + j]
    BY <1>1, <1>4, <1>7
  <2>2. Got + i = Got + j
    BY <1>1, <2>1, NoneApart DEF Distinct
  <2> QED BY <1>4, <2>2
<1>10. Holds(rest) = Holds(m_lFree) \ (PutAside \cup {m_lFree[Got]})
  <2>1. ASSUME NEW s \in Holds(rest) PROVE s \in Holds(m_lFree) \ (PutAside \cup {m_lFree[Got]})
    <3>1. PICK i \in 1 .. len - Got : rest[i] = s
      BY <1>8, <2>1 DEF Holds
    <3>2. Got + i \in 1 .. len /\ m_lFree[Got + i] = s /\ s # None
      BY <1>1, <1>4, <1>7, <2>1, <3>1 DEF Holds
    <3>3. \A j \in 1 .. Got : m_lFree[j] # s
      <4> SUFFICES ASSUME NEW j \in 1 .. Got, m_lFree[j] = s
                   PROVE  FALSE
        OBVIOUS
      <4>1. j \in 1 .. len /\ j # Got + i
        BY <1>1, <1>4
      <4> QED BY <1>1, <3>2, <4>1 DEF Distinct
    <3>4. s # m_lFree[Got]
      BY <1>4, <3>3
    <3>5. s \notin PutAside
      BY <1>4, <3>3 DEF PutAside
    <3> QED BY <1>1, <3>2, <3>4, <3>5 DEF Holds
  <2>2. ASSUME NEW s \in Holds(m_lFree) \ (PutAside \cup {m_lFree[Got]}) PROVE s \in Holds(rest)
    <3>1. PICK j \in 1 .. len : m_lFree[j] = s
      BY <1>1, <2>2 DEF Holds
    <3>2. j # Got /\ ~ (j \in 1 .. Got - 1) /\ s # None
      BY <2>2, <3>1 DEF PutAside, Holds
    <3>3. j - Got \in 1 .. len - Got /\ Got + (j - Got) = j
      BY <1>1, <1>4, <3>2
    <3>4. rest[j - Got] = s
      BY <1>7, <3>1, <3>3
    <3> QED BY <1>8, <3>2, <3>3, <3>4 DEF Holds
  <2> QED BY <2>1, <2>2
<1> QED BY <1>1, <1>4, <1>6, <1>7, <1>9, <1>10 DEF rest, len

\* The samples found on the way are put aside, the one that will do goes to the frame buffer.
LEMMA TakeSample ==
  ASSUME OneOwner(m_lFree, Sample, RefSample, kept), ReferenceSlices, fbuf[0] \in 0 .. 2,
         ~HasSample, Suitable # {}
  PROVE  OneOwner(FreeThen, SampleThen, RefSampleThen, kept)
<1> DEFINE s == m_lFree[Got]
<1>1. /\ m_lFree \in Seq(Surfaces) /\ Distinct(m_lFree)
      /\ Sample \in Slots(2) /\ Distinct(Sample)
      /\ RefSample \in Slots(1) /\ Distinct(RefSample)
  BY DEF OneOwner
<1>2. /\ s \in Surfaces /\ s \in Holds(m_lFree)
      /\ s \notin Reserved /\ PutAside \subseteq Reserved /\ PutAside \subseteq Holds(m_lFree)
  <2>1. s \in Holds(m_lFree)
    BY <1>1, GotFacts, ListHolds
  <2> QED BY <1>1, <2>1, GotFacts
<1>3. /\ FreeThen \in Seq(Surfaces) /\ Distinct(FreeThen)
      /\ Holds(FreeThen) = Holds(m_lFree) \ (PutAside \cup {s})
  BY <1>1, GotFacts DEF FreeThen
<1>4. SampleThen \in Slots(2) /\ Distinct(SampleThen) /\ Holds(SampleThen) = Holds(Sample) \cup {s}
  <2>1. Sample[fbuf[0]] = None /\ s \notin Holds(Sample) /\ SampleThen = [Sample EXCEPT ![fbuf[0]] = s]
    BY <1>2 DEF HasSample, OneOwner, Apart, SampleThen, Target
  <2> HIDE DEF s
  <2> DEFINE i == fbuf[0]
             g == [Sample EXCEPT ![i] = s]
  <2>2. i \in 0 .. 2 /\ Sample[i] = None /\ s \in Surfaces /\ s \notin Holds(Sample)
    BY <1>2, <2>1
  <2> HIDE DEF i
  <2>3. g \in Slots(2) /\ Distinct(g) /\ Holds(g) = Holds(Sample) \cup {s}
    BY <1>1, <2>2, Filled
  <2> QED BY <2>1, <2>3 DEF i
<1>5. /\ RefSampleThen \in Slots(1) /\ Distinct(RefSampleThen)
      /\ Holds(RefSampleThen) = Holds(RefSample) \cup PutAside
  <2>1. /\ DOMAIN RefSample = 0 .. 1 /\ DOMAIN RefSampleThen = 0 .. 1
        /\ RefSlice[0] \in Surfaces \cup {None} /\ RefSlice[1] \in Surfaces \cup {None}
    BY <1>1 DEF Slots, RefSampleThen, ReferenceSlices
  <2>2. /\ RefSampleThen[0] = IF RefSlice[0] \in PutAside THEN RefSlice[0] ELSE RefSample[0]
        /\ RefSampleThen[1] = IF RefSlice[1] \in PutAside /\ RefSlice[0] # RefSlice[1]
                              THEN RefSlice[1] ELSE RefSample[1]
    BY DEF RefSampleThen
  <2>3. RefSample[0] \in {None, RefSlice[0]} /\ RefSample[1] \in {None, RefSlice[1]}
    BY DEF ReferenceSlices
  <2>4. \A k \in 0 .. 1 : RefSample[k] \notin PutAside
    <3> SUFFICES ASSUME NEW k \in 0 .. 1, RefSample[k] \in PutAside
                 PROVE  FALSE
      OBVIOUS
    <3>1. RefSample[k] \in Holds(m_lFree)
      BY <1>2
    <3>2. RefSample[k] \in Holds(RefSample)
      BY <2>1, <3>1 DEF Holds
    <3> QED BY <3>1, <3>2 DEF OneOwner, Apart
  <2>5. PutAside \subseteq Surfaces /\ PutAside \subseteq {RefSlice[0], RefSlice[1]}
    BY <1>1, <1>2, ListHolds DEF Reserved
  <2>6. RefSampleThen \in Slots(1)
    BY <1>1, <2>5 DEF RefSampleThen, Slots
  <2>7. RefSample[0] # None => RefSample[0] # RefSample[1]
    BY <1>1, <2>1 DEF Distinct
  <2>8. RefSampleThen[0] # None => RefSampleThen[0] # RefSampleThen[1]
    BY <2>2, <2>3, <2>4, <2>7
  <2>9. \A k \in 0 .. 1 : k = 0 \/ k = 1
    OBVIOUS
  <2>10. Distinct(RefSampleThen)
    BY <2>1, <2>8, <2>9 DEF Distinct
  <2>11. /\ Holds(RefSample) = {RefSample[0], RefSample[1]} \ {None}
         /\ Holds(RefSampleThen) = {RefSampleThen[0], RefSampleThen[1]} \ {None}
    BY <2>1, <2>9 DEF Holds
  <2>12. {RefSampleThen[0], RefSampleThen[1]} \ {None} = ({RefSample[0], RefSample[1]} \ {None}) \cup PutAside
    BY <2>2, <2>3, <2>4, <2>5, NoneApart
  <2> QED BY <2>6, <2>10, <2>11, <2>12
<1> DEFINE F == Holds(m_lFree)
           S == Holds(Sample)
           R == Holds(RefSample)
<1>6. /\ Apart(F \ (PutAside \cup {s}), S \cup {s})
      /\ Apart(F \ (PutAside \cup {s}), R \cup PutAside)
      /\ Apart(F \ (PutAside \cup {s}), kept)
      /\ Apart(S \cup {s}, R \cup PutAside)
      /\ Apart(S \cup {s}, kept)
      /\ Apart(R \cup PutAside, kept)
      /\ Surfaces \subseteq (F \ (PutAside \cup {s})) \cup (S \cup {s}) \cup (R \cup PutAside) \cup kept
  <2> HIDE DEF s, F, S, R
  <2>1. /\ Apart(F, S) /\ Apart(F, R) /\ Apart(F, kept) /\ Apart(S, R) /\ Apart(S, kept) /\ Apart(R, kept)
        /\ Surfaces \subseteq F \cup S \cup R \cup kept
    BY DEF OneOwner, F, S, R
  <2>2. s \in F /\ s \notin PutAside /\ PutAside \subseteq F
    BY <1>2 DEF F
  <2> QED BY <2>1, <2>2 DEF Apart
<1>7. kept \subseteq Surfaces
  BY DEF OneOwner
<1> HIDE DEF s, F, S, R
<1> QED BY <1>3, <1>4, <1>5, <1>6, <1>7 DEF OneOwner, F, S, R

-----------------------------------------------------------------------------
(* The library under the hardware decoders *)

LEMMA LibraryStep == [NextSamples]_allVars => [Next]_vars
<1>1. OtherUnit \/ SliceHook \/ Restart => Next
  BY DEF OtherUnit, SliceHook, Restart, Next, Parse, Transform
<1>2. NewPicture \/ FirstFieldEnd \/ PictureEnd \/ OtherState => Next
  BY DEF NewPicture, FirstFieldEnd, PictureEnd, OtherState, Next, Transform
<1>3. RendererReturns \/ UNCHANGED allVars => UNCHANGED vars
  BY DEF RendererReturns, allVars
<1> QED BY <1>1, <1>2, <1>3 DEF NextSamples

\* Under a hardware decoder the library and Transform still do what PictureOrder says: the
\* samples only hang on it, whatever fails (TVTestVideoDecoder.cpp:620-690).
THEOREM LibraryImplemented == SpecSamples => Spec
<1>1. InitSamples => Init
  BY DEF InitSamples
<1> QED BY <1>1, LibraryStep, PTL DEF SpecSamples, Spec

LEMMA LibraryInvariant == SpecSamples => [](Base /\ Intact)
BY LibraryImplemented, IntactInvariant

\* What DecodeFrame reads of the library.
LEMMA LibFacts ==
  ASSUME Base
  PROVE  /\ fbuf[0] \in 0 .. 2
         /\ info.display_fbuf # NULL => info.display_fbuf \in 0 .. 2
         /\ Current.frame \in Frames \cup {0}
         /\ ToSet(refs) \subseteq Frames
<1>1. fbuf[0] \in 0 .. 2 /\ Current.frame \in Frames \cup {0}
  BY DEF Base, RecordInv, RecordType, Current, Pictures
<1>2. info.display_fbuf # NULL => info.display_fbuf \in 0 .. 2
  BY DEF Base, RecordInv, RecordType, Infos, NULL
<1> QED BY <1>1, <1>2, RefsFacts DEF Base, FrameTypes

-----------------------------------------------------------------------------
(* The invariant *)

RendererBound == Cardinality(kept) <= MaxKept /\ (decoder = "D3D11" => kept = {})

OtherTypes ==
  /\ ArraySlice \in Slots(2)
  /\ surface \in [Surfaces -> Frames \cup {0}]
  /\ m_fWaitForDecodeKeyFrame \in BOOLEAN
  /\ m_fWaitForDisplayKeyFrame \in BOOLEAN
  /\ failures \in 0 .. MaxFailures
  /\ whole \in SUBSET Frames

HeldOnce == OneOwner(m_lFree, Sample, RefSample, kept)

SampleInv == HeldOnce /\ ReferenceSlices /\ RendererBound /\ OtherTypes

FlagTypes == decoder \in Decoders /\ m_SliceCount \in 0 .. 1

LEMMA KeptFinite ==
  ASSUME NEW S \in SUBSET Surfaces
  PROVE  IsFiniteSet(S) /\ Cardinality(S) \in Nat
<1>1. IsFiniteSet(Surfaces)
  BY SampleAssumption, FS_Interval DEF Surfaces
<1>2. IsFiniteSet(S)
  BY <1>1, FS_Subset
<1> QED BY <1>2, FS_CardinalityType

LEMMA SampleInit == InitSamples => SampleInv /\ FlagTypes
<1> SUFFICES ASSUME InitSamples
             PROVE  SampleInv /\ FlagTypes
  OBVIOUS
<1>1. HeldOnce
  BY NewAllocator DEF InitSamples, HeldOnce
<1>2. ReferenceSlices
  BY DEF InitSamples, ReferenceSlices, Slots
<1>3. RendererBound
  BY SampleAssumption, FS_EmptySet DEF InitSamples, RendererBound
<1>4. OtherTypes
  BY SampleAssumption DEF InitSamples, OtherTypes, Slots
<1> QED BY <1>1, <1>2, <1>3, <1>4 DEF InitSamples, SampleInv, FlagTypes

LEMMA SampleSame ==
  ASSUME SampleInv, UNCHANGED pictureVars, UNCHANGED decoder
  PROVE  SampleInv'
BY DEF SampleInv, HeldOnce, ReferenceSlices, RendererBound, OtherTypes, pictureVars

\* The sample that is shown leaves its frame buffer.
Leaves(sample, samples, then) ==
  \/ sample = None /\ then = samples
  \/ \E i \in 0 .. 2 : sample = samples[i] /\ then = [samples EXCEPT ![i] = None]

\* The sample of the older reference is dropped when the references move on.
Drops(ref, references, then) ==
  \/ ref = None /\ then = references
  \/ ref = references[1] /\ then = [k \in 0 .. 1 |-> IF k = 1 THEN references[0] ELSE None]

LEMMA LeavesFree ==
  ASSUME NEW free, NEW samples, NEW references, NEW renderer, NEW sample, NEW then,
         OneOwner(free, samples, references, renderer),
         Leaves(sample, samples, then)
  PROVE  /\ OneOwner(Release(sample, free), then, references, renderer)
         /\ sample # None => OneOwner(free, then, references, renderer \cup {sample})
<1>1. CASE sample = None /\ then = samples
  BY <1>1 DEF Release
<1>2. CASE \E i \in 0 .. 2 : sample = samples[i] /\ then = [samples EXCEPT ![i] = None]
  <2>1. PICK i \in 0 .. 2 : sample = samples[i] /\ then = [samples EXCEPT ![i] = None]
    BY <1>2
  <2> QED BY <2>1, ReleaseSample, KeepSample
<1> QED BY <1>1, <1>2 DEF Leaves

LEMMA DropsFree ==
  ASSUME NEW free, NEW samples, NEW references, NEW renderer, NEW ref, NEW then,
         OneOwner(free, samples, references, renderer),
         Drops(ref, references, then)
  PROVE  OneOwner(Release(ref, free), samples, then, renderer)
<1>1. CASE ref = None /\ then = references
  BY <1>1 DEF Release
<1>2. CASE ref = references[1] /\ then = [k \in 0 .. 1 |-> IF k = 1 THEN references[0] ELSE None]
  BY <1>2, MoveReferences
<1> QED BY <1>1, <1>2 DEF Drops

LEMMA GivenBack ==
  ASSUME NEW free, NEW samples, NEW references, NEW sample, NEW ref,
         OneOwner(free, samples, references, kept), RendererBound, UNCHANGED decoder,
         Leaves(sample, samples, Sample'), Drops(ref, references, RefSample'),
         GiveBack(sample, ref, free)
  PROVE  HeldOnce' /\ RendererBound'
<1>1. CASE GiveBackD3D11(sample, ref, free)
  <2>1. m_lFree' = Release(ref, Release(sample, free)) /\ kept' = kept
    BY <1>1 DEF GiveBackD3D11
  <2>2. OneOwner(Release(sample, free), Sample', references, kept)
    BY LeavesFree
  <2>3. OneOwner(Release(ref, Release(sample, free)), Sample', RefSample', kept)
    BY <2>2, DropsFree
  <2> QED BY <2>1, <2>3 DEF HeldOnce, RendererBound
<1>2. CASE GiveBackDXVA2(sample, ref, free)
  <2>1. OneOwner(Release(ref, free), samples, RefSample', kept)
    BY DropsFree
  <2>2. /\ OneOwner(Release(sample, Release(ref, free)), Sample', RefSample', kept)
        /\ sample # None => OneOwner(Release(ref, free), Sample', RefSample', kept \cup {sample})
    BY <2>1, LeavesFree
  <2>3. CASE m_lFree' = Release(sample, Release(ref, free)) /\ kept' = kept
    BY <2>2, <2>3 DEF HeldOnce, RendererBound
  <2>4. CASE /\ sample # None /\ Cardinality(kept) < MaxKept
             /\ m_lFree' = Release(ref, free) /\ kept' = kept \cup {sample}
    <3>1. HeldOnce'
      BY <2>2, <2>4 DEF HeldOnce
    <3>2. IsFiniteSet(kept) /\ Cardinality(kept) \in Nat
      BY KeptFinite DEF OneOwner
    <3>3. Cardinality(kept') <= Cardinality(kept) + 1
      BY <2>4, <3>2, FS_AddElement
    <3>4. Cardinality(kept') \in Nat
      BY <2>4, <3>2, FS_AddElement, FS_CardinalityType
    <3>5. Cardinality(kept') <= MaxKept
      BY <2>4, <3>2, <3>3, <3>4, SampleAssumption
    <3>6. decoder' = "DXVA2"
      BY <1>2 DEF GiveBackDXVA2
    <3> QED BY <3>1, <3>5, <3>6 DEF RendererBound
  <2> QED BY <1>2, <2>3, <2>4 DEF GiveBackDXVA2
<1> QED BY <1>1, <1>2 DEF GiveBack

\* The samples after GetBuffer, whether it had to be called or not.
LEMMA ThenOwner ==
  ASSUME Base, HeldOnce, ReferenceSlices, SampleFound
  PROVE  /\ OneOwner(FreeThen, SampleThen, RefSampleThen, kept)
         /\ SampleThen \in Slots(2) /\ Target \in Surfaces
         /\ \A k \in 0 .. 1 : RefSampleThen[k] \in {None, RefSlice[k]}
<1>1. fbuf[0] \in 0 .. 2
  BY LibFacts
<1>2. Sample \in Slots(2) /\ RefSample \in Slots(1)
  BY DEF HeldOnce, OneOwner
<1>3. OneOwner(FreeThen, SampleThen, RefSampleThen, kept)
  <2>1. CASE HasSample
    <3>1. FreeThen = m_lFree /\ SampleThen = Sample
      BY <1>1, <1>2, <2>1 DEF FreeThen, SampleThen, Target, Slots
    <3>2. RefSampleThen = RefSample
      BY <1>2, <2>1 DEF RefSampleThen, Slots
    <3> QED BY <3>1, <3>2 DEF HeldOnce
  <2>2. CASE ~HasSample
    BY <1>1, <2>2, TakeSample DEF HeldOnce, SampleFound
  <2> QED BY <2>1, <2>2
<1>4. SampleThen \in Slots(2)
  BY <1>3 DEF OneOwner
<1>5. Target \in Surfaces
  <2>1. CASE HasSample
    BY <1>1, <1>2, <2>1 DEF HasSample, Target, Slots
  <2>2. CASE ~HasSample
    BY <2>2, GotFacts DEF HeldOnce, OneOwner, SampleFound, Target
  <2> QED BY <2>1, <2>2
<1>6. \A k \in 0 .. 1 : RefSampleThen[k] \in {None, RefSlice[k]}
  BY DEF RefSampleThen, ReferenceSlices
<1> QED BY <1>3, <1>4, <1>5, <1>6

LEMMA ShownLeaves ==
  ASSUME Base, NEW samples, NEW show \in BOOLEAN
  PROVE  LET sample == IF show THEN Shown(samples) ELSE None
         IN  Leaves(sample, samples, ShownReleased(samples, sample))
<1>1. info.display_fbuf # NULL => info.display_fbuf \in 0 .. 2
  BY LibFacts
<1> QED BY <1>1 DEF Leaves, ShownReleased, Shown

LEMMA SubmitStep ==
  ASSUME Base, SampleInv, NEW show \in BOOLEAN, NEW outcome \in {"ok", "early", "late"},
         outcome # "ok" => failures < MaxFailures,
         Submit(show, outcome), UNCHANGED decoder
  PROVE  SampleInv'
<1> DEFINE visible == show /\ outcome = "ok"
           sample == IF visible THEN Shown(SampleThen) ELSE None
           remember == show /\ outcome # "early" /\ Current.type # "B"
           ref == IF remember THEN RefSampleThen[1] ELSE None
<1>1. /\ OneOwner(FreeThen, SampleThen, RefSampleThen, kept)
      /\ SampleThen \in Slots(2) /\ Target \in Surfaces
      /\ \A k \in 0 .. 1 : RefSampleThen[k] \in {None, RefSlice[k]}
  BY ThenOwner DEF SampleInv, Submit
<1>2. HeldOnce' /\ RendererBound'
  <2>1. Leaves(sample, SampleThen, Sample')
    <3>1. visible \in BOOLEAN
      OBVIOUS
    <3>2. Sample' = ShownReleased(SampleThen, sample)
      BY DEF Submit
    <3> HIDE DEF visible
    <3> QED BY <3>1, <3>2, ShownLeaves
  <2>2. Drops(ref, RefSampleThen, RefSample')
    BY DEF Drops, Submit
  <2>3. GiveBack(sample, ref, FreeThen)
    BY DEF Submit
  <2> HIDE DEF sample, ref
  <2> QED BY <1>1, <2>1, <2>2, <2>3, GivenBack DEF SampleInv
<1>3. ReferenceSlices'
  <2>1. RefSlice \in Slots(1)
    BY DEF SampleInv, ReferenceSlices
  <2>2. CASE remember
    <3>1. /\ RefSample' = [k \in 0 .. 1 |-> IF k = 1 THEN RefSampleThen[0] ELSE None]
          /\ RefSlice' = [k \in 0 .. 1 |-> IF k = 1 THEN RefSlice[0] ELSE Target]
      BY <2>2 DEF Submit
    <3>2. RefSlice' \in Slots(1)
      BY <1>1, <2>1, <3>1 DEF Slots
    <3>3. \A k \in 0 .. 1 : RefSample'[k] \in {None, RefSlice'[k]}
      BY <1>1, <3>1
    <3> QED BY <3>2, <3>3 DEF ReferenceSlices
  <2>3. CASE ~remember
    <3>1. RefSample' = RefSampleThen /\ RefSlice' = RefSlice
      BY <2>3 DEF Submit
    <3> QED BY <1>1, <2>1, <3>1 DEF ReferenceSlices
  <2> QED BY <2>2, <2>3
<1>4. OtherTypes'
  <2>1. /\ Current.frame \in Frames \cup {0} /\ ToSet(refs) \subseteq Frames /\ fbuf[0] \in 0 .. 2
    BY LibFacts
  <2>2. ArraySlice' \in Slots(2)
    BY <1>1, <2>1 DEF Submit, SampleInv, OtherTypes, Slots
  <2>3. surface' \in [Surfaces -> Frames \cup {0}]
    BY <1>1, <2>1 DEF Submit, SampleInv, OtherTypes
  <2>4. m_fWaitForDecodeKeyFrame' \in BOOLEAN
    BY DEF Submit
  <2>5. m_fWaitForDisplayKeyFrame' \in BOOLEAN
    BY DEF Submit, SampleInv, OtherTypes, DisplayWaits
  <2>6. failures' \in 0 .. MaxFailures
    BY SampleAssumption DEF Submit, SampleInv, OtherTypes
  <2>7. whole' \in SUBSET Frames
    BY <2>1 DEF Submit
  <2> QED BY <2>2, <2>3, <2>4, <2>5, <2>6, <2>7 DEF OtherTypes
<1> QED BY <1>2, <1>3, <1>4 DEF SampleInv

LEMMA OnlyShowStep ==
  ASSUME Base, SampleInv, NEW show \in BOOLEAN, OnlyShow(show), UNCHANGED decoder
  PROVE  SampleInv'
<1> DEFINE sample == IF show THEN Shown(Sample) ELSE None
<1>1. Leaves(sample, Sample, Sample')
  BY ShownLeaves DEF OnlyShow
<1>2. Drops(None, RefSample, RefSample') /\ GiveBack(sample, None, m_lFree)
  BY DEF Drops, OnlyShow
<1>3. HeldOnce' /\ RendererBound'
  <2> HIDE DEF sample
  <2> QED BY <1>1, <1>2, GivenBack DEF SampleInv, HeldOnce
<1>4. /\ UNCHANGED <<ArraySlice, RefSample, RefSlice, surface, m_fWaitForDecodeKeyFrame, failures, whole>>
      /\ m_fWaitForDisplayKeyFrame' \in BOOLEAN
  BY DEF OnlyShow, SampleInv, OtherTypes, DisplayWaits
<1>5. ReferenceSlices' /\ OtherTypes'
  BY <1>4 DEF SampleInv, ReferenceSlices, OtherTypes
<1> QED BY <1>3, <1>5 DEF SampleInv

LEMMA DecodeFrameStep ==
  ASSUME Base, SampleInv, NEW show \in BOOLEAN, DecodeFrame(show), UNCHANGED decoder
  PROVE  SampleInv'
<1>1. CASE OnlyShow(show)
  BY <1>1, OnlyShowStep
<1>2. CASE GiveUp
  BY <1>2, SampleSame DEF GiveUp
<1>3. CASE Submit(show, "ok")
  BY <1>3, SubmitStep
<1>4. CASE failures < MaxFailures /\ \E outcome \in {"early", "late"} : Submit(show, outcome)
  BY <1>4, SubmitStep
<1> QED BY <1>1, <1>2, <1>3, <1>4 DEF DecodeFrame

\* ResetDecoding releases the samples one after the other, or makes a new allocator.
LEMMA ResetStep ==
  ASSUME SampleInv, ResetDecoding
  PROVE  SampleInv'
<1>1. HeldOnce'
  <2> DEFINE S0 == [Sample EXCEPT ![0] = None]
             S1 == [S0 EXCEPT ![1] = None]
             S2 == [S1 EXCEPT ![2] = None]
             R0 == [RefSample EXCEPT ![0] = None]
             R1 == [R0 EXCEPT ![1] = None]
             F0 == Release(Sample[0], m_lFree)
             F1 == Release(Sample[1], F0)
             F2 == Release(Sample[2], F1)
             F3 == Release(RefSample[0], F2)
  <2>1. CASE decoder = "D3D11"
    <3>1. m_lFree' = AllFree /\ kept' = {}
      BY <2>1 DEF ResetDecoding, SampleInv, RendererBound
    <3>2. Sample' \in [0 .. 2 -> {None}] /\ RefSample' \in [0 .. 1 -> {None}]
      BY DEF ResetDecoding
    <3> QED BY <3>1, <3>2, NewAllocator DEF HeldOnce
  <2>2. CASE decoder # "D3D11"
    <3>1. m_lFree' = Release(RefSample[1], F3) /\ kept' = kept
      BY <2>2 DEF ResetDecoding
    <3>2. Sample \in Slots(2) /\ RefSample \in Slots(1)
      BY DEF SampleInv, HeldOnce, OneOwner
    <3>3. /\ S0[1] = Sample[1] /\ S1[2] = Sample[2] /\ R0[1] = RefSample[1]
          /\ Sample' = S2 /\ RefSample' = R1
      <4>1. /\ DOMAIN S2 = 0 .. 2 /\ \A i \in 0 .. 2 : i \in {0, 1, 2} /\ S2[i] = None
            /\ DOMAIN R1 = 0 .. 1 /\ \A k \in 0 .. 1 : k \in {0, 1} /\ R1[k] = None
        BY <3>2 DEF Slots
      <4>2. S0[1] = Sample[1] /\ S1[2] = Sample[2] /\ R0[1] = RefSample[1]
        BY <3>2 DEF Slots
      <4>3. S2 = [i \in 0 .. 2 |-> None]
        BY <3>2, <4>1 DEF Slots
      <4>4. R1 = [k \in 0 .. 1 |-> None]
        BY <3>2, <4>1 DEF Slots
      <4> QED BY <4>2, <4>3, <4>4 DEF ResetDecoding
    <3>4. OneOwner(m_lFree, Sample, RefSample, kept)
      BY DEF SampleInv, HeldOnce
    <3>i. {0, 1, 2} \subseteq 0 .. 2 /\ {0, 1} \subseteq 0 .. 1
      OBVIOUS
    <3> HIDE DEF F0, F1, F2, F3, S0, S1, S2, R0, R1
    <3>5. OneOwner(F0, S0, RefSample, kept)
      BY <3>i, <3>4, ReleaseSample DEF F0, S0
    <3>6. OneOwner(F1, S1, RefSample, kept)
      BY <3>i, <3>3, <3>5, ReleaseSample DEF F1, S1
    <3>7. OneOwner(F2, S2, RefSample, kept)
      BY <3>i, <3>3, <3>6, ReleaseSample DEF F2, S2
    <3>8. OneOwner(F3, S2, R0, kept)
      BY <3>i, <3>7, ReleaseReference DEF F3, R0
    <3>9. OneOwner(Release(RefSample[1], F3), S2, R1, kept)
      BY <3>i, <3>3, <3>8, ReleaseReference DEF R1
    <3> QED BY <3>1, <3>3, <3>9 DEF HeldOnce
  <2> QED BY <2>1, <2>2
<1>2. ReferenceSlices'
  BY DEF ResetDecoding, ReferenceSlices, Slots
<1>3. RendererBound'
  BY DEF ResetDecoding, SampleInv, RendererBound
<1>4. OtherTypes'
  <2>1. ArraySlice' \in Slots(2) /\ surface' \in [Surfaces -> Frames \cup {0}]
    BY DEF ResetDecoding, Slots
  <2>2. m_fWaitForDecodeKeyFrame' \in BOOLEAN /\ m_fWaitForDisplayKeyFrame' \in BOOLEAN
    BY DEF ResetDecoding
  <2>3. failures' \in 0 .. MaxFailures /\ whole' \in SUBSET Frames
    BY DEF ResetDecoding, SampleInv, OtherTypes
  <2> QED BY <2>1, <2>2, <2>3 DEF OtherTypes
<1> QED BY <1>1, <1>2, <1>3, <1>4 DEF SampleInv

LEMMA ReturnsStep ==
  ASSUME SampleInv, RendererReturns
  PROVE  SampleInv'
<1>1. PICK s \in kept : kept' = kept \ {s} /\ m_lFree' = Release(s, m_lFree)
  BY DEF RendererReturns
<1>2. UNCHANGED <<decoder, Sample, ArraySlice, RefSample, RefSlice, surface,
                  m_fWaitForDecodeKeyFrame, m_fWaitForDisplayKeyFrame, failures, whole>>
  BY DEF RendererReturns
<1>3. HeldOnce'
  BY <1>1, <1>2, ReturnSample DEF SampleInv, HeldOnce
<1>4. RendererBound'
  <2>1. IsFiniteSet(kept) /\ Cardinality(kept) \in Nat
    BY KeptFinite DEF SampleInv, HeldOnce, OneOwner
  <2>2. Cardinality(kept') = Cardinality(kept) - 1
    BY <1>1, <2>1, FS_RemoveElement
  <2>3. Cardinality(kept') <= MaxKept
    BY <2>1, <2>2, SampleAssumption DEF SampleInv, RendererBound
  <2> QED BY <1>1, <1>2, <2>3 DEF SampleInv, RendererBound
<1>5. ReferenceSlices' /\ OtherTypes'
  BY <1>2 DEF SampleInv, ReferenceSlices, OtherTypes
<1> QED BY <1>3, <1>4, <1>5 DEF SampleInv

LEMMA SampleStep ==
  ASSUME Base, SampleInv, [NextSamples]_allVars
  PROVE  SampleInv'
<1>1. CASE OtherUnit \/ OtherState \/ UNCHANGED allVars
  BY <1>1, SampleSame DEF OtherUnit, OtherState, sampleVars, allVars
<1>2. CASE SliceHook \/ NewPicture
  BY <1>2, SampleSame DEF SliceHook, NewPicture
<1>3. CASE FirstFieldEnd \/ PictureEnd
  BY <1>3, DecodeFrameStep DEF FirstFieldEnd, PictureEnd
<1>4. CASE Restart
  BY <1>4, ResetStep DEF Restart
<1>5. CASE RendererReturns
  BY <1>5, ReturnsStep
<1> QED BY <1>1, <1>2, <1>3, <1>4, <1>5 DEF NextSamples

LEMMA FlagStep ==
  ASSUME FlagTypes, [NextSamples]_allVars
  PROVE  FlagTypes'
<1>1. CASE OtherUnit \/ OtherState \/ PictureEnd \/ RendererReturns \/ UNCHANGED allVars
  BY <1>1 DEF OtherUnit, OtherState, PictureEnd, RendererReturns, sampleVars, allVars, FlagTypes
<1>2. CASE SliceHook \/ NewPicture \/ FirstFieldEnd
  <2>1. decoder' = decoder
    BY <1>2 DEF SliceHook, NewPicture, FirstFieldEnd
  <2>2. m_SliceCount' \in {m_SliceCount, 0, 1}
    BY <1>2 DEF SliceHook, NewPicture, FirstFieldEnd
  <2> QED BY <2>1, <2>2 DEF FlagTypes
<1>3. CASE Restart
  BY <1>3 DEF Restart, ResetDecoding, FlagTypes
<1> QED BY <1>1, <1>2, <1>3 DEF NextSamples

LEMMA SampleInvariant == SpecSamples => [](Base /\ SampleInv /\ FlagTypes)
<1>1. InitSamples => SampleInv /\ FlagTypes
  BY SampleInit
<1>2. Base /\ SampleInv /\ FlagTypes /\ [NextSamples]_allVars => (SampleInv /\ FlagTypes)'
  BY SampleStep, FlagStep
<1> QED BY <1>1, <1>2, LibraryInvariant, PTL DEF SpecSamples

-----------------------------------------------------------------------------
(* The references of an intact stream.  A frame that is a reference, or was *)
(* submitted, is older than the reference whose header comes next.         *)

RefsInv ==
  /\ Len(refs) = 2 => refs[2] < refs[1] /\ (Synced => refs[2] < Due)
  /\ refs # <<>> => /\ pictures[picture].type = coding_type
                    /\ coding_type = "B" => pictures[Cur].frame \notin ToSet(refs)
  /\ ret = "SLICE_1ST" => state = "SLICE_1ST" /\ action = "seek_header"

\* The header of a reference is to be processed.
ReferenceNext == ~Lost /\ Pending /\ header.type # "B"

OldFrames ==
  \A f \in ToSet(refs) \cup whole : f <= stream.top /\ (ReferenceNext => f < stream.top)

\* The steps of a stream that stays intact.
LEMMA IntactNext ==
  ASSUME Base, damage' = 0, [Next]_vars
  PROVE  /\ damage = 0
         /\ \/ SeekHeader \/ HeaderEnd \/ SeekSequence \/ HandleInvalid \/ Discontinuity
            \/ SequenceHeader \/ InvalidEndAction \/ GopHeader \/ PictureHeader \/ SliceStart \/ Slices
            \/ HandlePicture \/ HandleSlice \/ HandleOther
            \/ UNCHANGED vars
<1>1. damage \in Nat
  BY PictureAssumption DEF Base, ParserTypes
<1>2. damage' = damage \/ damage' = damage + 1
  BY DEF Next, vars, streamVars, libVars, Parse, LoseUnit, LoseRest, SeekHeader, SpoiltHeader, HeaderEnd,
         SeekSequence, SequenceHeader, InvalidEndAction, GopHeader, PictureHeader, SliceStart, Slices,
         Transform, HandleInvalid, HandlePicture, HandleSlice, HandleOther, Discontinuity, InitDecode
<1>3. damage = 0
  BY <1>1, <1>2
<1>4. ~LoseUnit /\ ~LoseRest /\ ~SpoiltHeader
  BY <1>3 DEF LoseUnit, LoseRest, SpoiltHeader
<1> QED BY <1>3, <1>4 DEF Next, Parse, Transform

LEMMA RefsNumbers ==
  ASSUME Base
  PROVE  /\ Len(refs) \in 0 .. 2 /\ DOMAIN refs = 1 .. Len(refs) /\ (refs = <<>> <=> Len(refs) = 0)
         /\ \A i \in DOMAIN refs : refs[i] \in Nat /\ refs[i] \in ToSet(refs)
         /\ ToSet(refs) = {refs[i] : i \in DOMAIN refs}
<1>1. RefsType /\ Frames \subseteq Nat
  BY PictureAssumption DEF Base, FrameTypes, Frames
<1> QED BY <1>1, RefsFacts DEF ToSet

\* A second field is never taken for a new picture, nor the other way round.
LEMMA PendingSent ==
  ASSUME Base, Find, Good', ~Lost', code' = "pic"
  PROVE  /\ SentReference(header') => state' # "SLICE_1ST"
         /\ SentSecond(header') => state' = "SLICE_1ST"
<1>1. header' \in Coded /\ header' # NoHeader
  BY FindFacts, CodedNotNone DEF Base, SentPicture
<1>2. /\ state' = "SLICE_1ST" => stream'.second = NoHeader /\ header'.nb_fields = 1
      /\ state' # "SLICE_1ST" => stream'.second = AfterField(header')
  BY DEF Good, PendingInv
<1> QED BY <1>1, <1>2 DEF SentReference, SentSecond, AfterField

\* The older reference stays before what is due when the sender sends more.
LEMMA DueStays ==
  ASSUME Base, Base', Find, Good, Good', RefsInv, ~Pending, Synced, Synced', Len(refs) = 2,
         refs' = refs, sequence' = sequence
  PROVE  refs[2] < Due'
<1>1. /\ refs[2] < Due /\ refs[2] < refs[1]
      /\ Due = stream.nextB + (IF sequence.low_delay THEN 1 ELSE 0) - 0
      /\ Due' = stream'.nextB + (IF sequence.low_delay THEN 1 ELSE 0) - (IF Pending' THEN 1 ELSE 0)
  BY DEF RefsInv, Due
<1>2. /\ stream.nextB \in Nat /\ stream'.nextB \in Nat /\ refs[1] \in Nat /\ refs[2] \in Nat
      /\ refs # <<>> /\ ~Lost'
  <2>1. stream.nextB \in Nat /\ refs # <<>> /\ refs[1] \in Nat /\ refs[2] \in Nat
    BY Facts, RefsNumbers
  <2>2. stream'.nextB \in Nat
    BY DEF Base, StreamInv, StreamType
  <2> QED BY <2>1, <2>2 DEF Synced
<1>3. CASE code' # "pic"
  <2>1. ~Pending' /\ stream'.nextB = stream.nextB
    BY <1>3, FindFacts DEF Base, Pending, SentOther
  <2> QED BY <1>1, <1>2, <2>1
<1>4. CASE code' = "pic" /\ SentReference(header')
  <2>1. Pending' /\ header'.type # "B"
    BY <1>2, <1>4, PendingSent DEF Pending, SentReference
  <2>2. refs[1] = stream'.nextB - 1
    BY <1>2, <2>1 DEF Good, OrderInv
  <2> QED BY <1>1, <1>2, <2>1, <2>2
<1>5. CASE code' = "pic" /\ SentB(header')
  <2>1. stream'.nextB = stream.nextB + 1
    BY <1>5 DEF SentB
  <2> QED BY <1>1, <1>2, <2>1
<1>6. CASE code' = "pic" /\ SentSecond(header')
  <2>1. ~Pending' /\ stream'.nextB = stream.nextB
    BY <1>2, <1>6, PendingSent DEF Pending, SentSecond
  <2> QED BY <1>1, <1>2, <2>1
<1> QED BY <1>3, <1>4, <1>5, <1>6, FindFacts DEF Base, SentPicture

\* Steps that leave the references and the picture alone.
LEMMA RefsSame ==
  ASSUME RefsInv, UNCHANGED <<refs, coding_type, picture>>,
         pictures'[picture].type = pictures[picture].type,
         pictures'[Cur].frame = pictures[Cur].frame,
         Synced' /\ Len(refs) = 2 => refs[2] < Due',
         ret' = "SLICE_1ST" => state' = "SLICE_1ST" /\ action' = "seek_header"
  PROVE  RefsInv'
<1>1. Cur' = Cur
  BY DEF Cur
<1> QED BY <1>1 DEF RefsInv

LEMMA RefsPictureHeader ==
  ASSUME Base, Base', Good, RefsInv, PictureHeader
  PROVE  RefsInv'
<1>1. /\ coding_type' = header.type /\ ret' # "SLICE_1ST" /\ Synced /\ Synced' /\ code = "pic"
      /\ code' = "slice" /\ stream'.nextB = stream.nextB /\ sequence' = sequence
  BY PictureHeaderFacts
<1>2. /\ refs # <<>> => refs[1] \in Nat
      /\ Len(refs) = 2 => refs[2] \in Nat
      /\ stream.nextB \in Nat /\ stream.top \in Nat /\ stream.bs \in Nat
      /\ stream.top # 0 => stream.nextB + stream.bs = stream.top
  <2>1. stream.top # 0 => stream.nextB + stream.bs = stream.top
    BY DEF Base, StreamInv
  <2> QED BY <2>1, RefsNumbers, Facts
<1>3. CASE state = "SLICE_1ST"
  <2>1. /\ refs' = refs /\ Cur' = Cur /\ picture' = Cur + 1 /\ Cur \in {0, 2}
        /\ pictures'[Cur] = pictures[Cur]
        /\ header.type = "B" <=> coding_type = "B"
    BY <1>3, SecondFieldFacts, Facts
  <2>2. pictures'[picture'].type = header.type
    <3>1. pictures' = [pictures EXCEPT ![picture + 1] = Record(header)] /\ picture' = picture + 1
      BY <1>3, PictureHeaderFacts DEF SecondField
    <3>2. picture' \in 0 .. 3 /\ pictures \in [0 .. 3 -> Pictures]
      BY DEF Base, RecordInv, RecordType
    <3> QED BY <3>1, <3>2, RecordOf
  <2>3. Due' = Due
    BY <1>1, <1>3 DEF Due, Pending
  <2> QED BY <1>1, <2>1, <2>2, <2>3 DEF RefsInv
<1>4. CASE state # "SLICE_1ST"
  <2>1. /\ picture' = 2 - LastRef /\ Cur' = 2 - LastRef /\ pictures'[2 - LastRef] = Record(header)
        /\ refs' = IF header.type = "B" THEN refs
                   ELSE IF refs = <<>> THEN <<header.frame>> ELSE <<header.frame, refs[1]>>
    BY <1>4, FirstFieldFacts
  <2>2. /\ header.frame \in Nat /\ header.frame # 0
        /\ IF header.type = "B"
           THEN header.frame = stream.nextB - 1 /\ ~sequence.low_delay /\ refs # <<>>
           ELSE header.frame = stream.top
        /\ refs # <<>> => refs[1] = IF header.type = "B" THEN stream.top ELSE stream.nextB - 1
        /\ Due' = stream.nextB + (IF sequence.low_delay THEN 1 ELSE 0)
    BY <1>4, BeforeFirstField
  <2>3. pictures'[picture'].type = coding_type' /\ pictures'[Cur'].frame = header.frame
    BY <1>1, <2>1, RecordOf
  <2>4. Len(refs) = 2 => refs[2] < Due /\ Due = stream.nextB + (IF sequence.low_delay THEN 1 ELSE 0) - 1
    BY <1>1, <1>4 DEF RefsInv, Due, Pending
  <2>5. CASE header.type = "B"
    <3>1. header.frame < refs[1] /\ refs # <<>>
      <4>1. stream.top \in Nat /\ refs[1] = stream.top /\ refs[1] # 0
        <5>1. refs[1] # 0
          BY <2>2, <2>5 DEF Base, FrameTypes, RefsType, Frames
        <5> QED BY <1>2, <2>2, <2>5, <5>1
      <4> QED BY <1>2, <2>2, <2>5, <4>1
    <3>2. Len(refs) = 2 => refs[2] < header.frame
      <4>1. Len(refs) = 2 => Due = stream.nextB + 0 - 1
        BY <2>2, <2>4, <2>5
      <4> QED BY <1>2, <2>2, <2>4, <2>5, <4>1
    <3>3. header.frame \notin ToSet(refs)
      <4> SUFFICES ASSUME NEW i \in DOMAIN refs, refs[i] = header.frame
                   PROVE  FALSE
        BY RefsNumbers
      <4>1. i = 1 \/ (i = 2 /\ Len(refs) = 2)
        BY RefsNumbers
      <4> QED BY <1>2, <2>2, <3>1, <3>2, <4>1
    <3>4. Len(refs) = 2 => refs[2] < refs[1] /\ refs[2] < Due'
      BY <1>2, <2>2, <2>5, <3>2 DEF RefsInv
    <3> QED BY <1>1, <2>1, <2>3, <2>5, <3>3, <3>4 DEF RefsInv
  <2>6. CASE header.type # "B"
    <3>1. Len(refs') = 2 => refs # <<>> /\ refs' = <<header.frame, refs[1]>>
      BY <2>1, <2>6
    <3>2. refs # <<>> => refs[1] < header.frame /\ refs[1] < Due'
      BY <1>2, <2>2, <2>6
    <3> QED BY <1>1, <2>3, <2>6, <3>1, <3>2 DEF RefsInv
  <2> QED BY <2>5, <2>6
<1> QED BY <1>3, <1>4

LEMMA RefsStep ==
  ASSUME Base, Base', Good, Good', damage' = 0, RefsInv, [Next]_vars
  PROVE  RefsInv'
<1>1. CASE PictureHeader
  BY <1>1, RefsPictureHeader
\* There are no references any more.
<1>2. CASE SeekSequence \/ HandleInvalid \/ Discontinuity \/ InvalidEndAction
  <2>1. refs' = <<>> /\ ret' # "SLICE_1ST" /\ Len(refs') # 2
    BY <1>2 DEF SeekSequence, HandleInvalid, Discontinuity, InvalidEndAction, InitDecode, HeaderStateInit
  <2> QED BY <2>1 DEF RefsInv
<1>3. CASE SeekHeader
  <2>1. Lost /\ ret' # "SLICE_1ST" /\ ~Synced' /\ UNCHANGED <<refs, coding_type, picture, pictures>>
    <3>1. ~Wanted /\ action = "seek_header"
      BY <1>3 DEF SeekHeader
    <3>2. Lost
      BY <3>1 DEF Good, PlaceInv, Lost, Wanted
    <3> QED BY <1>3, <3>2 DEF SeekHeader, ghostVars, Lost, Synced
  <2> QED BY <2>1, RefsSame
<1>4. CASE HeaderEnd
  <2>1. ~Synced' /\ ret' = "END" /\ UNCHANGED <<refs, coding_type, picture, pictures>>
    BY <1>4 DEF HeaderEnd, Synced, Abandoned, ghostVars
  <2> QED BY <2>1, RefsSame
<1>5. CASE SequenceHeader \/ GopHeader \/ Slices
  <2>1. /\ UNCHANGED <<refs, coding_type, picture, pictures>> /\ Find
        /\ ret' = "SLICE_1ST" => state' = "SLICE_1ST" /\ action' = "seek_header"
    <3>1. CASE SequenceHeader \/ GopHeader
      BY <3>1 DEF SequenceHeader, GopHeader, ReturnInvalid, ghostVars
    <3>2. CASE Slices
      BY <3>2 DEF Slices, ghostVars
    <3> QED BY <1>5, <3>1, <3>2
  <2>2. Synced' /\ Len(refs) = 2 => ~Pending /\ Synced /\ sequence' = sequence
    <3> SUFFICES ASSUME Synced', Len(refs) = 2
                 PROVE  ~Pending /\ Synced /\ sequence' = sequence
      OBVIOUS
    <3>1. ~Lost
      BY DEF Good, PlaceInv
    <3>2. CASE SequenceHeader
      BY <3>1, <3>2 DEF SequenceHeader, AtHeader, ReturnInvalid, Synced, Lost, Abandoned, Pending
    <3>3. CASE GopHeader
      BY <3>1, <3>3 DEF GopHeader, AtHeader, ReturnInvalid, Synced, Lost, Abandoned, Pending
    <3>4. CASE Slices
      <4>1. code = "slice"
        BY <3>4 DEF Slices, Good, PlaceInv
      <4> QED BY <3>1, <3>4, <4>1 DEF Slices, Synced, Lost, Abandoned, Pending
    <3> QED BY <1>5, <3>2, <3>3, <3>4
  <2>3. Synced' /\ Len(refs) = 2 => refs[2] < Due'
    BY <2>1, <2>2, DueStays
  <2> QED BY <2>1, <2>3, RefsSame
<1>6. CASE SliceStart
  <2>1. /\ UNCHANGED <<refs, coding_type, picture>> /\ ret' = "none" /\ Due' = Due /\ (Synced' => Synced)
        /\ Cur \in 0 .. 3 /\ pictures'[Cur].frame = pictures[Cur].frame
    BY <1>6, SliceStartFacts, Facts
  <2>2. pictures'[picture].type = pictures[picture].type
    <3>1. pictures \in [0 .. 3 -> Pictures] /\ picture \in 0 .. 3
      BY DEF Base, RecordInv, RecordType
    <3>2. pictures' = pictures \/ pictures' = [pictures EXCEPT ![picture].skip = TRUE]
      BY <1>6 DEF SliceStart
    <3> QED BY <3>1, <3>2 DEF Pictures
  <2> QED BY <2>1, <2>2, RefsSame DEF RefsInv
<1>7. CASE HandlePicture \/ HandleSlice \/ HandleOther \/ UNCHANGED vars
  <2>1. /\ UNCHANGED <<stream, code, header, action, state, sequence, coding_type, picture, pictures, refs>>
        /\ ret' = "none" \/ ret' = ret
    BY <1>7 DEF HandlePicture, HandleSlice, HandleOther, vars, streamVars, libVars, ghostVars
  <2>2. (Synced' => Synced) /\ (Pending' <=> Pending)
    BY <2>1 DEF Synced, Lost, Abandoned, Pending
  <2>3. Due' = Due
    BY <2>1, <2>2 DEF Due
  <2> QED BY <2>1, <2>2, <2>3, RefsSame DEF RefsInv
<1> QED BY <1>1, <1>2, <1>3, <1>4, <1>5, <1>6, <1>7, IntactNext

\* Steps that take nothing from the input.
LEMMA OldStill ==
  ASSUME OldFrames, stream' = stream, ToSet(refs') \cup whole' \subseteq ToSet(refs) \cup whole,
         ReferenceNext' => ReferenceNext
  PROVE  OldFrames'
BY DEF OldFrames

\* The next unit is found.
LEMMA OldFind ==
  ASSUME Base, Base', Good', OldFrames, Find, whole \in SUBSET Frames, refs' = refs, whole' = whole
  PROVE  OldFrames'
<1> SUFFICES ASSUME NEW f \in ToSet(refs) \cup whole
             PROVE  f <= stream'.top /\ (ReferenceNext' => f < stream'.top)
  BY DEF OldFrames
<1>1. f \in Nat /\ stream.top \in Nat /\ stream'.top \in Nat /\ f <= stream.top /\ stream.top <= stream'.top
  <2>1. f \in Nat
    <3>1. ToSet(refs) \in SUBSET Frames
      BY RefsFacts, Facts
    <3>2. Frames \subseteq Nat
      BY PictureAssumption DEF Frames
    <3> QED BY <3>1, <3>2
  <2>2. stream'.top \in Nat
    BY PictureAssumption DEF Base, StreamInv, StreamType
  <2> QED BY <2>1, <2>2, FindMonotone, Facts DEF OldFrames
<1>2. ReferenceNext' => stream.top < stream'.top
  <2> SUFFICES ASSUME ReferenceNext'
               PROVE  stream.top < stream'.top
    OBVIOUS
  <2>1. ~Lost' /\ code' = "pic" /\ state' # "SLICE_1ST" /\ header'.type # "B"
    BY DEF ReferenceNext, Pending
  <2>2. SentReference(header')
    BY <2>1, PendingSent, FindFacts DEF Base, SentPicture, SentB
  <2> QED BY <1>1, <2>2 DEF SentReference
<1> QED BY <1>1, <1>2

LEMMA OldFramesStep ==
  ASSUME Base, Base', Good, Good', SampleInv, damage' = 0, OldFrames, [NextSamples]_allVars
  PROVE  OldFrames'
<1>1. whole \in SUBSET Frames
  BY DEF SampleInv, OtherTypes
\* What is submitted is one of the references.
<1>2. CASE FirstFieldEnd \/ PictureEnd
  <2>1. /\ UNCHANGED <<stream, refs, sequence, code, state, header>>
        /\ whole' \subseteq ToSet(refs) \cup whole
    <3>1. UNCHANGED <<stream, refs, sequence, code, state, header>>
      BY <1>2 DEF FirstFieldEnd, PictureEnd, HandleSlice, HandleOther, streamVars, libVars, ghostVars
    <3>2. \E show \in BOOLEAN : DecodeFrame(show)
      BY <1>2 DEF FirstFieldEnd, PictureEnd
    <3>3. whole' \subseteq ToSet(refs) \cup whole
      BY <3>2 DEF DecodeFrame, OnlyShow, GiveUp, Submit, pictureVars
    <3> QED BY <3>1, <3>3
  <2> QED BY <2>1, OldStill DEF ReferenceNext, Lost, Pending
<1>3. CASE NewPicture \/ OtherState \/ RendererReturns \/ UNCHANGED allVars
  <2>1. UNCHANGED <<stream, refs, sequence, code, state, header, whole>>
    BY <1>3 DEF NewPicture, OtherState, RendererReturns, HandlePicture, HandleSlice, HandleOther,
                allVars, vars, sampleVars, pictureVars, streamVars, libVars, ghostVars
  <2> QED BY <2>1, OldStill DEF ReferenceNext, Lost, Pending
<1>4. CASE Restart
  <2>1. stream' = stream /\ refs' = <<>> /\ whole' = {} /\ Lost'
    BY <1>4 DEF Restart, HandleInvalid, Discontinuity, InitDecode, HeaderStateInit, ResetDecoding, Lost
  <2>2. ToSet(refs') = {}
    BY <2>1 DEF ToSet
  <2> QED BY <2>1, <2>2, OldStill DEF ReferenceNext
<1>5. CASE SliceHook
  <2>1. UNCHANGED <<stream, refs, sequence, code, header, whole>> /\ code = "slice"
    BY <1>5, SliceStartFacts DEF SliceHook, pictureVars
  <2> QED BY <2>1, OldStill DEF ReferenceNext, Pending
<1>6. CASE OtherUnit
  <2>0. whole' = whole
    BY <1>6 DEF OtherUnit, sampleVars, pictureVars
  <2>1. CASE SeekHeader \/ SequenceHeader \/ GopHeader \/ Slices
    <3>1. Find /\ refs' = refs
      BY <2>1 DEF SeekHeader, SequenceHeader, GopHeader, Slices, ReturnInvalid, ghostVars
    <3> QED BY <1>1, <2>0, <3>1, OldFind
  <2>2. CASE HeaderEnd
    <3>1. stream' = stream /\ refs' = refs /\ code' = "end"
      BY <2>2 DEF HeaderEnd, AtHeader, streamVars, ghostVars
    <3> QED BY <2>0, <3>1, OldStill DEF ReferenceNext, Pending
  <2>3. CASE SeekSequence \/ InvalidEndAction
    <3>1. /\ stream' = stream /\ refs' = <<>> /\ code' = code /\ header' = header
          /\ Lost' \/ (~Lost /\ state = "INVALID_END")
      BY <2>3 DEF SeekSequence, InvalidEndAction, HeaderStateInit, streamVars, Lost, Good, PlaceInv
    <3>2. ToSet(refs') = {}
      BY <3>1 DEF ToSet
    <3>3. ReferenceNext' => ReferenceNext
      BY <3>1 DEF ReferenceNext, Pending
    <3> QED BY <2>0, <3>1, <3>2, <3>3, OldStill
  <2>4. CASE PictureHeader
    <3>1. stream'.top = stream.top /\ ~ReferenceNext' /\ stream.top \in Nat
      BY <2>4, PictureHeaderFacts, Facts DEF ReferenceNext, Pending
    <3>2. ToSet(refs') \subseteq ToSet(refs) \cup {stream.top}
      <4>1. CASE state = "SLICE_1ST"
        BY <2>4, <4>1, SecondFieldFacts
      <4>2. CASE state # "SLICE_1ST"
        <5>1. \/ refs' = refs \/ refs' = <<stream.top>>
              \/ refs # <<>> /\ refs' = <<stream.top, refs[1]>>
          BY <2>4, <4>2, FirstFieldFacts, BeforeFirstField
        <5>2. refs # <<>> => refs[1] \in ToSet(refs)
          BY RefsNumbers
        <5>3. ToSet(<<stream.top>>) = {stream.top} /\ ToSet(<<stream.top, refs[1]>>) = {stream.top, refs[1]}
          BY DEF ToSet
        <5> QED BY <5>1, <5>2, <5>3
      <4> QED BY <4>1, <4>2
    <3> QED BY <2>0, <3>1, <3>2 DEF OldFrames
  <2>5. ~LoseUnit /\ ~LoseRest /\ ~SpoiltHeader
    <3>1. damage = 0 /\ damage \in Nat
      BY LibraryStep, IntactNext
    <3> QED BY <3>1 DEF LoseUnit, LoseRest, SpoiltHeader
  <2> QED BY <1>6, <2>1, <2>2, <2>3, <2>4, <2>5 DEF OtherUnit
<1> QED BY <1>2, <1>3, <1>4, <1>5, <1>6 DEF NextSamples

-----------------------------------------------------------------------------
(* The surfaces of the references.  While a reference is decoded it is the *)
(* one before it that the newest reference record remembers.               *)

\* The sequence has not been ended.
Active == action # "seek_sequence" \/ ret = "END"

\* A reference is being decoded.
Making == InProgress /\ coding_type # "B"

\* A reference's surface holds it, is in no other buffer, and is put aside when the
\* allocator returns it.
RefKept(i) ==
  LET s == ArraySlice[RefBuf(i)]
  IN  /\ s \in Surfaces /\ surface[s] = refs[i]
      /\ \A b \in 0 .. 2 : b # RefBuf(i) => Sample[b] # s
      /\ Active => s \in Reserved /\ (i = 1 \/ Making => s = RefSlice[0])

KeptInv ==
  /\ \A b \in 0 .. 2 : Sample[b] # None => ArraySlice[b] = Sample[b]
  /\ \A i \in DOMAIN refs : refs[i] \in whole => RefKept(i)
  /\ refs # <<>> /\ Making => refs[1] \notin whole

LEMMA KeptNoRefs ==
  ASSUME KeptInv, refs' = <<>>, UNCHANGED <<Sample, ArraySlice>>
  PROVE  KeptInv'
BY DEF KeptInv

\* Steps that decode nothing.
LEMMA KeptStill ==
  ASSUME KeptInv, UNCHANGED <<refs, ArraySlice, RefSlice, surface, whole>>,
         \A i \in DOMAIN refs : RefBuf(i)' = RefBuf(i),
         \A b \in 0 .. 2 : Sample'[b] \in {None, Sample[b]},
         Active' => Active, Making' => Making
  PROVE  KeptInv'
<1>1. ASSUME NEW i \in DOMAIN refs, refs[i] \in whole
      PROVE  RefKept(i)'
  <2> DEFINE s == ArraySlice[RefBuf(i)]
  <2>1. /\ s \in Surfaces /\ surface[s] = refs[i]
        /\ \A b \in 0 .. 2 : b # RefBuf(i) => Sample[b] # s
        /\ Active => s \in Reserved /\ (i = 1 \/ Making => s = RefSlice[0])
    BY <1>1 DEF KeptInv, RefKept
  <2>2. RefBuf(i)' = RefBuf(i) /\ s' = s /\ Reserved' = Reserved
    BY <1>1 DEF Reserved
  <2>3. \A b \in 0 .. 2 : b # RefBuf(i) => Sample'[b] # s
    BY <2>1, NoneApart
  <2> QED BY <2>1, <2>2, <2>3 DEF RefKept
<1>2. \A b \in 0 .. 2 : Sample'[b] # None => ArraySlice'[b] = Sample'[b]
  BY DEF KeptInv
<1> QED BY <1>1, <1>2 DEF KeptInv

\* The header of a reference makes the newest reference the older one.
LEMMA KeptPictureHeader ==
  ASSUME Base, Base', Good, OldFrames, KeptInv, PictureHeader, UNCHANGED sampleVars
  PROVE  KeptInv'
<1>1. /\ code = "pic" /\ action \in {"seek_header", "parse_header"} /\ ~Lost /\ coding_type' = header.type
      /\ UNCHANGED <<Sample, ArraySlice, RefSlice, surface, whole>>
  BY PictureHeaderFacts DEF Synced, sampleVars, pictureVars
<1>2. Active
  BY <1>1 DEF Active
<1>3. CASE state = "SLICE_1ST"
  <2>1. /\ refs' = refs /\ \A i : RefBuf(i)' = RefBuf(i)
        /\ header.type = "B" <=> coding_type = "B"
    BY <1>3, SecondFieldFacts
  <2>2. Making' => Making
    BY <1>1, <1>3, <2>1 DEF Making, InProgress
  <2> QED BY <1>1, <1>2, <2>1, <2>2, KeptStill
<1>4. CASE state # "SLICE_1ST" /\ header.type = "B"
  <2>1. refs' = refs /\ RefBuf(1)' = RefBuf(1) /\ RefBuf(2)' = RefBuf(2)
    BY <1>4, FirstFieldFacts
  <2>2. \A i \in DOMAIN refs : i = 1 \/ i = 2
    BY RefsNumbers
  <2>3. \A i \in DOMAIN refs : RefBuf(i)' = RefBuf(i)
    BY <2>1, <2>2
  <2>4. ~Making'
    BY <1>1, <1>4 DEF Making
  <2> QED BY <1>1, <1>2, <2>1, <2>3, <2>4, KeptStill
<1>5. CASE state # "SLICE_1ST" /\ header.type # "B"
  <2>1. /\ refs' = IF refs = <<>> THEN <<header.frame>> ELSE <<header.frame, refs[1]>>
        /\ RefBuf(2)' = RefBuf(1) /\ header.frame = stream.top /\ stream.top \in Nat
    <3>1. RefBuf(2)' = fbuf'[1] /\ fbuf'[1] = RefBuf(1)
      BY <1>5, FirstFieldFacts
    <3> QED BY <1>5, <3>1, FirstFieldFacts, BeforeFirstField, Facts
  <2>2. stream.top \notin whole
    <3>1. ReferenceNext
      BY <1>1, <1>5 DEF ReferenceNext, Pending
    <3> QED BY <2>1, <3>1 DEF OldFrames
  <2>3. refs'[1] = stream.top
    BY <2>1
  <2>4. ASSUME NEW i \in DOMAIN refs', refs'[i] \in whole
        PROVE  RefKept(i)'
    <3>1. i = 2 /\ refs # <<>> /\ refs'[2] = refs[1]
      BY <2>1, <2>2, <2>4
    <3>2. RefKept(1) /\ 1 \in DOMAIN refs
      BY <1>1, <2>4, <3>1, RefsNumbers DEF KeptInv
    <3> DEFINE s == ArraySlice[RefBuf(1)]
    <3>3. /\ s \in Surfaces /\ surface[s] = refs[1] /\ s = RefSlice[0] /\ s \in Reserved
          /\ \A b \in 0 .. 2 : b # RefBuf(1) => Sample[b] # s
      BY <1>2, <3>2 DEF RefKept
    <3>4. ArraySlice'[RefBuf(2)'] = s /\ Reserved' = Reserved
      BY <1>1, <2>1 DEF Reserved
    <3>5. RefKept(2)'
      BY <1>1, <2>1, <3>1, <3>3, <3>4 DEF RefKept
    <3> QED BY <3>1, <3>5
  <2>5. \A b \in 0 .. 2 : Sample'[b] # None => ArraySlice'[b] = Sample'[b]
    BY <1>1 DEF KeptInv
  <2> QED BY <1>1, <2>2, <2>3, <2>4, <2>5 DEF KeptInv
<1> QED BY <1>3, <1>4, <1>5

\* The states in which DecodeFrame is called.
Calls(show) ==
  \/ ret = "SLICE_1ST" /\ show = FALSE /\ HandleOther
  \/ ret \in {"SLICE", "END"} /\ show = TRUE /\ HandleSlice

LEMMA CallFacts ==
  ASSUME Base, Good, RefsInv, NEW show \in BOOLEAN, Calls(show)
  PROVE  /\ UNCHANGED <<action, state, coding_type, refs, fbuf>> /\ \A i : RefBuf(i)' = RefBuf(i)
         /\ ~Lost /\ refs # <<>> /\ Active
         /\ pictures[picture].frame = pictures[Cur].frame
         /\ ret = "END" => ~Active' /\ ~Making'
         /\ ret = "SLICE" => show /\ InProgress /\ ~Making'
         /\ ret = "SLICE_1ST" => /\ ~show /\ state = "SLICE_1ST"
                                 /\ pictures[picture].nb_fields = 1
                                 /\ (Making' => Making)
<1>1. /\ ret' = "none" /\ UNCHANGED <<action, state, coding_type, refs, fbuf>>
      /\ ret \in {"SLICE_1ST", "SLICE", "END"}
      /\ ret = "SLICE_1ST" <=> ~show
  BY DEF Calls, HandleSlice, HandleOther, libVars, ghostVars
<1>2. \A i : RefBuf(i)' = RefBuf(i)
  BY <1>1 DEF RefBuf
<1>3. ret = "SLICE_1ST" => state = "SLICE_1ST" /\ action = "seek_header"
  BY DEF RefsInv
<1>4. ret = "SLICE" => action = "seek_header" /\ state = "SLICE"
  BY DEF Good, PlaceInv
<1>5. ret = "END" => action = "seek_sequence" /\ state # "SLICE_1ST"
  BY DEF Good, PlaceInv
<1>6. ~Lost
  BY <1>1 DEF Good, PlaceInv
<1>7. refs # <<>>
  <2>1. CASE ret = "SLICE_1ST"
    BY <1>3, <1>6, <2>1 DEF Good, PlaceInv, Synced, Abandoned
  <2>2. CASE ret = "SLICE"
    BY <2>2 DEF Good, PlaceInv
  <2>3. CASE ret = "END"
    BY <2>3 DEF Good, EndInv
  <2> QED BY <1>1, <2>1, <2>2, <2>3
<1>8. Active
  BY <1>1, <1>3, <1>4 DEF Active
<1>9. pictures[picture].frame = pictures[Cur].frame
  BY <1>6, <1>7 DEF Good, FieldsInv
<1>10. ret = "END" => ~Active' /\ ~Making'
  BY <1>1, <1>5 DEF Active, Making, InProgress
<1>11. ret = "SLICE" => show /\ InProgress /\ ~Making'
  BY <1>1, <1>4 DEF Making, InProgress
<1>12. ret = "SLICE_1ST" => (Making' => Making)
  BY <1>1, <1>3 DEF Making, InProgress
<1>13. ret = "SLICE_1ST" => pictures[picture].nb_fields = 1
  BY <1>3, <1>6, <1>7 DEF Good, FieldsInv, HalfCoded, Synced, Abandoned
<1> QED BY <1>1, <1>2, <1>3, <1>6, <1>7, <1>8, <1>9, <1>10, <1>11, <1>12, <1>13

\* The picture is decoded into a surface that is in no other buffer, and new if it was not
\* the frame buffer's already.
LEMMA TargetFacts ==
  ASSUME Base, SampleInv, KeptInv, NEW show, NEW outcome, Submit(show, outcome)
  PROVE  /\ Target \in Surfaces /\ fbuf[0] \in 0 .. 2
         /\ ArraySlice \in Slots(2)
         /\ ArraySlice'[fbuf[0]] = Target
         /\ \A b \in 0 .. 2 : b # fbuf[0] => ArraySlice'[b] = ArraySlice[b] /\ Sample[b] # Target
         /\ \A b \in 0 .. 2 : Sample'[b] \in {None, IF b = fbuf[0] THEN Target ELSE Sample[b]}
         /\ HasSample => Target = Sample[fbuf[0]]
         /\ ~HasSample => Target \notin Reserved
<1>1. /\ SampleFound
      /\ Sample' = ShownReleased(SampleThen, IF show /\ outcome = "ok" THEN Shown(SampleThen) ELSE None)
      /\ ArraySlice' = [ArraySlice EXCEPT ![fbuf[0]] = IF HasSample THEN @ ELSE Target]
  BY DEF Submit
<1>2. /\ fbuf[0] \in 0 .. 2 /\ Target \in Surfaces /\ Sample \in Slots(2) /\ ArraySlice \in Slots(2)
      /\ SampleThen \in Slots(2) /\ Distinct(SampleThen)
  BY <1>1, LibFacts, ThenOwner DEF SampleInv, HeldOnce, OneOwner, OtherTypes
<1>3. SampleThen[fbuf[0]] = Target /\ \A b \in 0 .. 2 : b # fbuf[0] => SampleThen[b] = Sample[b]
  BY <1>2 DEF SampleThen, Slots
<1>4. \A b \in 0 .. 2 : b # fbuf[0] => Sample[b] # Target
  BY <1>2, <1>3, NoneApart DEF Distinct, Slots
<1>5. \A b \in 0 .. 2 : Sample'[b] \in {None, SampleThen[b]}
  BY <1>1, <1>2 DEF ShownReleased, Slots
<1>6. \A b \in 0 .. 2 : Sample'[b] \in {None, IF b = fbuf[0] THEN Target ELSE Sample[b]}
  BY <1>3, <1>5
<1>7. HasSample => Target = Sample[fbuf[0]]
  BY DEF Target
<1>8. ~HasSample => Target \notin Reserved
  <2> SUFFICES ASSUME ~HasSample
               PROVE  m_lFree[Got] \notin Reserved
    BY DEF Target
  <2> QED BY <1>1, GotFacts DEF SampleFound, SampleInv, HeldOnce, OneOwner
<1>9. ArraySlice'[fbuf[0]] = Target
  <2>1. CASE HasSample
    <3>1. ArraySlice[fbuf[0]] = Target
      BY <1>2, <1>7, <2>1 DEF KeptInv, HasSample
    <3> QED BY <1>1, <1>2, <2>1, <3>1 DEF Slots
  <2>2. CASE ~HasSample
    BY <1>1, <1>2, <2>2 DEF Slots
  <2> QED BY <2>1, <2>2
<1>10. \A b \in 0 .. 2 : b # fbuf[0] => ArraySlice'[b] = ArraySlice[b]
  BY <1>1, <1>2 DEF Slots
<1> QED BY <1>2, <1>4, <1>6, <1>7, <1>8, <1>9, <1>10

LEMMA KeptSubmit ==
  ASSUME Base, Good, RefsInv, SampleInv, KeptInv, NEW show \in BOOLEAN, Calls(show),
         NEW outcome \in {"ok", "early", "late"}, Submit(show, outcome)
  PROVE  KeptInv'
<1>1. /\ UNCHANGED <<action, state, coding_type, refs, fbuf>> /\ \A i : RefBuf(i)' = RefBuf(i)
      /\ ~Lost /\ refs # <<>> /\ Active
      /\ Current.frame = pictures[Cur].frame /\ Current.type = coding_type
      /\ ret \in {"SLICE_1ST", "SLICE", "END"}
  BY CallFacts DEF Current, RefsInv, Calls
<1> DEFINE buffer == fbuf[0]
           remember == show /\ outcome # "early" /\ coding_type # "B"
<1>2. /\ Target \in Surfaces /\ buffer \in 0 .. 2 /\ ArraySlice'[buffer] = Target
      /\ \A b \in 0 .. 2 : b # buffer => ArraySlice'[b] = ArraySlice[b] /\ Sample[b] # Target
      /\ \A b \in 0 .. 2 : Sample'[b] \in {None, IF b = buffer THEN Target ELSE Sample[b]}
      /\ HasSample => Target = Sample[buffer]
      /\ ~HasSample => Target \notin Reserved
  BY TargetFacts
<1>3. /\ RefSlice' = IF remember THEN [k \in 0 .. 1 |-> IF k = 1 THEN RefSlice[0] ELSE Target] ELSE RefSlice
      /\ surface' = IF outcome = "early" THEN surface
                    ELSE [surface EXCEPT ![Target] = IF outcome = "ok" THEN Current.frame ELSE 0]
      /\ whole' = (IF outcome = "ok" /\ Completes THEN whole \cup {Current.frame}
                   ELSE whole \ {Current.frame}) \cap ToSet(refs)
  BY <1>1 DEF Submit
<1>4. /\ fbuf \in [0 .. 2 -> 0 .. 2] /\ fbuf[0] # fbuf[1] /\ fbuf[0] # fbuf[2] /\ fbuf[1] # fbuf[2]
      /\ surface \in [Surfaces -> Frames \cup {0}]
  BY DEF Base, FbufInv, TargetNoReference, SampleInv, OtherTypes
<1>5. \A i \in DOMAIN refs : i = 1 \/ i = 2
  BY RefsNumbers
<1>6. \A i \in DOMAIN refs : RefBuf(i) \in 0 .. 2
  BY <1>4, <1>5 DEF RefBuf
\* The reference that is being made is the picture.
<1>7. coding_type # "B" => refs[1] = Current.frame
  <2>1. pictures[LastRef].frame = refs[1]
    BY <1>1 DEF Good, ReferenceInv
  <2> QED BY <1>1, <2>1 DEF LastRef, Cur
<1>8. ret = "SLICE_1ST" => ~Completes
  <2> SUFFICES ASSUME ret = "SLICE_1ST"
               PROVE  ~Completes
    OBVIOUS
  <2>1. state = "SLICE_1ST" /\ Current.nb_fields = 1
    BY CallFacts DEF Current
  <2> QED BY <2>1 DEF Completes
<1>9. refs # <<>> /\ Making' => refs[1] \notin whole'
  <2> SUFFICES ASSUME Making'
               PROVE  refs[1] \notin whole'
    OBVIOUS
  <2>1. ret = "SLICE_1ST"
    BY <1>1, CallFacts
  <2>2. coding_type # "B"
    BY <1>1 DEF Making
  <2> QED BY <1>3, <1>7, <1>8, <2>1, <2>2
<1>10. \A b \in 0 .. 2 : Sample'[b] # None => ArraySlice'[b] = Sample'[b]
  BY <1>2 DEF KeptInv
<1>11. ASSUME NEW i \in DOMAIN refs, refs[i] \in whole'
       PROVE  RefKept(i)'
  <2> DEFINE s == ArraySlice'[RefBuf(i)]
  <2>1. CASE RefBuf(i) = buffer
    <3>1. i = 1 /\ coding_type # "B"
      BY <1>4, <1>5, <2>1 DEF RefBuf
    <3>2. refs[i] = Current.frame /\ outcome = "ok" /\ Completes
      BY <1>3, <1>7, <1>11, <3>1
    <3>3. s = Target /\ surface'[s] = refs[i]
      BY <1>2, <1>3, <1>4, <2>1, <3>2
    <3>4. \A b \in 0 .. 2 : b # RefBuf(i) => Sample'[b] # s
      BY <1>2, <2>1, <3>3, NoneApart
    <3>5. Active' => s \in Reserved' /\ s = RefSlice'[0]
      <4> SUFFICES ASSUME Active'
                   PROVE  s \in Reserved' /\ s = RefSlice'[0]
        OBVIOUS
      <4>1. ret = "SLICE"
        BY <1>1, <1>8, <3>2, CallFacts
      <4>2. remember
        BY <3>1, <3>2, <4>1, CallFacts
      <4>3. RefSlice'[0] = Target
        BY <1>3, <4>2
      <4> QED BY <3>3, <4>3 DEF Reserved
    <3> QED BY <1>1, <1>2, <3>3, <3>4, <3>5 DEF RefKept
  <2>2. CASE RefBuf(i) # buffer
    <3>1. refs[i] # Current.frame
      <4>1. CASE coding_type = "B"
        BY <1>1, <4>1, RefsNumbers DEF RefsInv
      <4>2. CASE coding_type # "B"
        <5>1. i = 2 /\ Len(refs) = 2 /\ refs[1] \in Nat /\ refs[2] \in Nat
          BY <1>1, <1>5, <2>2, <4>2, RefsNumbers DEF RefBuf
        <5>2. refs[2] < refs[1]
          BY <5>1 DEF RefsInv
        <5> QED BY <1>7, <4>2, <5>1, <5>2
      <4> QED BY <4>1, <4>2
    <3>2. refs[i] \in whole
      BY <1>3, <1>11, <3>1
    <3>3. s = ArraySlice[RefBuf(i)]
      BY <1>2, <1>6, <2>2
    <3>4. /\ s \in Surfaces /\ surface[s] = refs[i]
          /\ \A b \in 0 .. 2 : b # RefBuf(i) => Sample[b] # s
          /\ s \in Reserved /\ (i = 1 \/ Making => s = RefSlice[0])
      BY <1>1, <3>2, <3>3 DEF KeptInv, RefKept
    <3> HIDE DEF s
    <3>5. s # Target
      BY <1>2, <2>2, <3>4
    <3>6. surface'[s] = refs[i]
      BY <1>2, <1>3, <1>4, <3>4, <3>5
    <3>7. \A b \in 0 .. 2 : b # RefBuf(i) => Sample'[b] # s
      BY <1>2, <3>4, <3>5, NoneApart
    <3>8. Active' => s \in Reserved' /\ (i = 1 \/ Making' => s = RefSlice'[0])
      <4> SUFFICES ASSUME Active'
                   PROVE  s \in Reserved' /\ (i = 1 \/ Making' => s = RefSlice'[0])
        OBVIOUS
      <4>1. ret # "END"
        BY CallFacts
      <4>2. CASE remember
        <5>1. ret = "SLICE" /\ Making /\ ~Making'
          BY <1>1, <4>1, <4>2, CallFacts DEF Making
        <5>2. i # 1
          BY <2>2, <4>2 DEF RefBuf
        <5>3. s = RefSlice[0] /\ RefSlice'[1] = RefSlice[0]
          BY <1>3, <3>4, <4>2, <5>1
        <5> QED BY <5>1, <5>2, <5>3 DEF Reserved
      <4>3. CASE ~remember
        <5>1. RefSlice' = RefSlice
          BY <1>3, <4>3
        <5>2. Making' => Making
          BY <1>1, <4>1, CallFacts
        <5> QED BY <3>4, <5>1, <5>2 DEF Reserved
      <4> QED BY <4>2, <4>3
    <3> QED BY <1>1, <3>4, <3>6, <3>7, <3>8 DEF RefKept, s
  <2> QED BY <2>1, <2>2
<1> QED BY <1>1, <1>9, <1>10, <1>11 DEF KeptInv

LEMMA KeptCall ==
  ASSUME Base, Good, RefsInv, SampleInv, KeptInv, NEW show \in BOOLEAN, Calls(show), DecodeFrame(show)
  PROVE  KeptInv'
<1>1. CASE Submit(show, "ok") \/ \E outcome \in {"early", "late"} : Submit(show, outcome)
  BY <1>1, KeptSubmit
<1>2. CASE OnlyShow(show) \/ GiveUp
  <2>1. /\ refs' = refs /\ (\A i : RefBuf(i)' = RefBuf(i)) /\ Active /\ (Making' => Making)
    BY CallFacts DEF Calls
  <2>2. UNCHANGED <<ArraySlice, RefSlice, surface, whole>>
    BY <1>2 DEF OnlyShow, GiveUp, pictureVars
  <2>3. \A b \in 0 .. 2 : Sample'[b] \in {None, Sample[b]}
    <3>1. Sample \in Slots(2)
      BY DEF SampleInv, HeldOnce, OneOwner
    <3>2. Sample' = Sample \/ \E sample : Sample' = ShownReleased(Sample, sample)
      BY <1>2 DEF OnlyShow, GiveUp, pictureVars
    <3> QED BY <3>1, <3>2 DEF ShownReleased, Slots
  <2> QED BY <2>1, <2>2, <2>3, KeptStill
<1> QED BY <1>1, <1>2 DEF DecodeFrame

LEMMA KeptStep ==
  ASSUME Base, Base', Good, damage' = 0, RefsInv, OldFrames, SampleInv, KeptInv, [NextSamples]_allVars
  PROVE  KeptInv'
<1>1. CASE FirstFieldEnd \/ PictureEnd
  <2>1. \E show \in BOOLEAN : Calls(show) /\ DecodeFrame(show)
    BY <1>1 DEF FirstFieldEnd, PictureEnd, Decodes, Calls
  <2> QED BY <2>1, KeptCall
<1>2. CASE Restart
  <2>1. refs' = <<>> /\ Sample' = [b \in 0 .. 2 |-> None]
    BY <1>2 DEF Restart, HandleInvalid, Discontinuity, InitDecode, HeaderStateInit, ResetDecoding
  <2> QED BY <2>1 DEF KeptInv
<1>3. CASE OtherUnit
  <2>0. UNCHANGED sampleVars /\ UNCHANGED <<Sample, ArraySlice, RefSlice, surface, whole>>
    BY <1>3 DEF OtherUnit, sampleVars, pictureVars
  <2>1. CASE SeekHeader \/ SeekSequence \/ InvalidEndAction
    <3>1. SeekHeader => refs = <<>> /\ refs' = refs
      <4> SUFFICES ASSUME SeekHeader
                   PROVE  refs = <<>> /\ refs' = refs
        OBVIOUS
      <4>1. ~Wanted /\ action = "seek_header" /\ refs' = refs
        BY DEF SeekHeader, ghostVars
      <4>2. Lost
        BY <4>1 DEF Good, PlaceInv, Lost, Wanted
      <4> QED BY <4>1, <4>2 DEF Good, PlaceInv
    <3>2. refs' = <<>>
      BY <2>1, <3>1 DEF SeekSequence, InvalidEndAction, HeaderStateInit
    <3> QED BY <2>0, <3>2, KeptNoRefs
  <2>2. CASE HeaderEnd \/ SequenceHeader \/ GopHeader
    <3>1. /\ refs' = refs /\ fbuf' = fbuf /\ coding_type' = coding_type
          /\ action \in {"seek_header", "parse_header"} /\ code # "pic" /\ code \in {"end", "seq", "gop"}
      BY <2>2 DEF HeaderEnd, SequenceHeader, GopHeader, AtHeader, ReturnInvalid, ghostVars
    <3>2. ~InProgress'
      <4>1. CASE HeaderEnd
        <5>1. state # "SLICE_1ST"
          BY <3>1, <4>1 DEF HeaderEnd, AtHeader, Good, PlaceInv
        <5> QED BY <4>1, <5>1 DEF HeaderEnd, InProgress
      <4>2. CASE SequenceHeader \/ GopHeader
        BY <4>2 DEF SequenceHeader, GopHeader, ReturnInvalid, InProgress
      <4> QED BY <2>2, <4>1, <4>2
    <3>3. Active /\ ~Making' /\ \A i : RefBuf(i)' = RefBuf(i)
      BY <3>1, <3>2 DEF Active, Making, RefBuf
    <3> QED BY <2>0, <3>1, <3>3, KeptStill
  <2>3. CASE PictureHeader
    BY <2>0, <2>3, KeptPictureHeader
  <2>4. CASE Slices
    <3>1. refs' = refs /\ fbuf' = fbuf /\ coding_type' = coding_type /\ action = "slices"
      BY <2>4 DEF Slices, ghostVars
    <3>2. Active /\ (Making' => Making) /\ \A i : RefBuf(i)' = RefBuf(i)
      BY <3>1 DEF Active, Making, InProgress, RefBuf
    <3> QED BY <2>0, <3>1, <3>2, KeptStill
  <2>5. ~LoseUnit /\ ~LoseRest /\ ~SpoiltHeader
    <3>1. damage = 0
      BY LibraryStep, IntactNext
    <3> QED BY <3>1 DEF LoseUnit, LoseRest, SpoiltHeader
  <2> QED BY <1>3, <2>1, <2>2, <2>3, <2>4, <2>5 DEF OtherUnit
<1>4. CASE SliceHook
  <2>1. /\ refs' = refs /\ (\A i : RefBuf(i)' = RefBuf(i)) /\ coding_type' = coding_type
        /\ action = "slice_start"
    BY <1>4, SliceStartFacts DEF SliceHook
  <2>2. Active /\ (Making' => Making)
    BY <2>1 DEF Active, Making, InProgress
  <2>3. UNCHANGED <<Sample, ArraySlice, RefSlice, surface, whole>>
    BY <1>4 DEF SliceHook, pictureVars
  <2> QED BY <2>1, <2>2, <2>3, KeptStill
<1>5. CASE NewPicture \/ OtherState \/ RendererReturns \/ UNCHANGED allVars
  <2>1. UNCHANGED <<Sample, ArraySlice, RefSlice, surface, whole>>
    BY <1>5 DEF NewPicture, OtherState, RendererReturns, allVars, sampleVars, pictureVars
  <2>2. /\ UNCHANGED <<refs, fbuf, coding_type, action, state>>
        /\ ret' = "none" \/ ret' = ret
    BY <1>5 DEF NewPicture, OtherState, RendererReturns, HandlePicture, HandleSlice, HandleOther,
                allVars, vars, streamVars, libVars, ghostVars
  <2>3. (Active' => Active) /\ (Making' => Making) /\ \A i : RefBuf(i)' = RefBuf(i)
    BY <2>2 DEF Active, Making, InProgress, RefBuf
  <2> QED BY <2>1, <2>2, <2>3, KeptStill
<1> QED BY <1>1, <1>2, <1>3, <1>4, <1>5 DEF NextSamples

IntactSamples == damage = 0 => RefsInv /\ OldFrames /\ KeptInv

LEMMA IntactSamplesInit == InitSamples => IntactSamples
<1> SUFFICES ASSUME InitSamples
             PROVE  RefsInv /\ OldFrames /\ KeptInv
  BY DEF IntactSamples
<1>1. refs = <<>> /\ ret = "none" /\ whole = {} /\ Sample = [b \in 0 .. 2 |-> None]
  BY DEF InitSamples, Init
<1>2. Len(refs) # 2 /\ ToSet(refs) = {}
  BY <1>1 DEF ToSet
<1> QED BY <1>1, <1>2 DEF RefsInv, OldFrames, KeptInv

LEMMA IntactSamplesStep ==
  ASSUME Base, Base', Intact, Intact', SampleInv, IntactSamples, [NextSamples]_allVars
  PROVE  IntactSamples'
<1> SUFFICES ASSUME damage' = 0
             PROVE  (RefsInv /\ OldFrames /\ KeptInv)'
  BY DEF IntactSamples
<1>1. [Next]_vars
  BY LibraryStep
<1>2. damage = 0
  BY <1>1, IntactNext
<1>3. Good /\ Good' /\ RefsInv /\ OldFrames /\ KeptInv
  BY <1>2 DEF Intact, IntactSamples
<1> QED BY <1>1, <1>3, RefsStep, OldFramesStep, KeptStep

-----------------------------------------------------------------------------
(* The theorems *)

\* An array or list without repetition has a sample in one place, or in none.
LEMMA PlacesOf ==
  ASSUME NEW f, Distinct(f), NEW s, s # None
  PROVE  Cardinality({i \in DOMAIN f : f[i] = s}) = IF s \in Holds(f) THEN 1 ELSE 0
<1>1. CASE s \in Holds(f)
  <2>1. PICK i \in DOMAIN f : f[i] = s
    BY <1>1 DEF Holds
  <2>2. {j \in DOMAIN f : f[j] = s} = {i}
    BY <2>1 DEF Distinct
  <2> QED BY <1>1, <2>2, FS_Singleton
<1>2. CASE s \notin Holds(f)
  <2>1. {j \in DOMAIN f : f[j] = s} = {}
    BY <1>2 DEF Holds
  <2> QED BY <1>2, <2>1, FS_EmptySet
<1> QED BY <1>1, <1>2

\* Whatever the stream, the failures of the GPU and the renderer: every sample is in the
\* free list, in one frame buffer, put aside as one reference or at the renderer, in
\* exactly one of these places; and all variables of the decoders keep their types
\* (Mpeg2DecoderD3D11.cpp:367-397 and 449-582, Mpeg2DecoderDXVA2.cpp:474-578 and
\* 783-806, the exchange of the pointers between the arrays).
THEOREM SamplesOwnedCorrect == SpecSamples => []SamplesOwnedOnce
<1>1. Base /\ SampleInv /\ FlagTypes => SampleTypeOK
  BY DEF SampleInv, HeldOnce, OneOwner, ReferenceSlices, OtherTypes, FlagTypes, Slots, SampleTypeOK
<1>2. SampleInv => \A s \in Surfaces : Owners(s) = 1
  <2> SUFFICES ASSUME SampleInv, NEW s \in Surfaces
               PROVE  Owners(s) = 1
    OBVIOUS
  <2> DEFINE free == Cardinality({i \in DOMAIN m_lFree : m_lFree[i] = s})
             buffers == Cardinality({i \in 0 .. 2 : Sample[i] = s})
             references == Cardinality({k \in 0 .. 1 : RefSample[k] = s})
             renderer == Cardinality(kept \cap {s})
  <2>1. /\ Distinct(m_lFree) /\ Distinct(Sample) /\ Distinct(RefSample)
        /\ DOMAIN Sample = 0 .. 2 /\ DOMAIN RefSample = 0 .. 1 /\ s # None
    BY NoneApart DEF SampleInv, HeldOnce, OneOwner, Slots
  <2>2. free = IF s \in Holds(m_lFree) THEN 1 ELSE 0
    BY <2>1, PlacesOf
  <2>3. buffers = IF s \in Holds(Sample) THEN 1 ELSE 0
    BY <2>1, PlacesOf
  <2>4. references = IF s \in Holds(RefSample) THEN 1 ELSE 0
    BY <2>1, PlacesOf
  <2>5. renderer = IF s \in kept THEN 1 ELSE 0
    <3>1. CASE s \in kept
      <4>1. kept \cap {s} = {s}
        BY <3>1
      <4> QED BY <3>1, <4>1, FS_Singleton
    <3>2. CASE s \notin kept
      <4>1. kept \cap {s} = {}
        BY <3>2
      <4> QED BY <3>2, <4>1, FS_EmptySet
    <3> QED BY <3>1, <3>2
  <2>6. /\ s \in Holds(m_lFree) \/ s \in Holds(Sample) \/ s \in Holds(RefSample) \/ s \in kept
        /\ s \in Holds(m_lFree) => s \notin Holds(Sample) /\ s \notin Holds(RefSample) /\ s \notin kept
        /\ s \in Holds(Sample) => s \notin Holds(RefSample) /\ s \notin kept
        /\ s \in Holds(RefSample) => s \notin kept
    BY DEF SampleInv, HeldOnce, OneOwner, Apart
  <2>7. Owners(s) = free + buffers + references + renderer
    BY DEF Owners
  <2> HIDE DEF free, buffers, references, renderer
  <2> QED BY <2>2, <2>3, <2>4, <2>5, <2>6, <2>7
<1> QED BY <1>1, <1>2, SampleInvariant, PTL DEF SamplesOwnedOnce

\* As many samples as can be in use at once, and one to decode into: two of the other frame
\* buffers, two that are put aside, and those the renderer of DXVA2 keeps.
EnoughSamples == \A d \in Decoders : cBuffers >= 5 + (IF d = "DXVA2" THEN MaxKept ELSE 0)

LEMMA FourAtMost ==
  ASSUME NEW a, NEW b, NEW c, NEW d
  PROVE  IsFiniteSet({a, b, c, d}) /\ Cardinality({a, b, c, d}) <= 4
<1> DEFINE two == {a, b}
           three == {a, b, c}
<1>1. IsFiniteSet({a}) /\ Cardinality({a}) = 1
  BY FS_Singleton
<1>2. IsFiniteSet(two) /\ Cardinality(two) <= 2
  <2>1. two = {a} \cup {b}
    OBVIOUS
  <2> QED BY <1>1, <2>1, FS_AddElement
<1>3. IsFiniteSet(three) /\ Cardinality(three) <= 3
  <2>1. three = two \cup {c}
    OBVIOUS
  <2> HIDE DEF two, three
  <2>2. Cardinality(two) \in Nat
    BY <1>2, FS_CardinalityType
  <2> QED BY <1>2, <2>1, <2>2, FS_AddElement
<1>4. {a, b, c, d} = three \cup {d}
  OBVIOUS
<1> HIDE DEF two, three
<1>5. Cardinality(three) \in Nat
  BY <1>3, FS_CardinalityType
<1> QED BY <1>3, <1>4, <1>5, FS_AddElement

\* With enough samples, the search for one that is not put aside ends without a wait, which
\* nobody would end (Mpeg2DecoderD3D11.cpp:478-499, Mpeg2DecoderDXVA2.cpp:480-498).
THEOREM NeverWaitsCorrect ==
  ASSUME EnoughSamples
  PROVE  SpecSamples => []NeverWaits
<1>1. Base /\ SampleInv /\ FlagTypes => NeverWaits
  <2> SUFFICES ASSUME Base, SampleInv, FlagTypes, ~HasSample, Suitable = {}
               PROVE  FALSE
    BY DEF NeverWaits, SampleFound
  <2>1. /\ m_lFree \in Seq(Surfaces) /\ Sample \in Slots(2) /\ RefSample \in Slots(1) /\ kept \subseteq Surfaces
        /\ Surfaces \subseteq Holds(m_lFree) \cup Holds(Sample) \cup Holds(RefSample) \cup kept
    BY DEF SampleInv, HeldOnce, OneOwner
  <2>2. Holds(m_lFree) \subseteq {RefSlice[0], RefSlice[1]}
    BY DEF Suitable, Reserved, Holds
  <2>3. Holds(RefSample) \subseteq {RefSlice[0], RefSlice[1]}
    <3>1. DOMAIN RefSample = 0 .. 1
      BY <2>1 DEF Slots
    <3>2. \A k \in 0 .. 1 : RefSample[k] \in {None, RefSlice[k]} /\ (k = 0 \/ k = 1)
      BY DEF SampleInv, ReferenceSlices
    <3> QED BY <3>1, <3>2 DEF Holds
  <2>4. \E a, b \in 0 .. 2 : Holds(Sample) \subseteq {Sample[a], Sample[b]}
    <3>1. DOMAIN Sample = 0 .. 2 /\ fbuf[0] \in 0 .. 2 /\ Sample[fbuf[0]] = None
      BY <2>1, LibFacts DEF Slots, HasSample
    <3>2. Holds(Sample) = {Sample[0], Sample[1], Sample[2]} \ {None}
      <4>1. \A i \in 0 .. 2 : i = 0 \/ i = 1 \/ i = 2
        OBVIOUS
      <4> QED BY <3>1, <4>1 DEF Holds
    <3>3. CASE fbuf[0] = 0
      <4>1. Holds(Sample) \subseteq {Sample[1], Sample[2]}
        BY <3>1, <3>2, <3>3
      <4> QED BY <4>1
    <3>4. CASE fbuf[0] = 1
      <4>1. Holds(Sample) \subseteq {Sample[0], Sample[2]}
        BY <3>1, <3>2, <3>4
      <4> QED BY <4>1
    <3>5. CASE fbuf[0] = 2
      <4>1. Holds(Sample) \subseteq {Sample[0], Sample[1]}
        BY <3>1, <3>2, <3>5
      <4> QED BY <4>1
    <3> QED BY <3>1, <3>3, <3>4, <3>5
  <2>5. PICK a, b \in 0 .. 2 : Holds(Sample) \subseteq {Sample[a], Sample[b]}
    BY <2>4
  <2> DEFINE busy == {Sample[a], Sample[b], RefSlice[0], RefSlice[1]}
  <2>6. Surfaces \subseteq busy \cup kept
    BY <2>1, <2>2, <2>3, <2>5
  <2>7. IsFiniteSet(busy) /\ Cardinality(busy) \in Nat /\ Cardinality(busy) <= 4
    BY FourAtMost, FS_CardinalityType
  <2> HIDE DEF busy
  <2>8. IsFiniteSet(kept) /\ Cardinality(kept) \in Nat
    BY <2>1, KeptFinite
  <2>9. IsFiniteSet(busy \cup kept) /\ Cardinality(busy \cup kept) <= Cardinality(busy) + Cardinality(kept)
    <3>0. IsFiniteSet(busy \cap kept)
      BY <2>7, <2>8, FS_Intersection
    <3>1. Cardinality(busy \cap kept) \in Nat
      BY <3>0, FS_CardinalityType
    <3> QED BY <2>7, <2>8, <3>1, FS_Union
  <2>10. Cardinality(Surfaces) <= Cardinality(busy \cup kept)
    BY <2>6, <2>9, FS_Subset
  <2>11. Cardinality(Surfaces) = cBuffers /\ cBuffers \in Nat /\ MaxKept \in Nat
    BY SampleAssumption, FS_Interval DEF Surfaces
  <2>12. Cardinality(busy \cup kept) \in Nat
    BY <2>9, FS_CardinalityType
  <2>13. Cardinality(kept) <= (IF decoder = "DXVA2" THEN MaxKept ELSE 0)
    <3>1. CASE decoder = "DXVA2"
      BY <3>1 DEF SampleInv, RendererBound
    <3>2. CASE decoder # "DXVA2"
      <4>1. kept = {}
        BY <3>2, SampleAssumption DEF SampleInv, RendererBound, FlagTypes
      <4> QED BY <3>2, <4>1, FS_EmptySet
    <3> QED BY <3>1, <3>2
  <2>14. cBuffers >= 5 + (IF decoder = "DXVA2" THEN MaxKept ELSE 0)
    BY DEF EnoughSamples, FlagTypes
  <2> QED BY <2>7, <2>8, <2>9, <2>10, <2>11, <2>12, <2>13, <2>14
<1> QED BY <1>1, SampleInvariant, PTL

\* For every intact stream, joined to others or interrupted, whatever is skipped and whichever
\* submissions fail: the surface of a reference that was submitted whole holds it as long as a
\* picture can be predicted from it, though its sample was released when it was displayed
\* (Mpeg2DecoderD3D11.cpp:367-397 and 478-499, Mpeg2DecoderDXVA2.cpp:480-498 and 783-806).
THEOREM ReferencesKeptCorrect == SpecSamples => []ReferencesKept
<1>1. Base /\ Intact /\ SampleInv /\ IntactSamples /\ (Base /\ Intact)' /\ [NextSamples]_allVars
        => IntactSamples'
  BY IntactSamplesStep
<1>2. IntactSamples => ReferencesKept
  <2>1. \A i : BufferOf(i) = RefBuf(i)
    BY DEF BufferOf, RefBuf
  <2> QED BY <2>1 DEF IntactSamples, KeptInv, RefKept, ReferencesKept
<1> QED BY <1>1, <1>2, IntactSamplesInit, LibraryInvariant, SampleInvariant, PTL DEF SpecSamples
=============================================================================
