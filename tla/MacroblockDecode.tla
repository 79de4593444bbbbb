-------------------------- MODULE MacroblockDecode --------------------------
(***************************************************************************)
(* slice.c of libmpeg2: the macroblocks of one slice, the predictors that  *)
(* are carried from one to the next, and where each reads and writes.      *)
(*                                                                         *)
(* Slices share nothing but the picture, so that one slice_decode_t is     *)
(* followed: it is reused for one slice after another, of one picture      *)
(* after another, and nothing clears it between.  The sender of the stream *)
(* is external: it names macroblocks by address, and vectors by their      *)
(* difference to the prediction it makes itself from what it sent before.  *)
(*                                                                         *)
(* Positions of luminance are in pixels, vectors in half pixels, as in the *)
(* code.  The values of pixels and coefficients are left out; the          *)
(* predictor of the DC coefficients is the macroblock it comes from.       *)
(***************************************************************************)
EXTENDS Integers, Sequences, FiniteSetsExt

CONSTANTS
  Width, Height,  \* of the frame, in whole macroblocks
  Pictures,       \* headers of the pictures
  Vectors,        \* vectors that the sender uses
  Selects,        \* pairs of fields that it selects
  MaxMacroblocks  \* bound: macroblocks of a slice, with the skipped ones

\* A frame of an interlaced sequence has whole macroblocks in each field: the
\* sequence extension rounds the height so unless the sequence says that it is
\* progressive. Field pictures in such a sequence, which the standard forbids
\* and the library does not refuse, are not considered.
\* A vector component lies in -half .. half - 1, by the f_code; unit is 2 for
\* the full_pel_vector of MPEG-1, else 1.
ASSUME SliceAssumption ==
  /\ Width \in Nat \ {0} /\ Width % 16 = 0
  /\ Height \in Nat \ {0} /\ Height % 16 = 0
  /\ \A p \in Pictures :
       /\ p.structure # "frame" => Height % 32 = 0
       /\ p.unit \in {1, 2}
       /\ \A i \in 1 .. 2 : p.half[i] \in Nat \ {0} /\ p.half[i] % p.unit = 0
  /\ Vectors \subseteq Int \X Int
  /\ Selects \subseteq (0 .. 1) \X (0 .. 1)
  /\ MaxMacroblocks \in Nat

\* Headers that the library can have parsed: half is 16 times a power of two;
\* MPEG-1 has frames without concealment vectors, and it alone a full_pel_vector.
\* The sender keeps to the range of the vectors.
ASSUME HeaderAssumption ==
  \A p \in Pictures :
    /\ p.type \in {"I", "P", "B"} /\ p.structure \in {"frame", "top", "bottom"}
    /\ p.second => p.structure # "frame"
    /\ IF p.mpeg1 THEN p.structure = "frame" /\ ~p.conceal ELSE p.unit = 1
    /\ \A i \in 1 .. 2 :
         /\ p.half[i] % 2 = 0
         /\ \A v \in Vectors : -p.half[i] <= p.unit * v[i] /\ p.unit * v[i] < p.half[i]

Dirs == {"f", "b"}
None == -1
Zero == <<0, 0>>

VARIABLES
  pc,        \* "idle", "macroblock", "increment" or "skip"
  pic,       \* the header of the picture
  offset, v_offset,
  dest,      \* the line of the picture that slice->dest points to
  dc,        \* the macroblock dc_dct_pred is from, None for the reset value
  pmv,       \* f_motion.pmv and b_motion.pmv
  dirs,      \* the directions in macroblock_modes
  mba_inc,   \* macroblocks that are still to be skipped
  address,   \* of the next macroblock, as the sender counts
  history,   \* the macroblocks of the slice as the sender meant them
  last       \* what the last macroblock read, and the vectors and DC it used

position == <<offset, v_offset, dest>>
vars == <<pc, pic, position, dc, pmv, dirs, mba_inc, address, history, last>>

PicHeight == IF pic.structure = "frame" THEN Height ELSE Height \div 2
LimitX == 2 * Width - 32
LimitY == PicHeight - 16

\* Fault: the limit of blocks of 8 lines is used for all.
Limit8(size) == 2 * PicHeight - 16

Limit(size) == 2 * PicHeight - 2 * size

-----------------------------------------------------------------------------
(* Blocks of the reference pictures *)

\* The half pixel of a position, which takes one more column or row.
Odd(n) == n % 2

\* Division of C, towards zero.
Half(n) == IF n < 0 THEN -((-n) \div 2) ELSE n \div 2

\* pos > limit as unsigned numbers.
Clamp(pos, limit) == IF pos < 0 THEN 0 ELSE IF pos > limit THEN limit ELSE pos

\* ref[0] is the field of the same parity, or the frame; ref[1] the other
\* field, which may be the first field of the current frame.
Ref(s, same) ==
  [frame |-> IF ~same /\ s = "f" /\ pic.second /\ pic.type # "B" THEN "current" ELSE s,
   bottom |-> (pic.structure = "bottom") = same]

\* ref2[field_select]
Ref2(s, select) == Ref(s, (select = 1) = (pic.structure = "bottom"))

\* part: the line of the macroblock that is predicted first.
Luma(ref, part, px, y, step, rows) ==
  [plane |-> "Y", ref |-> ref, part |-> part, x |-> px \div 2, cols |-> 16 + Odd(px),
   y |-> y, step |-> step, rows |-> rows]

Chroma(ref, part, cx, y, step, rows) ==
  [plane |-> "C", ref |-> ref, part |-> part, x |-> (offset + cx) \div 2, cols |-> 8 + Odd(cx),
   y |-> y, step |-> step, rows |-> rows]

\* MOTION: size lines of the macroblock from line y on.  In 4:2:0 the row of
\* the chrominance is computed unsigned; where it would be negative before
\* y/2 is added, the carry out of 32 bits is lost since uv_stride is even.
Motion(ref, vector, size, y) ==
  LET px == Clamp(2 * offset + vector[1], LimitX)
      py == Clamp(2 * v_offset + vector[2] + 2 * y, Limit(size))
      cx == Half(px - 2 * offset)
      cy == Half(py - 2 * v_offset - 2 * y)
  IN  {Luma(ref, y, px, py \div 2, 1, size + Odd(py)),
       IF pic.chroma = 420
       THEN Chroma(ref, y, cx, (v_offset + cy) \div 2 + y \div 2, 1, size \div 2 + Odd(cy))
       ELSE Chroma(ref, y, cx, py \div 2, 1, size + Odd(py))}

\* MOTION_FIELD: the lines of field dest_field, from the lines of parity line.
MotionField(ref, vector, dest_field, line) ==
  LET px == Clamp(2 * offset + vector[1], LimitX)
      py == Clamp(v_offset + vector[2], LimitY)
      cx == Half(px - 2 * offset)
      cy == Half(py - v_offset)
  IN  {Luma(ref, dest_field, px, 2 * (py \div 2) + line, 2, 8 + Odd(py)),
       IF pic.chroma = 420
       THEN Chroma(ref, dest_field, cx, v_offset \div 2 + 2 * (cy \div 2) + line, 2, 4 + Odd(cy))
       ELSE Chroma(ref, dest_field, cx, 2 * (py \div 2) + line, 2, 8 + Odd(py))}

\* MOTION_DMV: each field from the same field.
MotionDmv(ref, vector) == MotionField(ref, vector, 0, 0) \cup MotionField(ref, vector, 1, 1)

\* MOTION_ZERO: the same place, which the limits leave alone.
MotionZero(ref) == Motion(ref, Zero, 16, 0)

-----------------------------------------------------------------------------
(* Vectors: c.delta are the differences in the stream, c.select the fields  *)
(* and c.dmv the differential vector.                                       *)

Bound(v, half) == ((v + half) % (2 * half)) - half

Added(s, r, c, i) == Bound(pmv[s][r][i] + pic.unit * c.delta[r][i], pic.half[i])

\* A vector of a frame, or of a field in a field picture.
Vector(s, r, c) == <<Added(s, r, c, 1), Added(s, r, c, 2)>>

\* A vector of a field in a frame picture; its vertical part is not bounded.
FieldVector(s, r, c) == <<Added(s, r, c, 1), pmv[s][r][2] \div 2 + c.delta[r][2]>>
InFrame(v) == <<v[1], 2 * v[2]>>

Positive(n) == IF n > 0 THEN 1 ELSE 0
Scaled(n, m) == (n * m + Positive(n)) \div 2

\* The vector to the other field, at m times half the distance.
Other(v, m, dmv, shift) == <<Scaled(v[1], m) + dmv[1], Scaled(v[2], m) + dmv[2] + shift>>

\* The functions motion_xxx: the predictors they leave, the vectors they
\* decoded, and the blocks they read.
mp1(s, c) ==
  LET v == Vector(s, 1, c)
  IN  [pmv |-> <<v, pmv[s][2]>>, used |-> <<v>>, reads |-> Motion(Ref(s, TRUE), v, 16, 0)]

fr_frame(s, c) ==
  LET v == Vector(s, 1, c)
  IN  [pmv |-> <<v, v>>, used |-> <<v>>, reads |-> Motion(Ref(s, TRUE), v, 16, 0)]

fr_field(s, c) ==
  LET v == FieldVector(s, 1, c)
      w == FieldVector(s, 2, c)
  IN  [pmv |-> <<InFrame(v), InFrame(w)>>, used |-> <<v, w>>,
       reads |-> MotionField(Ref(s, TRUE), v, 0, c.select[1])
                   \cup MotionField(Ref(s, TRUE), w, 1, c.select[2])]

fr_dmv(s, c) ==
  LET v == FieldVector(s, 1, c)
      m == IF pic.top_field_first THEN 1 ELSE 3
  IN  [pmv |-> <<InFrame(v), InFrame(v)>>, used |-> <<v>>,
       reads |-> MotionField(Ref(s, TRUE), Other(v, m, c.dmv, -1), 0, 1)
                   \cup MotionField(Ref(s, TRUE), Other(v, 4 - m, c.dmv, 1), 1, 0)
                   \cup MotionDmv(Ref(s, TRUE), v)]

fi_field(s, c) ==
  LET v == Vector(s, 1, c)
  IN  [pmv |-> <<v, v>>, used |-> <<v>>, reads |-> Motion(Ref2(s, c.select[1]), v, 16, 0)]

fi_16x8(s, c) ==
  LET v == Vector(s, 1, c)
      w == Vector(s, 2, c)
  IN  [pmv |-> <<v, w>>, used |-> <<v, w>>,
       reads |-> Motion(Ref2(s, c.select[1]), v, 8, 0) \cup Motion(Ref2(s, c.select[2]), w, 8, 8)]

fi_dmv(s, c) ==
  LET v == Vector(s, 1, c)
      dmv_offset == IF pic.structure = "bottom" THEN 1 ELSE -1
  IN  [pmv |-> <<v, v>>, used |-> <<v>>,
       reads |-> Motion(Ref(s, TRUE), v, 16, 0)
                   \cup Motion(Ref(s, FALSE), Other(v, 1, c.dmv, dmv_offset), 16, 0)]

reuse(s) ==
  [pmv |-> pmv[s], used |-> <<pmv[s][1]>>, reads |-> Motion(Ref(s, TRUE), pmv[s][1], 16, 0)]

zero(s) == [pmv |-> <<Zero, Zero>>, used |-> <<Zero>>, reads |-> MotionZero(Ref(s, TRUE))]

\* decoder->motion_parser
motion_parser(type, s, c) ==
  CASE type = "zero" -> zero(s)
    [] type = "reuse" -> reuse(s)
    [] type = "mp1" -> mp1(s, c)
    [] type = "fr_frame" -> fr_frame(s, c)
    [] type = "fr_field" -> fr_field(s, c)
    [] type = "fr_dmv" -> fr_dmv(s, c)
    [] type = "fi_field" -> fi_field(s, c)
    [] type = "fi_16x8" -> fi_16x8(s, c)
    [] type = "fi_dmv" -> fi_dmv(s, c)

\* MOTION_CALL
MotionCall(type, directions, c) ==
  LET motion(s) == motion_parser(type, s, c[s])
  IN  /\ pmv' = [s \in Dirs |-> IF s \in directions THEN motion(s).pmv ELSE pmv[s]]
      /\ last' = [reads |-> UNION {motion(s).reads : s \in directions},
                  used |-> [s \in Dirs |-> IF s \in directions THEN motion(s).used ELSE <<>>],
                  dc |-> None]

-----------------------------------------------------------------------------
(* The sender *)

\* A macroblock it meant: vectors are those of each direction.
Macroblock(kind, type, directions, v, select) ==
  [address |-> address, at |-> [dest |-> dest, v_offset |-> v_offset, offset |-> offset],
   kind |-> kind, type |-> type, dirs |-> directions, v |-> v, select |-> select]

NoVectors == [s \in Dirs |-> <<>>]

\* The predictors that the vectors of a macroblock leave to the next.
Leaves(m, s) ==
  CASE m.type = "fr_field" -> <<InFrame(m.v[s][1]), InFrame(m.v[s][2])>>
    [] m.type = "fi_16x8" -> m.v[s]
    [] m.type = "fr_dmv" -> <<InFrame(m.v[s][1]), InFrame(m.v[s][1])>>
    [] OTHER -> <<m.v[s][1], m.v[s][1]>>

\* Predictors are reset at a slice, by an intra macroblock without vector,
\* and in a P picture by one that is not predicted from elsewhere; else they
\* are the last ones in the same direction.
Resets(m) == m.kind = "intra" \/ (pic.type = "P" /\ m.kind \in {"zero", "skipped"})

Setters(s) == {i \in DOMAIN history : Resets(history[i]) \/ history[i].v[s] # <<>>}

Predictor(s, r) ==
  LET m == history[Max(Setters(s))]
  IN  IF Setters(s) = {} \/ Resets(m) THEN Zero ELSE Leaves(m, s)[r]

\* Differences are sent modulo the range of the vectors.
Difference(type, s, r, v) ==
  LET p == Predictor(s, r)
      y == IF type \in {"fr_field", "fr_dmv"} THEN p[2] \div 2 ELSE p[2]
      in(d, half) == Bound(d \div pic.unit, half \div pic.unit)
  IN  <<in(v[1] - p[1], pic.half[1]), in(v[2] - y, pic.half[2])>>

Code(type, s, v, select, dmv) ==
  [delta |-> [r \in DOMAIN v |-> Difference(type, s, r, v[r])], select |-> select, dmv |-> dmv]

\* The vectors of one direction.  Those of a field in a frame have half of the
\* vertical range.
Meant(type) ==
  LET field(v) == <<v[1], v[2] \div 2>>
  IN  CASE type = "fr_field" -> {<<field(p[1]), field(p[2])>> : p \in Vectors \X Vectors}
        [] type = "fr_dmv" -> {<<field(v)>> : v \in Vectors}
        [] type = "fi_16x8" -> Vectors \X Vectors
        [] type = "mp1" -> {<<<<pic.unit * v[1], pic.unit * v[2]>>>> : v \in Vectors}
        [] OTHER -> {<<v>> : v \in Vectors}

DualPrime == {"fr_dmv", "fi_dmv"}

-----------------------------------------------------------------------------
(* mpeg2_slice *)

NewHistory ==
  /\ history' = <<>>
  /\ last' = [reads |-> {}, used |-> NoVectors, dc |-> None]

\* mpeg2_init_fbuf
InitFbuf ==
  /\ pc = "idle"
  /\ pic' \in Pictures
  /\ NewHistory
  /\ UNCHANGED <<pc, position, dc, pmv, dirs, mba_inc, address>>

\* Fault: the vectors of the slice before are kept.
DcReset == dc' = None /\ UNCHANGED pmv

\* The predictors at the start of a slice.
PredictorReset ==
  /\ dc' = None
  /\ pmv' = [s \in Dirs |-> <<Zero, Zero>>]

\* slice_init: the code names a row, the first increment a macroblock from
\* its start; a picture may end before.
SliceInit(code, increment) ==
  /\ pc = "idle"
  /\ PredictorReset
  /\ \E rows \in 0 .. increment :
       /\ offset' = 16 * increment - rows * Width
       /\ 0 <= offset' /\ offset' < Width
       /\ v_offset' = 16 * (code - 1) + 16 * rows
       /\ dest' = 16 * (code - 1) + 16 * rows
  /\ pc' = IF v_offset' > LimitY THEN "idle" ELSE "macroblock"
  /\ address' = (code - 1) * (Width \div 16) + increment
  /\ NewHistory
  /\ UNCHANGED <<pic, dirs, mba_inc>>

\* Fault: the pointer stays in its row.
AdvanceSameRow(then) ==
  /\ offset' = IF offset + 16 = Width THEN 0 ELSE offset + 16
  /\ v_offset' = IF offset + 16 = Width THEN v_offset + 16 ELSE v_offset
  /\ pc' = IF offset + 16 = Width /\ v_offset + 16 > LimitY THEN "idle" ELSE then
  /\ UNCHANGED dest

\* NEXT_MACROBLOCK: the slice ends with the last row of the picture.
Advance(then) ==
  \/ /\ offset + 16 # Width
     /\ offset' = offset + 16
     /\ pc' = then
     /\ UNCHANGED <<v_offset, dest>>
  \/ /\ offset + 16 = Width
     /\ dest' = dest + 16
     /\ v_offset' = v_offset + 16
     /\ IF v_offset + 16 > LimitY THEN pc' = "idle" /\ offset' = Width
                                  ELSE pc' = then /\ offset' = 0

\* The sender goes on to the next macroblock.
Meaning(m) ==
  /\ history' = Append(history, m)
  /\ address' = address + 1

\* An intra macroblock: motion_fr_conceal and motion_fi_conceal decode a
\* vector, and nothing is predicted with it.
Intra ==
  /\ pc = "macroblock"
  /\ \/ /\ ~pic.conceal
        /\ pmv' = [s \in Dirs |-> <<Zero, Zero>>]
        /\ Meaning(Macroblock("intra", "none", {}, NoVectors, <<>>))
     \/ /\ pic.conceal
        /\ \E v \in Vectors :
             LET vector == Vector("f", 1, Code("none", "f", <<v>>, <<>>, Zero))
             IN  /\ pmv' = [pmv EXCEPT !["f"] = <<vector, vector>>]
                 /\ Meaning(Macroblock("conceal", "none", {}, [NoVectors EXCEPT !["f"] = <<v>>], <<>>))
  /\ last' = [reads |-> {}, used |-> NoVectors, dc |-> dc]
  /\ dc' = address
  /\ dirs' = IF pic.type = "P" THEN {"f"} ELSE {}
  /\ Advance("increment")
  /\ UNCHANGED <<pic, mba_inc>>

\* get_macroblock_modes, for a macroblock that is predicted.
Types ==
  IF pic.mpeg1 THEN {"mp1"}
  ELSE IF pic.structure # "frame"
       THEN {"fi_field", "fi_16x8"} \cup (IF pic.type = "P" THEN {"fi_dmv"} ELSE {})
       ELSE IF pic.frame_pred_frame_dct THEN {"fr_frame"}
            ELSE {"fr_frame", "fr_field"} \cup (IF pic.type = "P" THEN {"fr_dmv"} ELSE {})

Directions == IF pic.type = "P" THEN {{"f"}} ELSE SUBSET Dirs \ {{}}

Inter ==
  /\ pc = "macroblock"
  /\ pic.type \in {"P", "B"}
  /\ \E type \in Types, directions \in Directions, select \in Selects :
     \E v \in [Dirs -> Meant(type) \cup {<<>>}], dmv \in (IF type \in DualPrime THEN {<<1, -1>>, <<-1, 1>>} ELSE {Zero}) :
       /\ \A s \in Dirs : v[s] = <<>> <=> s \notin directions
       /\ MotionCall(type, directions, [s \in directions |-> Code(type, s, v[s], select, dmv)])
       /\ Meaning(Macroblock("coded", type, directions, v, select))
       /\ dirs' = directions
  /\ dc' = None
  /\ Advance("increment")
  /\ UNCHANGED <<pic, mba_inc>>

\* In a P picture, a coded macroblock without vector: motion type 0.
InterZero ==
  /\ pc = "macroblock"
  /\ pic.type = "P"
  /\ MotionCall("zero", {"f"}, [s \in Dirs |-> <<>>])
  /\ Meaning(Macroblock("zero", "zero", {"f"}, NoVectors, <<>>))
  /\ dirs' = {"f"}
  /\ dc' = None
  /\ Advance("increment")
  /\ UNCHANGED <<pic, mba_inc>>

\* The sender skips none in an I picture, and none in a B picture after an
\* intra macroblock.
MaySkip ==
  \/ pic.type = "P"
  \/ pic.type = "B" /\ history[Len(history)].kind \notin {"intra", "conceal"}

\* mba_inc: the macroblocks skipped before the next.
Increment ==
  /\ pc = "increment"
  /\ \E n \in 0 .. MaxMacroblocks - Len(history) - 1 :
       /\ n > 0 => MaySkip
       /\ dc' = IF n > 0 THEN None ELSE dc
       /\ pc' = IF n > 0 THEN "skip" ELSE "macroblock"
       /\ mba_inc' = n
  /\ UNCHANGED <<pic, position, pmv, dirs, address, history, last>>

\* A skipped macroblock.
Skip ==
  /\ pc = "skip"
  /\ IF pic.type = "P"
     THEN /\ MotionCall("zero", {"f"}, [s \in Dirs |-> <<>>])
          /\ Meaning(Macroblock("skipped", "zero", {"f"}, NoVectors, <<>>))
     ELSE /\ MotionCall("reuse", dirs, [s \in Dirs |-> <<>>])
          /\ Meaning(Macroblock("skipped", "reuse", dirs, NoVectors, <<>>))
  /\ mba_inc' = mba_inc - 1
  /\ Advance(IF mba_inc = 1 THEN "macroblock" ELSE "skip")
  /\ UNCHANGED <<pic, dc, dirs>>

\* No more macroblocks in the slice.
EndOfSlice ==
  /\ pc = "increment"
  /\ pc' = "idle"
  /\ NewHistory
  /\ UNCHANGED <<pic, position, dc, pmv, dirs, mba_inc, address>>

-----------------------------------------------------------------------------
Init ==
  /\ pc = "idle"
  /\ pic \in Pictures
  /\ offset = 0 /\ v_offset = 0 /\ dest = 0
  /\ dc = None
  /\ pmv = [s \in Dirs |-> <<Zero, Zero>>]
  /\ dirs = {}
  /\ mba_inc = 0
  /\ address = 0
  /\ history = <<>>
  /\ last = [reads |-> {}, used |-> NoVectors, dc |-> None]

Next ==
  \/ InitFbuf
  \/ \E code \in 1 .. PicHeight \div 16 + 1, increment \in 0 .. MaxMacroblocks - 1 :
       SliceInit(code, increment)
  \/ Intra \/ Inter \/ InterZero
  \/ Increment \/ Skip \/ EndOfSlice

Spec == Init /\ [][Next]_vars

-----------------------------------------------------------------------------
(* Properties *)

InPlane(k) ==
  LET chromaHeight == IF pic.chroma = 420 THEN PicHeight \div 2 ELSE PicHeight
  IN  /\ 0 <= k.x /\ k.x + k.cols <= (IF k.plane = "Y" THEN Width ELSE Width \div 2)
      /\ 0 <= k.y
      /\ k.y + k.step * (k.rows - 1) < (IF k.plane = "Y" THEN PicHeight ELSE chromaHeight)

\* Whatever the vectors are, sent or derived, a macroblock is predicted from
\* pixels of the reference picture only: in both planes, with the extra column
\* and row of a half pixel position, for blocks of 16 and of 8 lines, and for
\* single fields in a frame.
PredictionsInside == \A k \in last.reads : InPlane(k)

\* A macroblock is decoded to the address the sender means: the pointer and
\* the position used for prediction keep step, over the rows that a slice
\* spans and the macroblocks it skips, and nothing is decoded past the end of
\* the picture or of a line.
MacroblocksInPlace ==
  \A i \in DOMAIN history :
    LET m == history[i]
        row == m.address \div (Width \div 16)
    IN  /\ m.at = [dest |-> 16 * row, v_offset |-> 16 * row,
                   offset |-> 16 * (m.address % (Width \div 16))]
        /\ row < PicHeight \div 16

\* The vectors of a macroblock are those the sender meant.
VectorsMeant(m) ==
  \A s \in Dirs :
    last.used[s] = CASE m.kind = "coded" -> m.v[s]
                     [] m.type = "reuse" /\ s \in m.dirs -> <<Predictor(s, 1)>>
                     [] m.type = "zero" /\ s = "f" -> <<Zero>>
                     [] OTHER -> <<>>

\* So are the predictors left for the next one.
PredictorsKept ==
  \A s \in Dirs, r \in 1 .. (IF pic.mpeg1 THEN 1 ELSE 2) : pmv[s][r] = Predictor(s, r)

\* The picture in which a reference field was decoded last.
Recent(s, bottom) ==
  IF s = "f" /\ pic.type = "P" /\ pic.second /\ bottom # (pic.structure = "bottom")
  THEN "current" ELSE s

\* The fields a macroblock is to be predicted from, for each part.
FieldsOf(m, s) ==
  LET bottom(i) == m.select[i] = 1
      own == pic.structure = "bottom"
  IN  CASE m.type = "fr_field" -> {<<s, bottom(1), 0>>, <<s, bottom(2), 1>>}
        [] m.type = "fr_dmv" -> {<<s, b, part>> : b \in BOOLEAN, part \in 0 .. 1}
        [] m.type = "fi_field" -> {<<Recent(s, bottom(1)), bottom(1), 0>>}
        [] m.type = "fi_16x8" -> {<<Recent(s, bottom(1)), bottom(1), 0>>,
                                  <<Recent(s, bottom(2)), bottom(2), 8>>}
        [] m.type = "fi_dmv" -> {<<Recent(s, b), b, 0>> : b \in BOOLEAN}
        [] OTHER -> {<<s, own, 0>>}

FieldsMeant(m) ==
  LET bottom(k) == IF k.step = 2 THEN k.y % 2 = 1 ELSE k.ref.bottom
  IN  {<<k.ref.frame, bottom(k), k.part>> : k \in last.reads} = UNION {FieldsOf(m, s) : s \in m.dirs}

\* The DC coefficients of an intra macroblock are predicted from the macroblock
\* before it if that is intra, too, and in the slice.
DCMeant(i) ==
  history[i].kind \in {"intra", "conceal"} =>
    last.dc = IF i > 1 /\ history[i - 1].kind \in {"intra", "conceal"}
              THEN history[i - 1].address ELSE None

\* Decoder and sender agree on what every macroblock is predicted from,
\* though the stream has differences only: the vectors, the fields of which
\* picture, and the DC coefficients, after any succession of intra, skipped and
\* predicted macroblocks, and whatever the slices before left behind.
DecodedAsMeant ==
  history # <<>> =>
    LET m == history[Len(history)]
    IN  VectorsMeant(m) /\ PredictorsKept /\ FieldsMeant(m) /\ DCMeant(Len(history))
=============================================================================
