----------------------- MODULE MacroblockDecode_proofs ----------------------
(***************************************************************************)
(* For every size of the picture, every place of the macroblock and every  *)
(* vector, prediction stays inside the reference picture, macroblocks are  *)
(* decoded where their addresses say, and the decoder takes each of them   *)
(* for what the sender meant.                                              *)
(***************************************************************************)
EXTENDS MacroblockDecode, TLAPS

Pairs == Int \X Int

\* A macroblock of the picture.
Placed ==
  /\ offset \in Int /\ 0 <= offset /\ offset + 16 <= Width /\ offset % 16 = 0
  /\ v_offset \in Int /\ 0 <= v_offset /\ v_offset <= LimitY /\ v_offset % 16 = 0

\* The picture has whole macroblocks, too, if it is a field.
LEMMA Heights ==
  ASSUME pic \in Pictures
  PROVE  PicHeight \in Int /\ PicHeight % 16 = 0
  BY SliceAssumption DEF PicHeight

LEMMA Columns ==
  ASSUME Placed, NEW v \in Int,
         NEW px, px = Clamp(2 * offset + v, LimitX),
         NEW cx, cx = Half(px - 2 * offset)
  PROVE  /\ px \in Int /\ cx \in Int
         /\ 0 <= px \div 2 /\ px \div 2 + (16 + Odd(px)) <= Width
         /\ 0 <= (offset + cx) \div 2 /\ (offset + cx) \div 2 + (8 + Odd(cx)) <= Width \div 2
<1>1. Width \in Int /\ Width % 16 = 0 /\ 16 <= Width
  BY SliceAssumption
<1>2. px \in Int /\ 0 <= px /\ px <= 2 * Width - 32
  BY <1>1 DEF Placed, Clamp, LimitX
<1>3. cx \in Int
  BY <1>2 DEF Placed, Half
<1>4. 0 <= px \div 2 /\ px \div 2 + (16 + Odd(px)) <= Width
  BY <1>1, <1>2 DEF Odd
<1>5. 0 <= offset + cx /\ offset + cx <= Width - 16
  BY <1>1, <1>2 DEF Placed, Half
<1>6. 0 <= (offset + cx) \div 2
  BY <1>3, <1>5 DEF Placed
<1>7. (offset + cx) % 2 = cx % 2
  BY <1>3 DEF Placed
<1>8. (offset + cx) \div 2 + (8 + Odd(cx)) <= Width \div 2
  BY <1>1, <1>3, <1>5, <1>7 DEF Odd, Placed
<1> QED BY <1>2, <1>3, <1>4, <1>6, <1>8

\* What it takes for a block to be inside its plane.
LEMMA LumaInside ==
  ASSUME NEW ref, NEW part, NEW px, NEW y, NEW step, NEW rows,
         0 <= px \div 2, px \div 2 + (16 + Odd(px)) <= Width,
         0 <= y, y + step * (rows - 1) < PicHeight
  PROVE  InPlane(Luma(ref, part, px, y, step, rows))
<1> DEFINE k == Luma(ref, part, px, y, step, rows)
<1>1. /\ k.plane = "Y" /\ k.x = px \div 2 /\ k.cols = 16 + Odd(px)
      /\ k.y = y /\ k.step = step /\ k.rows = rows
  BY DEF Luma
<1> HIDE DEF k
<1>2. InPlane(k)
  BY <1>1 DEF InPlane
<1> QED BY <1>2 DEF k

LEMMA ChromaInside ==
  ASSUME NEW ref, NEW part, NEW cx, NEW y, NEW step, NEW rows,
         0 <= (offset + cx) \div 2, (offset + cx) \div 2 + (8 + Odd(cx)) <= Width \div 2,
         0 <= y,
         y + step * (rows - 1) < (IF pic.chroma = 420 THEN PicHeight \div 2 ELSE PicHeight)
  PROVE  InPlane(Chroma(ref, part, cx, y, step, rows))
<1> DEFINE k == Chroma(ref, part, cx, y, step, rows)
<1>1. /\ k.plane = "C" /\ k.x = (offset + cx) \div 2 /\ k.cols = 8 + Odd(cx)
      /\ k.y = y /\ k.step = step /\ k.rows = rows
  BY DEF Chroma
<1> HIDE DEF k
<1>2. InPlane(k)
  BY <1>1 DEF InPlane
<1> QED BY <1>2 DEF k

LEMMA MotionInside ==
  ASSUME Placed, pic \in Pictures, NEW ref, NEW v \in Pairs, NEW size \in {8, 16}, NEW y \in {0, 8},
         size = 16 => y = 0
  PROVE  \A k \in Motion(ref, v, size, y) : InPlane(k)
<1> DEFINE px == Clamp(2 * offset + v[1], LimitX)
           py == Clamp(2 * v_offset + v[2] + 2 * y, Limit(size))
           cx == Half(px - 2 * offset)
           cy == Half(py - 2 * v_offset - 2 * y)
<1>1. PicHeight \in Int /\ PicHeight % 16 = 0
  BY Heights
<1>2. v[1] \in Int /\ v[2] \in Int
  BY DEF Pairs
<1>3. /\ px \in Int /\ cx \in Int
      /\ 0 <= px \div 2 /\ px \div 2 + (16 + Odd(px)) <= Width
      /\ 0 <= (offset + cx) \div 2 /\ (offset + cx) \div 2 + (8 + Odd(cx)) <= Width \div 2
  BY <1>2, Columns
<1>4. py \in Int /\ 0 <= py /\ py <= 2 * PicHeight - 2 * size
  BY <1>1, <1>2 DEF Placed, Clamp, Limit, LimitY
<1>5. cy \in Int /\ -y <= v_offset + cy /\ v_offset + cy <= PicHeight - size - y
  BY <1>1, <1>4 DEF Placed, Half, LimitY
<1> HIDE DEF px, py, cx, cy
<1>6. \A first, rows \in Int :
        0 <= first /\ first + 1 * (rows - 1) < PicHeight => InPlane(Luma(ref, y, px, first, 1, rows))
  BY <1>3, LumaInside
<1>7. \A first, rows \in Int :
        /\ 0 <= first
        /\ first + 1 * (rows - 1) < (IF pic.chroma = 420 THEN PicHeight \div 2 ELSE PicHeight)
        => InPlane(Chroma(ref, y, cx, first, 1, rows))
  BY <1>3, ChromaInside
<1> DEFINE first == py \div 2
           rows == size + Odd(py)
           firstC == (v_offset + cy) \div 2 + y \div 2
           rowsC == size \div 2 + Odd(cy)
<1>8. first \in Int /\ rows \in Int /\ 0 <= first /\ first + 1 * (rows - 1) < PicHeight
  BY <1>1, <1>4 DEF Odd
<1>9. firstC \in Int /\ rowsC \in Int /\ 0 <= firstC /\ firstC + 1 * (rowsC - 1) < PicHeight \div 2
  <2>1. (v_offset + cy) % 2 = cy % 2
    BY <1>5 DEF Placed
  <2> QED BY <1>1, <1>5, <2>1 DEF Placed, Odd
<1>10. Motion(ref, v, size, y) = {Luma(ref, y, px, first, 1, rows),
                                  IF pic.chroma = 420 THEN Chroma(ref, y, cx, firstC, 1, rowsC)
                                  ELSE Chroma(ref, y, cx, first, 1, rows)}
  BY DEF Motion, px, py, cx, cy
<1> HIDE DEF first, rows, firstC, rowsC
<1>11. InPlane(Luma(ref, y, px, first, 1, rows))
  BY <1>6, <1>8
<1>12. pic.chroma = 420 => InPlane(Chroma(ref, y, cx, firstC, 1, rowsC))
  BY <1>7, <1>9
<1>13. pic.chroma # 420 => InPlane(Chroma(ref, y, cx, first, 1, rows))
  BY <1>7, <1>8
<1> QED BY <1>10, <1>11, <1>12, <1>13

LEMMA MotionFieldInside ==
  ASSUME Placed, pic \in Pictures, NEW ref, NEW v \in Pairs, NEW dest_field, NEW line \in {0, 1}
  PROVE  \A k \in MotionField(ref, v, dest_field, line) : InPlane(k)
<1> DEFINE px == Clamp(2 * offset + v[1], LimitX)
           py == Clamp(v_offset + v[2], LimitY)
           cx == Half(px - 2 * offset)
           cy == Half(py - v_offset)
<1>1. PicHeight \in Int /\ PicHeight % 16 = 0
  BY Heights
<1>2. v[1] \in Int /\ v[2] \in Int
  BY DEF Pairs
<1>3. /\ px \in Int /\ cx \in Int
      /\ 0 <= px \div 2 /\ px \div 2 + (16 + Odd(px)) <= Width
      /\ 0 <= (offset + cx) \div 2 /\ (offset + cx) \div 2 + (8 + Odd(cx)) <= Width \div 2
  BY <1>2, Columns
<1>4. py \in Int /\ 0 <= py /\ py <= PicHeight - 16
  BY <1>1, <1>2 DEF Placed, Clamp, LimitY
<1>5. cy \in Int /\ 0 <= v_offset \div 2 + cy /\ v_offset \div 2 + cy <= PicHeight \div 2 - 8
  BY <1>1, <1>4 DEF Placed, Half, LimitY
<1> HIDE DEF px, py, cx, cy
<1>6. \A first, rows \in Int :
        /\ 0 <= first
        /\ first + 2 * (rows - 1) < PicHeight
        => InPlane(Luma(ref, dest_field, px, first, 2, rows))
  BY <1>3, LumaInside
<1>7. \A first, rows \in Int :
        /\ 0 <= first
        /\ first + 2 * (rows - 1) < (IF pic.chroma = 420 THEN PicHeight \div 2 ELSE PicHeight)
        => InPlane(Chroma(ref, dest_field, cx, first, 2, rows))
  BY <1>3, ChromaInside
<1> DEFINE first == 2 * (py \div 2) + line
           rows == 8 + Odd(py)
           firstC == v_offset \div 2 + 2 * (cy \div 2) + line
           rowsC == 4 + Odd(cy)
<1>8. first \in Int /\ rows \in Int /\ 0 <= first /\ first + 2 * (rows - 1) < PicHeight
  BY <1>1, <1>4 DEF Odd
<1>9. firstC \in Int /\ rowsC \in Int /\ 0 <= firstC /\ firstC + 2 * (rowsC - 1) < PicHeight \div 2
  <2>1. (v_offset \div 2) % 2 = 0 /\ (PicHeight \div 2) % 2 = 0
    BY <1>1 DEF Placed
  <2> QED BY <1>1, <1>5, <2>1 DEF Placed, Odd
<1>10. MotionField(ref, v, dest_field, line) =
         {Luma(ref, dest_field, px, first, 2, rows),
          IF pic.chroma = 420 THEN Chroma(ref, dest_field, cx, firstC, 2, rowsC)
          ELSE Chroma(ref, dest_field, cx, first, 2, rows)}
  BY DEF MotionField, px, py, cx, cy
<1> HIDE DEF first, rows, firstC, rowsC
<1>11. InPlane(Luma(ref, dest_field, px, first, 2, rows))
  BY <1>6, <1>8
<1>12. pic.chroma = 420 => InPlane(Chroma(ref, dest_field, cx, firstC, 2, rowsC))
  BY <1>7, <1>9
<1>13. pic.chroma # 420 => InPlane(Chroma(ref, dest_field, cx, first, 2, rows))
  BY <1>7, <1>8
<1> QED BY <1>10, <1>11, <1>12, <1>13

-----------------------------------------------------------------------------
(* What the functions motion_xxx return *)

Predictors == [Dirs -> Pairs \X Pairs]
TwoVectors == {"fr_field", "fi_16x8"}
Coded == {"mp1", "fr_frame", "fr_field", "fr_dmv", "fi_field", "fi_16x8", "fi_dmv"}
AllTypes == Coded \cup {"zero", "reuse", "none"}

\* What the stream has for a macroblock of this type.
Readable(type, c) ==
  /\ c.delta[1] \in Pairs
  /\ type \in TwoVectors => c.delta[2] \in Pairs
  /\ c.select[1] \in {0, 1} /\ c.select[2] \in {0, 1}
  /\ c.dmv \in Pairs

LEMMA BoundType ==
  ASSUME NEW p \in Pictures, NEW i \in 1 .. 2, NEW n \in Int
  PROVE  Bound(n, p.half[i]) \in Int
<1>1. p.half[i] \in Nat \ {0}
  BY SliceAssumption
<1> QED BY <1>1 DEF Bound

LEMMA VectorTypes ==
  ASSUME pic \in Pictures, pmv \in Predictors, NEW s \in Dirs, NEW r \in 1 .. 2, NEW c,
         c.delta[r] \in Pairs
  PROVE  /\ Vector(s, r, c) \in Pairs
         /\ FieldVector(s, r, c) \in Pairs /\ InFrame(FieldVector(s, r, c)) \in Pairs
<1>1. pmv[s][r] \in Pairs
  BY DEF Predictors
<1>2. \A i \in 1 .. 2 : pmv[s][r][i] \in Int /\ c.delta[r][i] \in Int /\ pic.unit \in {1, 2}
  BY <1>1, SliceAssumption DEF Pairs
<1>3. \A i \in 1 .. 2 : pmv[s][r][i] + pic.unit * c.delta[r][i] \in Int
  BY <1>2
<1>4. \A i \in 1 .. 2 : Added(s, r, c, i) \in Int
  BY <1>3, BoundType DEF Added
<1> QED BY <1>2, <1>4 DEF Vector, FieldVector, InFrame, Pairs

LEMMA OtherType ==
  ASSUME NEW v \in Pairs, NEW m \in {1, 3}, NEW d \in Pairs, NEW shift \in {-1, 1}
  PROVE  Other(v, m, d, shift) \in Pairs
  BY DEF Other, Scaled, Positive, Pairs

LEMMA MotionResult ==
  ASSUME Placed, pic \in Pictures, pmv \in Predictors, NEW s \in Dirs,
         NEW type \in Coded \cup {"zero", "reuse"}, NEW c, type \in Coded => Readable(type, c)
  PROVE  LET motion == motion_parser(type, s, c)
         IN  motion.pmv \in Pairs \X Pairs /\ \A k \in motion.reads : InPlane(k)
<1>1. Zero \in Pairs
  BY DEF Zero, Pairs
<1>2. CASE type = "zero"
  BY <1>1, <1>2, MotionInside DEF motion_parser, zero, MotionZero
<1>3. CASE type = "reuse"
  <2>1. pmv[s] \in Pairs \X Pairs /\ pmv[s][1] \in Pairs
    BY DEF Predictors
  <2> QED BY <1>3, <2>1, MotionInside DEF motion_parser, reuse
<1>4. CASE type \in Coded
  <2> DEFINE v == Vector(s, 1, c)
             f == FieldVector(s, 1, c)
  <2>1. Readable(type, c)
    BY <1>4
  <2>2. v \in Pairs /\ f \in Pairs /\ InFrame(f) \in Pairs
    BY <2>1, VectorTypes DEF Readable
  <2>3. pmv[s][2] \in Pairs
    BY DEF Predictors
  <2> HIDE DEF v, f
  <2>4. CASE type = "mp1"
    BY <2>2, <2>3, <2>4, MotionInside DEF motion_parser, mp1, v
  <2>5. CASE type = "fr_frame"
    BY <2>2, <2>5, MotionInside DEF motion_parser, fr_frame, v
  <2>6. CASE type = "fr_field"
    <3> DEFINE w == FieldVector(s, 2, c)
    <3>1. w \in Pairs /\ InFrame(w) \in Pairs
      BY <2>1, <2>6, VectorTypes DEF Readable, TwoVectors
    <3>2. c.select[1] \in {0, 1} /\ c.select[2] \in {0, 1}
      BY <2>1 DEF Readable
    <3> HIDE DEF w
    <3> QED BY <2>2, <2>6, <3>1, <3>2, MotionFieldInside DEF motion_parser, fr_field, f, w
  <2>7. CASE type = "fr_dmv"
    <3> DEFINE m == IF pic.top_field_first THEN 1 ELSE 3
    <3>1. m \in {1, 3} /\ 4 - m \in {1, 3} /\ c.dmv \in Pairs
      BY <2>1 DEF Readable
    <3> HIDE DEF m
    <3>2. Other(f, m, c.dmv, -1) \in Pairs /\ Other(f, 4 - m, c.dmv, 1) \in Pairs
      BY <2>2, <3>1, OtherType
    <3> QED BY <2>2, <2>7, <3>2, MotionFieldInside DEF motion_parser, fr_dmv, MotionDmv, f, m
  <2>8. CASE type = "fi_field"
    BY <2>2, <2>8, MotionInside DEF motion_parser, fi_field, v
  <2>9. CASE type = "fi_16x8"
    <3> DEFINE w == Vector(s, 2, c)
    <3>1. w \in Pairs
      BY <2>1, <2>9, VectorTypes DEF Readable, TwoVectors
    <3> HIDE DEF w
    <3> QED BY <2>2, <2>9, <3>1, MotionInside DEF motion_parser, fi_16x8, v, w
  <2>10. CASE type = "fi_dmv"
    <3> DEFINE shift == IF pic.structure = "bottom" THEN 1 ELSE -1
    <3>1. Other(v, 1, c.dmv, shift) \in Pairs
      BY <2>1, <2>2, OtherType DEF Readable
    <3> QED BY <2>2, <2>10, <3>1, MotionInside DEF motion_parser, fi_dmv, v
  <2> QED BY <1>4, <2>4, <2>5, <2>6, <2>7, <2>8, <2>9, <2>10 DEF Coded
<1> QED BY <1>2, <1>3, <1>4

-----------------------------------------------------------------------------
(* The sender *)

Kinds == {"intra", "conceal", "zero", "skipped", "coded"}

Sent ==
  {m \in [address : Int, at : [dest : Int, v_offset : Int, offset : Int], kind : Kinds,
          type : AllTypes, dirs : SUBSET Dirs, v : [Dirs -> Seq(Pairs)], select : Selects \cup {<<>>}] :
     \A s \in Dirs : m.v[s] # <<>> => Leaves(m, s) \in Pairs \X Pairs}

\* The last macroblock that sets a predictor can be named.
HasLast(S) == S = {} \/ \E i \in S : \A j \in S : i >= j

HistoryInv ==
  /\ history \in Seq(Sent)
  /\ \A s \in Dirs : HasLast(Setters(s))

LEMMA PredictorType ==
  ASSUME HistoryInv, NEW s \in Dirs, NEW r \in 1 .. 2
  PROVE  Predictor(s, r) \in Pairs
<1> DEFINE S == Setters(s)
<1>1. CASE S = {}
  BY <1>1 DEF Predictor, Zero, Pairs
<1>2. CASE S # {}
  <2>1. Max(S) \in S
    BY <1>2 DEF HistoryInv, HasLast, Max
  <2> DEFINE m == history[Max(S)]
  <2>2. m \in Sent /\ (Resets(m) \/ m.v[s] # <<>>)
    BY <2>1 DEF HistoryInv, Setters
  <2>3. Resets(m) \/ Leaves(m, s) \in Pairs \X Pairs
    BY <2>2 DEF Sent
  <2> QED BY <1>2, <2>3 DEF Predictor, Zero, Pairs
<1> QED BY <1>1, <1>2

LEMMA DifferenceType ==
  ASSUME HistoryInv, pic \in Pictures, NEW s \in Dirs, NEW r \in 1 .. 2, NEW type, NEW v \in Pairs
  PROVE  Difference(type, s, r, v) \in Pairs
<1> DEFINE p == Predictor(s, r)
           y == IF type \in {"fr_field", "fr_dmv"} THEN p[2] \div 2 ELSE p[2]
           in(d, half) == Bound(d \div pic.unit, half \div pic.unit)
<1>1. p \in Pairs
  BY PredictorType
<1>2. v[1] - p[1] \in Int /\ v[2] - y \in Int
  BY <1>1 DEF Pairs
<1>3. pic.unit \in {1, 2} /\ \A i \in 1 .. 2 : pic.half[i] \div pic.unit \in Nat \ {0}
  BY SliceAssumption
<1> HIDE DEF p, y
<1>4. in(v[1] - p[1], pic.half[1]) \in Int
  BY <1>2, <1>3 DEF Bound
<1>5. in(v[2] - y, pic.half[2]) \in Int
  BY <1>2, <1>3 DEF Bound
<1> QED BY <1>4, <1>5 DEF Difference, Pairs, p, y

LEMMA MeantType ==
  ASSUME pic \in Pictures, NEW type \in Coded, NEW w \in Meant(type)
  PROVE  /\ w \in Seq(Pairs) /\ w # <<>> /\ w[1] \in Pairs /\ 1 \in DOMAIN w /\ DOMAIN w \subseteq 1 .. 2
         /\ type \in TwoVectors => w \in Pairs \X Pairs /\ w[2] \in Pairs /\ 2 \in DOMAIN w
<1>1. \A v \in Vectors : v \in Pairs /\ <<v[1], v[2] \div 2>> \in Pairs
  BY SliceAssumption DEF Pairs
<1>2. CASE type = "fr_field"
  <2>1. Meant(type) = {<<<<p[1][1], p[1][2] \div 2>>, <<p[2][1], p[2][2] \div 2>>>> : p \in Vectors \X Vectors}
    BY <1>2 DEF Meant
  <2>2. PICK p \in Vectors \X Vectors : w = <<<<p[1][1], p[1][2] \div 2>>, <<p[2][1], p[2][2] \div 2>>>>
    BY <2>1
  <2>3. p[1] \in Vectors /\ p[2] \in Vectors
    OBVIOUS
  <2>4. PICK a \in Pairs, b \in Pairs : w = <<a, b>>
    BY <1>1, <2>2, <2>3
  <2> QED BY <2>4
<1>3. CASE type = "fi_16x8"
  <2>1. Meant(type) = Vectors \X Vectors
    BY <1>3 DEF Meant
  <2>2. w \in Vectors \X Vectors
    BY <2>1
  <2>3. w = <<w[1], w[2]>> /\ w[1] \in Vectors /\ w[2] \in Vectors
    BY <2>2
  <2>4. PICK a \in Pairs, b \in Pairs : w = <<a, b>>
    BY <1>1, <2>3
  <2> QED BY <2>4
<1>4. CASE type = "mp1"
  <2>1. Meant(type) = {<<<<pic.unit * v[1], pic.unit * v[2]>>>> : v \in Vectors}
    BY <1>4 DEF Meant
  <2>2. PICK v \in Vectors : w = <<<<pic.unit * v[1], pic.unit * v[2]>>>>
    BY <2>1
  <2>3. v[1] \in Int /\ v[2] \in Int
    BY <1>1 DEF Pairs
  <2>4. pic.unit * v[1] \in Int /\ pic.unit * v[2] \in Int
    <3>1. CASE pic.unit = 1
      BY <2>3, <3>1
    <3>2. CASE pic.unit = 2
      BY <2>3, <3>2
    <3> QED BY <3>1, <3>2, SliceAssumption
  <2>5. PICK a \in Pairs : w = <<a>>
    BY <2>2, <2>4 DEF Pairs
  <2> QED BY <1>4, <2>5 DEF TwoVectors
<1>5. CASE type = "fr_dmv"
  <2>1. Meant(type) = {<<<<v[1], v[2] \div 2>>>> : v \in Vectors}
    BY <1>5 DEF Meant
  <2>2. PICK a \in Pairs : w = <<a>>
    BY <1>1, <2>1
  <2> QED BY <1>5, <2>2 DEF TwoVectors
<1>6. CASE type \in {"fr_frame", "fi_field", "fi_dmv"}
  <2>1. Meant(type) = {<<v>> : v \in Vectors}
    BY <1>6 DEF Meant
  <2>2. PICK a \in Pairs : w = <<a>>
    BY <1>1, <2>1
  <2> QED BY <1>6, <2>2 DEF TwoVectors
<1> QED BY <1>2, <1>3, <1>4, <1>5, <1>6 DEF Coded

LEMMA CodeReadable ==
  ASSUME HistoryInv, pic \in Pictures, NEW s \in Dirs, NEW type \in Coded, NEW w \in Meant(type),
         NEW select \in Selects, NEW dmv \in Pairs
  PROVE  Readable(type, Code(type, s, w, select, dmv))
<1> DEFINE c == Code(type, s, w, select, dmv)
<1>1. select[1] \in {0, 1} /\ select[2] \in {0, 1}
  BY SliceAssumption
<1>2. c.select = select /\ c.dmv = dmv /\ \A r \in DOMAIN w : c.delta[r] = Difference(type, s, r, w[r])
  BY DEF Code
<1>3. c.delta[1] \in Pairs
  BY <1>2, MeantType, DifferenceType
<1>4. type \in TwoVectors => c.delta[2] \in Pairs
  BY <1>2, MeantType, DifferenceType
<1> QED BY <1>1, <1>2, <1>3, <1>4 DEF Readable

\* What a macroblock leaves are vectors.
LEMMA LeavesType ==
  ASSUME pic \in Pictures, NEW type \in Coded, NEW m, NEW s, m.type = type, m.v[s] \in Meant(type)
  PROVE  Leaves(m, s) \in Pairs \X Pairs
<1> DEFINE w == m.v[s]
<1>1. w[1] \in Pairs /\ (type \in TwoVectors => w \in Pairs \X Pairs /\ w[2] \in Pairs)
  BY MeantType
<1>2. \A v \in Pairs : InFrame(v) \in Pairs
  BY DEF InFrame, Pairs
<1> HIDE DEF w
<1>3. Leaves(m, s) = CASE type = "fr_field" -> <<InFrame(w[1]), InFrame(w[2])>>
                       [] type = "fi_16x8" -> w
                       [] type = "fr_dmv" -> <<InFrame(w[1]), InFrame(w[1])>>
                       [] OTHER -> <<w[1], w[1]>>
  BY DEF Leaves, w
<1> QED BY <1>1, <1>2, <1>3 DEF TwoVectors

-----------------------------------------------------------------------------
(* The inductive invariant *)

TypeInv ==
  /\ pic \in Pictures
  /\ pc \in {"idle", "macroblock", "increment", "skip"}
  /\ pc # "idle" => Placed
  /\ dest \in Int /\ address \in Int
  /\ pmv \in Predictors
  /\ dirs \in SUBSET Dirs

IInv == TypeInv /\ HistoryInv /\ PredictionsInside

LEMMA MotionCallKeeps ==
  ASSUME TypeInv, Placed, pic' = pic,
         NEW type \in Coded \cup {"zero", "reuse"}, NEW D \in SUBSET Dirs, NEW c,
         type \in Coded => \A s \in D : Readable(type, c[s]),
         MotionCall(type, D, c)
  PROVE  pmv' \in Predictors /\ PredictionsInside'
<1> DEFINE motion(s) == motion_parser(type, s, c[s])
<1>1. \A s \in D : motion(s).pmv \in Pairs \X Pairs /\ \A k \in motion(s).reads : InPlane(k)
  BY MotionResult DEF TypeInv
<1>2. /\ pmv' = [s \in Dirs |-> IF s \in D THEN motion(s).pmv ELSE pmv[s]]
      /\ last'.reads = UNION {motion(s).reads : s \in D}
  BY DEF MotionCall
<1> HIDE DEF motion
<1>3. pmv' \in Predictors
  BY <1>1, <1>2 DEF TypeInv, Predictors
<1>4. \A k \in last'.reads : InPlane(k)
  BY <1>1, <1>2
<1>5. \A k : InPlane(k) => InPlane(k)'
  BY DEF InPlane, PicHeight
<1> QED BY <1>3, <1>4, <1>5 DEF PredictionsInside

LEMMA MeaningKeeps ==
  ASSUME HistoryInv, address \in Int, pic' = pic, NEW m \in Sent, Meaning(m)
  PROVE  HistoryInv' /\ address' \in Int
<1>1. history' = Append(history, m) /\ history \in Seq(Sent)
  BY DEF Meaning, HistoryInv
<1>2. /\ history' \in Seq(Sent) /\ DOMAIN history' = 1 .. Len(history) + 1
      /\ history'[Len(history) + 1] = m
      /\ DOMAIN history = 1 .. Len(history)
      /\ \A i \in 1 .. Len(history) : history'[i] = history[i]
  BY <1>1
<1>3. ASSUME NEW s \in Dirs
      PROVE  HasLast(Setters(s)')
  <2>1. Setters(s)' = {i \in 1 .. Len(history) + 1 : Resets(history'[i]) \/ history'[i].v[s] # <<>>}
    BY <1>2 DEF Setters, Resets
  <2>2. CASE Resets(m) \/ m.v[s] # <<>>
    <3>1. Len(history) + 1 \in Setters(s)'
      BY <1>1, <1>2, <2>1, <2>2
    <3> QED BY <1>1, <2>1, <3>1 DEF HasLast
  <2>3. CASE ~(Resets(m) \/ m.v[s] # <<>>)
    <3>1. Setters(s)' = Setters(s)
      BY <1>1, <1>2, <2>1, <2>3 DEF Setters
    <3> QED BY <3>1 DEF HistoryInv, HasLast
  <2> QED BY <2>2, <2>3
<1> QED BY <1>2, <1>3 DEF HistoryInv, Meaning

LEMMA AdvanceKeeps ==
  ASSUME TypeInv, Placed, pic' = pic, NEW then \in {"macroblock", "increment", "skip"}, Advance(then)
  PROVE  /\ pc' \in {"idle", "macroblock", "increment", "skip"}
         /\ pc' # "idle" => Placed'
         /\ dest' \in Int
<1>1. LimitY' = LimitY /\ LimitY \in Int
  BY Heights DEF LimitY, PicHeight, TypeInv
<1>2. Width \in Int /\ Width % 16 = 0 /\ 16 <= Width
  BY SliceAssumption
<1>3. CASE offset + 16 # Width
  <2>1. offset' = offset + 16 /\ v_offset' = v_offset /\ dest' = dest /\ pc' = then
    BY <1>3 DEF Advance
  <2>2. offset' \in Int /\ offset' % 16 = 0 /\ 0 <= offset' /\ offset' + 16 <= Width
    BY <1>2, <1>3, <2>1 DEF Placed
  <2> QED BY <1>1, <2>1, <2>2 DEF Placed, TypeInv
<1>4. CASE offset + 16 = Width
  <2>1. /\ dest' = dest + 16 /\ v_offset' = v_offset + 16
        /\ IF v_offset + 16 > LimitY THEN pc' = "idle" ELSE pc' = then /\ offset' = 0
    BY <1>4 DEF Advance
  <2>2. v_offset' \in Int /\ v_offset' % 16 = 0 /\ 0 <= v_offset'
    BY <2>1 DEF Placed
  <2>3. v_offset + 16 <= LimitY => Placed'
    BY <1>1, <1>2, <2>1, <2>2 DEF Placed
  <2>4. dest' \in Int
    BY <2>1 DEF TypeInv
  <2>5. CASE v_offset + 16 > LimitY
    BY <2>1, <2>4, <2>5
  <2>6. CASE ~(v_offset + 16 > LimitY)
    <3>1. Placed' /\ pc' = then
      BY <1>1, <2>1, <2>3, <2>6 DEF Placed
    <3> QED BY <2>4, <3>1
  <2> QED BY <2>5, <2>6
<1> QED BY <1>3, <1>4

-----------------------------------------------------------------------------
(* The steps *)

\* What the sender keeps of a macroblock.
LEMMA SentMacroblock ==
  ASSUME TypeInv, Placed, NEW kind \in Kinds, NEW type \in AllTypes, NEW D \in SUBSET Dirs,
         NEW v \in [Dirs -> Seq(Pairs)], NEW select \in Selects \cup {<<>>},
         \A s \in Dirs : v[s] # <<>> => Leaves(Macroblock(kind, type, D, v, select), s) \in Pairs \X Pairs
  PROVE  Macroblock(kind, type, D, v, select) \in Sent
<1> DEFINE m == Macroblock(kind, type, D, v, select)
<1>1. m \in [address : Int, at : [dest : Int, v_offset : Int, offset : Int], kind : Kinds,
              type : AllTypes, dirs : SUBSET Dirs, v : [Dirs -> Seq(Pairs)], select : Selects \cup {<<>>}]
  BY DEF Macroblock, TypeInv, Placed
<1>2. m.v = v
  BY DEF Macroblock
<1> HIDE DEF m
<1>3. \A s \in Dirs : m.v[s] # <<>> => Leaves(m, s) \in Pairs \X Pairs
  BY <1>2 DEF m
<1>4. m \in Sent
  BY <1>1, <1>3 DEF Sent
<1> QED BY <1>4 DEF m

LEMMA SentWithout ==
  ASSUME TypeInv, Placed, NEW kind \in Kinds, NEW type \in AllTypes, NEW D \in SUBSET Dirs
  PROVE  Macroblock(kind, type, D, NoVectors, <<>>) \in Sent
<1>1. NoVectors \in [Dirs -> Seq(Pairs)] /\ \A s \in Dirs : NoVectors[s] = <<>>
  BY DEF NoVectors
<1> QED BY <1>1, SentMacroblock

\* A new slice or picture forgets the macroblocks before.
LEMMA NewHistoryKeeps ==
  ASSUME NewHistory
  PROVE  HistoryInv' /\ PredictionsInside'
<1>1. history' = <<>> /\ last'.reads = {}
  BY DEF NewHistory
<1>2. \A s \in Dirs : Setters(s)' = {}
  BY <1>1 DEF Setters
<1> QED BY <1>1, <1>2 DEF HistoryInv, HasLast, PredictionsInside

LEMMA NoReadsKeeps ==
  ASSUME last'.reads = {}
  PROVE  PredictionsInside'
  BY DEF PredictionsInside

LEMMA SliceInitKeeps ==
  ASSUME IInv, NEW code \in 1 .. PicHeight \div 16 + 1, NEW increment \in 0 .. MaxMacroblocks - 1,
         SliceInit(code, increment)
  PROVE  IInv'
<1>1. PicHeight \in Int /\ PicHeight % 16 = 0 /\ LimitY = PicHeight - 16 /\ pic' = pic /\ LimitY' = LimitY
  BY Heights DEF LimitY, PicHeight, SliceInit, IInv, TypeInv
<1>2. code \in Int /\ 1 <= code /\ increment \in Int /\ 0 <= increment
  BY <1>1, SliceAssumption
<1>3. PICK rows \in 0 .. increment :
        /\ offset' = 16 * increment - rows * Width
        /\ 0 <= offset' /\ offset' < Width
        /\ v_offset' = 16 * (code - 1) + 16 * rows
        /\ dest' = 16 * (code - 1) + 16 * rows
  BY DEF SliceInit
<1>4. rows \in Int /\ 0 <= rows
  BY <1>2
<1>5. PICK w \in Int : Width = 16 * w
  <2>1. Width = 16 * (Width \div 16) /\ Width \div 16 \in Int
    BY SliceAssumption
  <2> QED BY <2>1
<1>6. PICK n \in Int : n = rows * w
  BY <1>4, <1>5
<1>7. rows * Width = 16 * n
  BY <1>4, <1>5, <1>6
<1>8. offset' \in Int /\ offset' % 16 = 0 /\ 0 <= offset' /\ offset' + 16 <= Width
  BY <1>2, <1>3, <1>5, <1>6, <1>7
<1>9. v_offset' \in Int /\ v_offset' % 16 = 0 /\ 0 <= v_offset' /\ dest' \in Int
  BY <1>2, <1>3, <1>4
<1>10. pc' \in {"idle", "macroblock"} /\ (pc' # "idle" => v_offset' <= LimitY')
  <2>1. CASE v_offset' > LimitY
    BY <2>1 DEF SliceInit
  <2>2. CASE ~(v_offset' > LimitY)
    BY <1>1, <1>9, <2>2 DEF SliceInit
  <2> QED BY <2>1, <2>2
<1>11. pc' # "idle" => Placed'
  BY <1>8, <1>9, <1>10 DEF Placed
<1>12. address' \in Int
  <2>1. PICK k \in Int : k = Width \div 16
    BY SliceAssumption
  <2>2. (code - 1) * k \in Int
    BY <1>2, <2>1
  <2> QED BY <1>2, <2>1, <2>2 DEF SliceInit
<1>13. pmv' \in Predictors
  BY DEF SliceInit, PredictorReset, Predictors, Zero, Pairs
<1>14. dirs' \in SUBSET Dirs
  BY DEF SliceInit, IInv, TypeInv
<1>15. TypeInv'
  BY <1>1, <1>9, <1>10, <1>11, <1>12, <1>13, <1>14 DEF TypeInv, IInv
<1>16. HistoryInv' /\ PredictionsInside'
  BY NewHistoryKeeps DEF SliceInit
<1> QED BY <1>15, <1>16 DEF IInv

LEMMA IntraKeeps ==
  ASSUME IInv, Intra
  PROVE  IInv'
<1>1. Placed /\ TypeInv /\ HistoryInv /\ pic' = pic /\ pic \in Pictures
  BY DEF IInv, TypeInv, Intra
<1>2. pmv' \in Predictors /\ \E m \in Sent : Meaning(m)
  <2>1. CASE ~pic.conceal
    <3>1. /\ pmv' = [s \in Dirs |-> <<Zero, Zero>>]
          /\ Meaning(Macroblock("intra", "none", {}, NoVectors, <<>>))
      BY <2>1 DEF Intra
    <3>2. Macroblock("intra", "none", {}, NoVectors, <<>>) \in Sent
      BY <1>1, SentWithout DEF Kinds, AllTypes
    <3> QED BY <3>1, <3>2 DEF Predictors, Zero, Pairs
  <2>2. CASE pic.conceal
    <3> DEFINE code(v) == Code("none", "f", <<v>>, <<>>, Zero)
               V(v) == [NoVectors EXCEPT !["f"] = <<v>>]
               M(v) == Macroblock("conceal", "none", {}, V(v), <<>>)
    <3>1. PICK v \in Vectors : /\ pmv' = [pmv EXCEPT !["f"] = <<Vector("f", 1, code(v)), Vector("f", 1, code(v))>>]
                               /\ Meaning(M(v))
      BY <2>2 DEF Intra
    <3>2. v \in Pairs
      BY SliceAssumption DEF Pairs
    <3>3. code(v).delta[1] = Difference("none", "f", 1, v)
      BY DEF Code
    <3>4. Difference("none", "f", 1, v) \in Pairs
      BY <1>1, <3>2, DifferenceType DEF Dirs
    <3>5. Vector("f", 1, code(v)) \in Pairs
      <4> HIDE DEF code
      <4> QED BY <1>1, <3>3, <3>4, VectorTypes DEF TypeInv, Dirs
    <3>6. pmv' \in Predictors
      <4> DEFINE u == Vector("f", 1, code(v))
      <4>1. u \in Pairs /\ pmv' = [pmv EXCEPT !["f"] = <<u, u>>]
        BY <3>1, <3>5
      <4> HIDE DEF u
      <4> QED BY <1>1, <4>1 DEF TypeInv, Predictors
    <3>7. V(v) \in [Dirs -> Seq(Pairs)] /\ V(v)["f"] = <<v>> /\ V(v)["b"] = <<>>
      <4>1. /\ V(v) = [s \in Dirs |-> IF s = "f" THEN <<v>> ELSE <<>>]
            /\ <<v>> \in Seq(Pairs) /\ <<>> \in Seq(Pairs)
        BY <3>2 DEF NoVectors
      <4> QED BY <4>1 DEF Dirs
    <3>8. M(v).type = "none" /\ M(v).v = V(v)
      BY DEF Macroblock
    <3>9. \A s \in Dirs : V(v)[s] # <<>> => Leaves(M(v), s) \in Pairs \X Pairs
      <4> HIDE DEF M, V
      <4>1. Leaves(M(v), "f") = <<v, v>>
        BY <3>7, <3>8 DEF Leaves
      <4> QED BY <3>2, <3>7, <4>1 DEF Dirs
    <3>10. M(v) \in Sent
      <4> HIDE DEF V
      <4> QED BY <1>1, <3>7, <3>9, SentMacroblock DEF Kinds, AllTypes
    <3> QED BY <3>1, <3>6, <3>10
  <2> QED BY <2>1, <2>2
<1>3. HistoryInv' /\ address' \in Int
  BY <1>1, <1>2, MeaningKeeps DEF TypeInv
<1>4. PredictionsInside'
  BY NoReadsKeeps DEF Intra
<1>5. dirs' \in SUBSET Dirs
  BY DEF Intra, Dirs
<1>6. /\ pc' \in {"idle", "macroblock", "increment", "skip"}
      /\ pc' # "idle" => Placed'
      /\ dest' \in Int
  BY <1>1, AdvanceKeeps DEF Intra
<1> QED BY <1>1, <1>2, <1>3, <1>4, <1>5, <1>6 DEF IInv, TypeInv

LEMMA InterKeeps ==
  ASSUME IInv, Inter
  PROVE  IInv'
<1>1. Placed /\ TypeInv /\ HistoryInv /\ pic' = pic /\ pic \in Pictures
  BY DEF IInv, TypeInv, Inter
<1> DEFINE C(type, D, v, select, dmv) == [s \in D |-> Code(type, s, v[s], select, dmv)]
           M(type, D, v, select) == Macroblock("coded", type, D, v, select)
<1>2. PICK type \in Types, D \in Directions, select \in Selects :
      \E v \in [Dirs -> Meant(type) \cup {<<>>}],
         dmv \in (IF type \in DualPrime THEN {<<1, -1>>, <<-1, 1>>} ELSE {Zero}) :
        /\ \A s \in Dirs : v[s] = <<>> <=> s \notin D
        /\ MotionCall(type, D, C(type, D, v, select, dmv))
        /\ Meaning(M(type, D, v, select))
        /\ dirs' = D
  BY DEF Inter
<1>3. PICK v \in [Dirs -> Meant(type) \cup {<<>>}],
           dmv \in (IF type \in DualPrime THEN {<<1, -1>>, <<-1, 1>>} ELSE {Zero}) :
        /\ \A s \in Dirs : v[s] = <<>> <=> s \notin D
        /\ MotionCall(type, D, C(type, D, v, select, dmv))
        /\ Meaning(M(type, D, v, select))
        /\ dirs' = D
  BY <1>2
<1>4. type \in Coded
  BY DEF Types, Coded
<1>5. D \in SUBSET Dirs
  BY DEF Directions, Dirs
<1>6. dmv \in Pairs
  BY DEF Zero, Pairs
<1>7. \A s \in Dirs : v[s] # <<>> => v[s] \in Meant(type)
  OBVIOUS
<1>8. pmv' \in Predictors /\ PredictionsInside'
  <2> DEFINE c == C(type, D, v, select, dmv)
  <2>1. \A s \in D : c[s] = Code(type, s, v[s], select, dmv) /\ v[s] \in Meant(type) /\ s \in Dirs
    BY <1>3, <1>5, <1>7
  <2>2. MotionCall(type, D, c)
    BY <1>3
  <2> HIDE DEF c
  <2>3. \A s \in D : Readable(type, c[s])
    BY <1>1, <1>4, <1>6, <2>1, CodeReadable
  <2> QED BY <1>1, <1>4, <1>5, <2>2, <2>3, MotionCallKeeps
<1>9. HistoryInv' /\ address' \in Int
  <2> DEFINE m == M(type, D, v, select)
  <2>1. m.type = type /\ m.v = v
    BY DEF Macroblock
  <2>2. v \in [Dirs -> Seq(Pairs)]
    <3>1. \A w \in Meant(type) : w \in Seq(Pairs)
      BY <1>1, <1>4, MeantType
    <3>2. <<>> \in Seq(Pairs)
      OBVIOUS
    <3>3. v \in [Dirs -> Meant(type) \cup {<<>>}]
      OBVIOUS
    <3> HIDE DEF Pairs
    <3> QED BY <3>1, <3>2, <3>3
  <2>3. \A s \in Dirs : v[s] # <<>> => Leaves(m, s) \in Pairs \X Pairs
    <3> HIDE DEF m
    <3> QED BY <1>1, <1>4, <1>7, <2>1, LeavesType
  <2>4. m \in Sent
    BY <1>1, <1>4, <1>5, <2>2, <2>3, SentMacroblock DEF Kinds, AllTypes
  <2>5. Meaning(m)
    BY <1>3
  <2> HIDE DEF m
  <2> QED BY <1>1, <2>4, <2>5, MeaningKeeps DEF TypeInv
<1>10. /\ pc' \in {"idle", "macroblock", "increment", "skip"}
       /\ pc' # "idle" => Placed'
       /\ dest' \in Int
  BY <1>1, AdvanceKeeps DEF Inter
<1>11. dirs' \in SUBSET Dirs
  BY <1>3, <1>5
<1> QED BY <1>1, <1>8, <1>9, <1>10, <1>11 DEF IInv, TypeInv

\* Macroblocks that are predicted without a vector in the stream.
LEMMA WithoutVectorKeeps ==
  ASSUME IInv, Placed, pic' = pic, NEW type \in {"zero", "reuse"}, NEW D \in SUBSET Dirs,
         NEW kind \in Kinds,
         MotionCall(type, D, [s \in Dirs |-> <<>>]), Meaning(Macroblock(kind, type, D, NoVectors, <<>>))
  PROVE  pmv' \in Predictors /\ PredictionsInside' /\ HistoryInv' /\ address' \in Int
<1>1. TypeInv /\ HistoryInv /\ type \notin Coded
  BY DEF IInv, Coded
<1>2. pmv' \in Predictors /\ PredictionsInside'
  BY <1>1, MotionCallKeeps
<1>3. Macroblock(kind, type, D, NoVectors, <<>>) \in Sent
  BY <1>1, SentWithout DEF AllTypes
<1>4. HistoryInv' /\ address' \in Int
  BY <1>1, <1>3, MeaningKeeps DEF TypeInv
<1> QED BY <1>2, <1>4

LEMMA InterZeroKeeps ==
  ASSUME IInv, InterZero
  PROVE  IInv'
<1>1. Placed /\ TypeInv /\ pic' = pic /\ pic \in Pictures /\ {"f"} \in SUBSET Dirs
  BY DEF IInv, TypeInv, InterZero, Dirs
<1>2. /\ MotionCall("zero", {"f"}, [s \in Dirs |-> <<>>])
      /\ Meaning(Macroblock("zero", "zero", {"f"}, NoVectors, <<>>))
      /\ dirs' = {"f"} /\ Advance("increment")
  BY DEF InterZero
<1>3. pmv' \in Predictors /\ PredictionsInside' /\ HistoryInv' /\ address' \in Int
  BY <1>1, <1>2, WithoutVectorKeeps DEF Kinds
<1>4. /\ pc' \in {"idle", "macroblock", "increment", "skip"}
      /\ pc' # "idle" => Placed'
      /\ dest' \in Int
  BY <1>1, <1>2, AdvanceKeeps
<1> QED BY <1>1, <1>2, <1>3, <1>4 DEF IInv, TypeInv

LEMMA SkipKeeps ==
  ASSUME IInv, Skip
  PROVE  IInv'
<1>1. Placed /\ TypeInv /\ pic' = pic /\ pic \in Pictures /\ dirs' = dirs /\ dirs \in SUBSET Dirs
  BY DEF IInv, TypeInv, Skip
<1>2. pmv' \in Predictors /\ PredictionsInside' /\ HistoryInv' /\ address' \in Int
  <2>1. CASE pic.type = "P"
    <3>1. /\ MotionCall("zero", {"f"}, [s \in Dirs |-> <<>>])
          /\ Meaning(Macroblock("skipped", "zero", {"f"}, NoVectors, <<>>))
      BY <2>1 DEF Skip
    <3>2. {"f"} \in SUBSET Dirs
      BY DEF Dirs
    <3> QED BY <1>1, <3>1, <3>2, WithoutVectorKeeps DEF Kinds
  <2>2. CASE pic.type # "P"
    <3>1. /\ MotionCall("reuse", dirs, [s \in Dirs |-> <<>>])
          /\ Meaning(Macroblock("skipped", "reuse", dirs, NoVectors, <<>>))
      BY <2>2 DEF Skip
    <3> QED BY <1>1, <3>1, WithoutVectorKeeps DEF Kinds
  <2> QED BY <2>1, <2>2
<1>3. /\ pc' \in {"idle", "macroblock", "increment", "skip"}
      /\ pc' # "idle" => Placed'
      /\ dest' \in Int
  <2>1. PICK then \in {"macroblock", "skip"} : Advance(then)
    BY DEF Skip
  <2> QED BY <1>1, <2>1, AdvanceKeeps
<1> QED BY <1>1, <1>2, <1>3 DEF IInv, TypeInv

\* Steps that leave the last macroblock, or its reads, alone.
LEMMA SameKeeps ==
  ASSUME IInv, UNCHANGED <<pic, history, last>>
  PROVE  HistoryInv' /\ PredictionsInside'
<1>1. \A s \in Dirs : Setters(s)' = Setters(s)
  BY DEF Setters, Resets
<1>2. HistoryInv'
  BY <1>1 DEF IInv, HistoryInv, HasLast
<1>3. \A k : InPlane(k) => InPlane(k)'
  BY DEF InPlane, PicHeight
<1> QED BY <1>2, <1>3 DEF IInv, PredictionsInside

LEMMA IncrementKeeps ==
  ASSUME IInv, Increment
  PROVE  IInv'
<1>1. TypeInv /\ Placed /\ UNCHANGED <<pic, position, pmv, dirs, address, history, last>>
  BY DEF IInv, TypeInv, Increment
<1>2. Placed' /\ pc' \in {"macroblock", "skip"}
  BY <1>1 DEF Placed, position, LimitY, PicHeight, Increment
<1>3. TypeInv'
  BY <1>1, <1>2 DEF TypeInv, position
<1>4. HistoryInv' /\ PredictionsInside'
  BY <1>1, SameKeeps
<1> QED BY <1>3, <1>4 DEF IInv

LEMMA EndOfSliceKeeps ==
  ASSUME IInv, EndOfSlice
  PROVE  IInv'
<1>1. TypeInv'
  BY DEF IInv, TypeInv, EndOfSlice, position
<1> QED BY <1>1, NewHistoryKeeps DEF EndOfSlice, IInv

LEMMA InitFbufKeeps ==
  ASSUME IInv, InitFbuf
  PROVE  IInv'
<1>1. TypeInv'
  BY DEF IInv, TypeInv, InitFbuf, position
<1> QED BY <1>1, NewHistoryKeeps DEF InitFbuf, IInv

\* The positions, predictors and meanings stay what they are taken to be, and
\* each block is read inside its plane: what the next lemmas need of a state.
LEMMA Initially ==
  ASSUME Init
  PROVE  IInv
<1>1. TypeInv
  BY DEF Init, TypeInv, Predictors, Pairs, Zero, Dirs
<1>2. history = <<>> /\ last.reads = {}
  BY DEF Init
<1>3. \A s \in Dirs : Setters(s) = {}
  BY <1>2 DEF Setters
<1> QED BY <1>1, <1>2, <1>3 DEF IInv, HistoryInv, HasLast, PredictionsInside

LEMMA Inductive ==
  ASSUME IInv, [Next]_vars
  PROVE  IInv'
<1>1. CASE InitFbuf
  BY <1>1, InitFbufKeeps
<1>2. CASE \E code \in 1 .. PicHeight \div 16 + 1, increment \in 0 .. MaxMacroblocks - 1 :
             SliceInit(code, increment)
  BY <1>2, SliceInitKeeps
<1>3. CASE Intra
  BY <1>3, IntraKeeps
<1>4. CASE Inter
  BY <1>4, InterKeeps
<1>5. CASE InterZero
  BY <1>5, InterZeroKeeps
<1>6. CASE Increment
  BY <1>6, IncrementKeeps
<1>7. CASE Skip
  BY <1>7, SkipKeeps
<1>8. CASE EndOfSlice
  BY <1>8, EndOfSliceKeeps
<1>9. CASE UNCHANGED vars
  <2>1. UNCHANGED <<pc, pic, offset, v_offset, dest, pmv, dirs, address, history, last>>
    BY <1>9 DEF vars, position
  <2>2. TypeInv'
    BY <2>1 DEF IInv, TypeInv, Placed, LimitY, PicHeight
  <2> QED BY <2>1, <2>2, SameKeeps DEF IInv
<1> QED BY <1>1, <1>2, <1>3, <1>4, <1>5, <1>6, <1>7, <1>8, <1>9 DEF Next

-----------------------------------------------------------------------------
\* For every size of the picture, every range of the vectors and every vector
\* the sender may send, the blocks that MOTION, MOTION_FIELD and the other
\* macros of slice.c read lie inside the planes of the reference picture.
THEOREM ReadsInside == Spec => []PredictionsInside
<1>1. Init => IInv
  BY Initially
<1>2. IInv /\ [Next]_vars => IInv'
  BY Inductive
<1>3. IInv => PredictionsInside
  BY DEF IInv
<1> QED BY <1>1, <1>2, <1>3, PTL DEF Spec

-----------------------------------------------------------------------------
(* The place of each macroblock *)

\* A macroblock is where its address says.
InPlace(m) ==
  LET row == m.address \div (Width \div 16)
  IN  /\ m.at = [dest |-> 16 * row, v_offset |-> 16 * row,
                 offset |-> 16 * (m.address % (Width \div 16))]
      /\ row < PicHeight \div 16

\* So is the next one, while the slice goes on.
PlaceInv ==
  /\ pc # "idle" => /\ dest = v_offset
                    /\ address = (v_offset \div 16) * (Width \div 16) + offset \div 16
  /\ \A i \in DOMAIN history : InPlace(history[i])

LEMMA Division ==
  ASSUME NEW W \in Nat \ {0}, NEW row \in Int, NEW col \in 0 .. W - 1, NEW n, n = row * W + col
  PROVE  n \div W = row /\ n % W = col
<1>1. n \in Int
  <2>1. row * W \in Int
    OBVIOUS
  <2> QED BY <2>1
<1>2. PICK q \in Int, r \in 0 .. W - 1 : n = W * q + r /\ n \div W = q /\ n % W = r
  <2>1. n = W * (n \div W) + (n % W) /\ n \div W \in Int /\ n % W \in 0 .. W - 1
    BY <1>1
  <2> QED BY <2>1
<1>3. PICK d \in Int : d = q - row
  OBVIOUS
<1>4. W * d = col - r
  BY <1>2, <1>3
<1>5. d = 0
  <2>1. d >= 1 => W * d >= W
    OBVIOUS
  <2>2. d <= -1 => W * d <= -W
    OBVIOUS
  <2> QED BY <1>4, <2>1, <2>2
<1>6. q = row
  BY <1>3, <1>5
<1>7. r = col
  BY <1>4, <1>5
<1> QED BY <1>2, <1>6, <1>7

\* Where the macroblock at the current address belongs.
LEMMA Here ==
  ASSUME Placed, pic \in Pictures, address = (v_offset \div 16) * (Width \div 16) + offset \div 16
  PROVE  /\ 16 * (address \div (Width \div 16)) = v_offset
         /\ 16 * (address % (Width \div 16)) = offset
         /\ address \div (Width \div 16) < PicHeight \div 16
<1> DEFINE W == Width \div 16
           row == v_offset \div 16
           col == offset \div 16
<1>1. W \in Nat \ {0} /\ Width = 16 * W
  BY SliceAssumption
<1>2. row \in Int /\ 16 * row = v_offset
  BY DEF Placed
<1>3. col \in 0 .. W - 1 /\ 16 * col = offset
  BY <1>1 DEF Placed
<1>4. row < PicHeight \div 16
  BY <1>2, Heights DEF Placed, LimitY
<1> HIDE DEF W, row, col
<1>5. address = row * W + col
  BY DEF W, row, col
<1>6. address \div W = row /\ address % W = col
  BY <1>1, <1>2, <1>3, <1>5, Division
<1> QED BY <1>2, <1>3, <1>4, <1>6 DEF W

\* A macroblock is decoded and the slice goes on to the next.
LEMMA MeaningInPlace ==
  ASSUME IInv, PlaceInv, pc # "idle", pic' = pic, NEW then, NEW m, Meaning(m), Advance(then),
         m.address = address, m.at = [dest |-> dest, v_offset |-> v_offset, offset |-> offset]
  PROVE  PlaceInv'
<1>1. /\ Placed /\ pic \in Pictures /\ dest = v_offset /\ address \in Int /\ dest \in Int
      /\ address = (v_offset \div 16) * (Width \div 16) + offset \div 16
  BY DEF IInv, TypeInv, PlaceInv
<1>2. InPlace(m)
  <2> DEFINE row == address \div (Width \div 16)
             col == address % (Width \div 16)
  <2>1. 16 * row = v_offset /\ 16 * col = offset /\ row < PicHeight \div 16
    BY <1>1, Here
  <2> HIDE DEF row, col
  <2>2. m.at = [dest |-> 16 * row, v_offset |-> 16 * row, offset |-> 16 * col]
    BY <1>1, <2>1
  <2> QED BY <2>1, <2>2 DEF InPlace, row, col
<1>3. (\A i \in DOMAIN history : InPlace(history[i]))'
  <2>1. history' = Append(history, m) /\ history \in Seq(Sent)
    BY DEF Meaning, IInv, HistoryInv
  <2>2. DOMAIN history' = 1 .. Len(history) + 1 /\ DOMAIN history = 1 .. Len(history)
    BY <2>1
  <2>3. history'[Len(history) + 1] = m /\ \A i \in 1 .. Len(history) : history'[i] = history[i]
    BY <2>1
  <2>4. \A i \in DOMAIN history' : InPlace(history'[i])
    <3>1. \A i \in 1 .. Len(history) : InPlace(history'[i])
      BY <2>2, <2>3 DEF PlaceInv
    <3>2. \A i \in 1 .. Len(history) + 1 : i \in 1 .. Len(history) \/ i = Len(history) + 1
      BY <2>1
    <3> QED BY <1>2, <2>2, <2>3, <3>1, <3>2
  <2>5. PicHeight' = PicHeight
    BY DEF PicHeight
  <2> QED BY <2>4, <2>5 DEF InPlace
<1>4. ASSUME pc' # "idle"
      PROVE  /\ dest' = v_offset'
             /\ address' = (v_offset' \div 16) * (Width \div 16) + offset' \div 16
  <2> DEFINE W == Width \div 16
  <2>1. W \in Nat \ {0} /\ Width = 16 * W /\ address' = address + 1
    BY SliceAssumption DEF Meaning
  <2>2. CASE offset + 16 # Width
    <3>1. offset' \div 16 = offset \div 16 + 1 /\ v_offset' = v_offset /\ dest' = dest
      BY <1>1, <2>2 DEF Advance, Placed
    <3>2. (v_offset \div 16) * W \in Int
      BY <1>1, <2>1 DEF Placed
    <3> HIDE DEF W
    <3> QED BY <1>1, <2>1, <3>1, <3>2 DEF W, Placed
  <2>3. CASE offset + 16 = Width
    <3>1. /\ offset' = 0 /\ v_offset' = v_offset + 16 /\ dest' = dest + 16
      BY <1>4, <2>3 DEF Advance
    <3>2. offset \div 16 = W - 1 /\ v_offset' \div 16 = v_offset \div 16 + 1
      BY <1>1, <2>1, <2>3, <3>1 DEF Placed
    <3> DEFINE row == v_offset \div 16
    <3>3. row \in Int
      BY <1>1 DEF Placed
    <3> HIDE DEF W, row
    <3>4. address = row * W + (W - 1) /\ v_offset' \div 16 = row + 1
      BY <1>1, <3>2 DEF W, row
    <3>5. (row + 1) * W = row * W + W
      BY <2>1, <3>3
    <3>6. address' = (row + 1) * W
      BY <1>1, <2>1, <3>3, <3>4, <3>5
    <3>7. address' = (v_offset' \div 16) * W + 0
      BY <2>1, <3>3, <3>4, <3>6
    <3> QED BY <1>1, <3>1, <3>7 DEF W
  <2> QED BY <2>2, <2>3
<1> QED BY <1>3, <1>4 DEF PlaceInv

LEMMA SliceInitInPlace ==
  ASSUME IInv, NEW code \in 1 .. PicHeight \div 16 + 1, NEW increment \in 0 .. MaxMacroblocks - 1,
         SliceInit(code, increment)
  PROVE  PlaceInv'
<1>1. PICK rows \in 0 .. increment :
        /\ offset' = 16 * increment - rows * Width
        /\ v_offset' = 16 * (code - 1) + 16 * rows
        /\ dest' = 16 * (code - 1) + 16 * rows
  BY DEF SliceInit
<1>2. code \in Int /\ increment \in Int /\ rows \in Int
  BY Heights, SliceAssumption DEF IInv, TypeInv
<1> DEFINE W == Width \div 16
<1>3. W \in Nat /\ Width = 16 * W
  BY SliceAssumption
<1>4. address' = (code - 1) * W + increment
  BY DEF SliceInit
<1> HIDE DEF W
<1>5. PICK n \in Int : n = rows * W
  BY <1>2, <1>3
<1>6. rows * Width = 16 * n
  BY <1>2, <1>3, <1>5
<1>7. offset' = 16 * (increment - n)
  BY <1>1, <1>2, <1>5, <1>6
<1>8. offset' \div 16 = increment - n /\ v_offset' \div 16 = (code - 1) + rows
  BY <1>1, <1>2, <1>5, <1>7
<1>9. ((code - 1) + rows) * W = (code - 1) * W + n
  BY <1>2, <1>3, <1>5
<1>10. PICK k \in Int : k = (code - 1) * W
  BY <1>2, <1>3
<1>11. address' = (k + n) + (increment - n)
  BY <1>2, <1>4, <1>5, <1>10
<1>12. (v_offset' \div 16) * W = k + n
  BY <1>8, <1>9, <1>10
<1>13. address' = (v_offset' \div 16) * W + offset' \div 16
  BY <1>8, <1>11, <1>12
<1>14. history' = <<>>
  BY DEF SliceInit, NewHistory
<1> QED BY <1>1, <1>13, <1>14 DEF PlaceInv, W

LEMMA PlaceInductive ==
  ASSUME IInv, PlaceInv, [Next]_vars
  PROVE  PlaceInv'
<1> DEFINE At(m) == /\ m.address = address
                    /\ m.at = [dest |-> dest, v_offset |-> v_offset, offset |-> offset]
<1>0. \A kind, type, D, v, select : At(Macroblock(kind, type, D, v, select))
  BY DEF Macroblock
<1>1. CASE InitFbuf \/ EndOfSlice
  <2>1. history' = <<>> /\ pc' = "idle"
    BY <1>1 DEF InitFbuf, EndOfSlice, NewHistory
  <2> QED BY <2>1 DEF PlaceInv
<1>2. CASE \E code \in 1 .. PicHeight \div 16 + 1, increment \in 0 .. MaxMacroblocks - 1 :
             SliceInit(code, increment)
  BY <1>2, SliceInitInPlace
<1>3. CASE Intra
  <2> HIDE DEF At
  <2>1. PICK m : At(m) /\ Meaning(m)
    <3>1. CASE ~pic.conceal
      BY <1>0, <1>3, <3>1 DEF Intra
    <3>2. CASE pic.conceal
      <4>1. PICK v \in Vectors : Meaning(Macroblock("conceal", "none", {}, [NoVectors EXCEPT !["f"] = <<v>>], <<>>))
        BY <1>3, <3>2 DEF Intra
      <4> QED BY <1>0, <4>1
    <3> QED BY <3>1, <3>2
  <2>2. Advance("increment") /\ pc # "idle" /\ pic' = pic
    BY <1>3 DEF Intra
  <2> QED BY <2>1, <2>2, MeaningInPlace DEF At
<1>4. CASE Inter
  <2>1. PICK m : At(m) /\ Meaning(m)
    BY <1>0, <1>4 DEF Inter
  <2> QED BY <1>4, <2>1, MeaningInPlace DEF Inter
<1>5. CASE InterZero
  <2>1. PICK m : At(m) /\ Meaning(m)
    BY <1>0, <1>5 DEF InterZero
  <2> QED BY <1>5, <2>1, MeaningInPlace DEF InterZero
<1>6. CASE Skip
  <2>1. PICK m : At(m) /\ Meaning(m)
    BY <1>0, <1>6 DEF Skip
  <2> QED BY <1>6, <2>1, MeaningInPlace DEF Skip
<1>7. CASE Increment \/ UNCHANGED vars
  <2>1. UNCHANGED <<pic, offset, v_offset, dest, address, history>> /\ (pc' # "idle" => pc # "idle")
    BY <1>7 DEF Increment, vars, position
  <2> QED BY <2>1 DEF PlaceInv, InPlace, PicHeight
<1> QED BY <1>1, <1>2, <1>3, <1>4, <1>5, <1>6, <1>7 DEF Next

\* For every size of the picture, each macroblock of a slice is decoded and
\* predicted at its address: slice_init and NEXT_MACROBLOCK keep the pointer,
\* the position and the address in step over rows and skipped macroblocks, and
\* stop before the end of the picture is passed.
THEOREM InPlaceAlways == Spec => []MacroblocksInPlace
<1>1. Init => IInv /\ PlaceInv
  BY Initially DEF Init, PlaceInv
<1>2. IInv /\ PlaceInv /\ [Next]_vars => (IInv /\ PlaceInv)'
  BY Inductive, PlaceInductive
<1>3. PlaceInv => MacroblocksInPlace
  BY DEF PlaceInv, InPlace, MacroblocksInPlace
<1> QED BY <1>1, <1>2, <1>3, PTL DEF Spec

-----------------------------------------------------------------------------
(* Decoder and sender agree *)

\* A vector that can be sent.
Ranged(v) ==
  \A i \in 1 .. 2 : -pic.half[i] <= v[i] /\ v[i] < pic.half[i] /\ v[i] % pic.unit = 0

\* In a slice, both hold the same predictors; those of the other direction
\* are not used in a P picture.
PredictorInv ==
  pc # "idle" \/ history # <<>> =>
    /\ PredictorsKept
    /\ pic.type = "P" => pmv["b"] = <<Zero, Zero>>
    /\ \A s \in Dirs, r \in 1 .. 2 : Ranged(Predictor(s, r))

\* The predictor of the DC coefficients is the macroblock before, if intra.
DCInv ==
  LET m == history[Len(history)]
  IN  /\ pc = "skip" => dc = None
      /\ pc \in {"macroblock", "increment"} =>
           dc = IF history # <<>> /\ m.kind \in {"intra", "conceal"} THEN m.address ELSE None

AgreeInv == PredictorInv /\ DCInv /\ DecodedAsMeant

-----------------------------------------------------------------------------
(* Differences of vectors, modulo their range *)

\* Bound finds the vector of the range.
LEMMA BoundUnique ==
  ASSUME NEW half \in Nat \ {0}, NEW v \in Int, -half <= v, v < half, NEW q \in Int
  PROVE  Bound(v - 2 * half * q, half) = v
<1> DEFINE W == 2 * half
           row == -q
           col == v + half
<1>1. W \in Nat \ {0} /\ row \in Int /\ col \in 0 .. W - 1
  OBVIOUS
<1>2. PICK n \in Int : n = half * q
  OBVIOUS
<1>3. 2 * half * q = 2 * n /\ row * W = -(2 * n)
  BY <1>2
<1>4. v - 2 * half * q + half = row * W + col
  BY <1>2, <1>3
<1> HIDE DEF W, row, col
<1>5. (v - 2 * half * q + half) % W = col
  BY <1>1, <1>4, Division
<1> QED BY <1>5 DEF Bound, W, col

LEMMA BoundWithin ==
  ASSUME NEW half \in Nat \ {0}, NEW n \in Int
  PROVE  \E q \in Int : Bound(n, half) = n - 2 * half * q
<1> DEFINE W == 2 * half
<1>1. W \in Nat \ {0} /\ n + half \in Int
  OBVIOUS
<1>2. (n + half) % W = (n + half) - W * ((n + half) \div W) /\ (n + half) \div W \in Int
  <2> HIDE DEF W
  <2> QED BY <1>1
<1>3. PICK q \in Int : q = (n + half) \div W
  BY <1>2
<1>4. Bound(n, half) = (n + half) - W * q - half
  BY <1>2, <1>3 DEF Bound
<1>5. PICK k \in Int : k = half * q
  OBVIOUS
<1>6. W * q = 2 * k /\ 2 * half * q = 2 * k
  BY <1>5
<1>7. Bound(n, half) = n - 2 * half * q
  BY <1>4, <1>5, <1>6
<1> QED BY <1>7

\* A difference in the stream, added to the same prediction, is the vector.
LEMMA DifferenceAdded ==
  ASSUME NEW s, NEW r, NEW c, NEW i, pic.half[i] \in Nat \ {0}, pic.unit \in {1, 2}, pic.half[i] % pic.unit = 0,
         NEW v, v[i] \in Int, v[i] % pic.unit = 0, -pic.half[i] <= v[i], v[i] < pic.half[i],
         pmv[s][r][i] \in Int, pmv[s][r][i] % pic.unit = 0,
         c.delta[r][i] = Bound((v[i] - pmv[s][r][i]) \div pic.unit, pic.half[i] \div pic.unit)
  PROVE  Added(s, r, c, i) = v[i]
<1> DEFINE half == pic.half[i]
           unit == pic.unit
           a == v[i]
           p == pmv[s][r][i]
           g == half \div unit
           d == (a - p) \div unit
<1>1. half \in Nat \ {0} /\ unit \in {1, 2} /\ a \in Int /\ p \in Int /\ -half <= a /\ a < half
  OBVIOUS
<1>2. g \in Nat \ {0} /\ d \in Int /\ half = unit * g /\ a - p = unit * d
  <2>1. half % unit = 0 /\ a % unit = 0 /\ p % unit = 0
    OBVIOUS
  <2> HIDE DEF half, unit, a, p
  <2>2. CASE unit = 1
    BY <1>1, <2>2
  <2>3. CASE unit = 2
    BY <1>1, <2>1, <2>3
  <2>4. unit = 1 \/ unit = 2
    BY <1>1
  <2> QED BY <2>2, <2>3, <2>4
<1>3. c.delta[r][i] = Bound(d, g) /\ Added(s, r, c, i) = Bound(p + unit * c.delta[r][i], half)
  BY DEF Added
<1> HIDE DEF half, unit, a, p, g, d
<1>4. PICK q \in Int : Bound(d, g) = d - 2 * g * q
  BY <1>2, BoundWithin
<1>5. p + unit * Bound(d, g) = a - 2 * half * q
  <2>1. PICK n \in Int : n = g * q
    BY <1>2
  <2>2. 2 * g * q = 2 * n
    BY <1>2, <2>1
  <2>3. half * q = unit * n
    <3>1. CASE unit = 1
      BY <1>2, <2>1, <3>1
    <3>2. CASE unit = 2
      BY <1>2, <2>1, <3>2
    <3> QED BY <1>1, <3>1, <3>2
  <2>4. 2 * half * q = 2 * (half * q)
    BY <1>1
  <2>5. unit * Bound(d, g) = unit * d - 2 * (unit * n)
    <3>1. CASE unit = 1
      BY <1>2, <1>4, <2>1, <2>2, <3>1
    <3>2. CASE unit = 2
      BY <1>2, <1>4, <2>1, <2>2, <3>2
    <3> QED BY <1>1, <3>1, <3>2
  <2>6. PICK m \in Int : m = unit * n
    BY <1>1
  <2>7. 2 * half * q = 2 * m
    BY <2>3, <2>4, <2>6
  <2>8. unit * Bound(d, g) = (a - p) - 2 * m
    BY <1>2, <2>5, <2>6
  <2> QED BY <1>1, <2>7, <2>8
<1>6. Bound(a - 2 * half * q, half) = a
  BY <1>1, BoundUnique
<1> QED BY <1>3, <1>5, <1>6 DEF a

LEMMA BoundSmall ==
  ASSUME NEW half \in Nat \ {0}, NEW v \in Int, -half <= v, v < half
  PROVE  Bound(v, half) = v
<1>1. PICK z \in Int : z = 0
  OBVIOUS
<1>2. Bound(v - 2 * half * z, half) = v
  BY BoundUnique
<1>3. v - 2 * half * z = v
  BY <1>1
<1> QED BY <1>2, <1>3

-----------------------------------------------------------------------------
(* The vectors of a macroblock *)

InField == {"fr_field", "fr_dmv"}

LEMMA HeaderFacts ==
  ASSUME pic \in Pictures
  PROVE  /\ pic.unit \in {1, 2} /\ (~pic.mpeg1 => pic.unit = 1)
         /\ \A i \in 1 .. 2 : pic.half[i] \in Nat \ {0} /\ pic.half[i] % pic.unit = 0 /\ pic.half[i] % 2 = 0
  BY SliceAssumption, HeaderAssumption

\* What the sender may mean: vectors in the range, those of a field half of it.
LEMMA VectorRange ==
  ASSUME pic \in Pictures, NEW v \in Vectors
  PROVE  /\ pic.unit = 1 => Ranged(v) /\ Ranged(<<v[1], 2 * (v[2] \div 2)>>)
         /\ Ranged(<<pic.unit * v[1], pic.unit * v[2]>>)
<1>1. v[1] \in Int /\ v[2] \in Int
  BY SliceAssumption
<1>2. \A i \in 1 .. 2 : -pic.half[i] <= pic.unit * v[i] /\ pic.unit * v[i] < pic.half[i]
  BY HeaderAssumption
<1>3. \A i \in 1 .. 2 : (pic.unit * v[i]) % pic.unit = 0
  <2>1. CASE pic.unit = 1
    BY <1>1, <2>1
  <2>2. CASE pic.unit = 2
    BY <1>1, <2>2
  <2> QED BY <2>1, <2>2, HeaderFacts
<1>4. ASSUME pic.unit = 1
      PROVE  Ranged(v) /\ Ranged(<<v[1], 2 * (v[2] \div 2)>>)
  <2>1. \A i \in 1 .. 2 : -pic.half[i] <= v[i] /\ v[i] < pic.half[i]
    BY <1>1, <1>2, <1>4
  <2>2. Ranged(v)
    BY <1>1, <1>4, <2>1 DEF Ranged
  <2> DEFINE y == 2 * (v[2] \div 2)
  <2>3. y \in Int /\ -pic.half[2] <= y /\ y < pic.half[2]
    BY <1>1, <2>1, HeaderFacts
  <2> HIDE DEF y
  <2>4. Ranged(<<v[1], y>>)
    <3>1. \A i \in 1 .. 2 : <<v[1], y>>[i] = (IF i = 1 THEN v[1] ELSE y)
      OBVIOUS
    <3> QED BY <1>1, <1>4, <2>1, <2>3, <3>1 DEF Ranged
  <2> QED BY <2>2, <2>4 DEF y
<1>5. Ranged(<<pic.unit * v[1], pic.unit * v[2]>>)
  <2>1. \A i \in 1 .. 2 : <<pic.unit * v[1], pic.unit * v[2]>>[i] = pic.unit * v[i]
    OBVIOUS
  <2> QED BY <1>2, <1>3, <2>1 DEF Ranged
<1> QED BY <1>4, <1>5

\* What the vectors of one direction are, by the type of the macroblock.
Sendable(type, v) ==
  v \in Pairs /\ Ranged(IF type \in InField THEN InFrame(v) ELSE v)

LEMMA MeantSendable ==
  ASSUME pic \in Pictures, NEW type \in Types, NEW w \in Meant(type)
  PROVE  /\ type \in TwoVectors => w = <<w[1], w[2]>> /\ Sendable(type, w[2])
         /\ type \notin TwoVectors => w = <<w[1]>>
         /\ DOMAIN w = (IF type \in TwoVectors THEN {1, 2} ELSE {1})
         /\ Sendable(type, w[1])
<1>1. /\ type \in Coded /\ type # "none"
      /\ type # "mp1" => pic.unit = 1
  BY HeaderFacts DEF Types, Coded
<1>2. \A v \in Vectors : v[1] \in Int /\ v[2] \in Int /\ v \in Pairs
  BY SliceAssumption DEF Pairs
<1>3. CASE type = "fr_field"
  <2> DEFINE field(v) == <<v[1], v[2] \div 2>>
  <2>1. \A v \in Vectors : Sendable(type, field(v))
    <3> TAKE v \in Vectors
    <3>1. field(v) \in Pairs /\ InFrame(field(v)) = <<v[1], 2 * (v[2] \div 2)>>
      BY <1>2 DEF InFrame, Pairs
    <3>2. Ranged(<<v[1], 2 * (v[2] \div 2)>>)
      BY <1>1, <1>3, VectorRange
    <3> QED BY <1>3, <3>1, <3>2 DEF Sendable, InField
  <2>2. Meant(type) = {<<field(p[1]), field(p[2])>> : p \in Vectors \X Vectors}
    BY <1>3 DEF Meant
  <2> HIDE DEF field
  <2>3. PICK p \in Vectors \X Vectors : w = <<field(p[1]), field(p[2])>>
    BY <2>2
  <2>4. w[1] = field(p[1]) /\ w[2] = field(p[2]) /\ DOMAIN w = {1, 2}
    BY <2>3
  <2> QED BY <1>3, <2>1, <2>3, <2>4 DEF TwoVectors
<1>4. CASE type = "fi_16x8"
  <2>1. \A v \in Vectors : Sendable(type, v)
    BY <1>1, <1>2, <1>4, VectorRange DEF Sendable, InField
  <2>2. w \in Vectors \X Vectors
    BY <1>4 DEF Meant
  <2>3. w = <<w[1], w[2]>> /\ w[1] \in Vectors /\ w[2] \in Vectors /\ DOMAIN w = {1, 2}
    BY <2>2
  <2> QED BY <1>4, <2>1, <2>3 DEF TwoVectors
<1>5. CASE type = "mp1"
  <2> DEFINE scaled(v) == <<pic.unit * v[1], pic.unit * v[2]>>
  <2>1. \A v \in Vectors : Sendable(type, scaled(v))
    <3> TAKE v \in Vectors
    <3>1. pic.unit * v[1] \in Int /\ pic.unit * v[2] \in Int
      BY <1>2, HeaderFacts
    <3> QED BY <1>5, <3>1, VectorRange DEF Sendable, InField, Pairs
  <2>2. Meant(type) = {<<scaled(v)>> : v \in Vectors}
    BY <1>5 DEF Meant
  <2> HIDE DEF scaled
  <2>3. PICK v \in Vectors : w = <<scaled(v)>>
    BY <2>2
  <2>4. w[1] = scaled(v) /\ DOMAIN w = {1}
    BY <2>3
  <2> QED BY <1>5, <2>1, <2>3, <2>4 DEF TwoVectors
<1>6. CASE type = "fr_dmv"
  <2> DEFINE field(v) == <<v[1], v[2] \div 2>>
  <2>1. \A v \in Vectors : Sendable(type, field(v))
    <3> TAKE v \in Vectors
    <3>1. field(v) \in Pairs /\ InFrame(field(v)) = <<v[1], 2 * (v[2] \div 2)>>
      BY <1>2 DEF InFrame, Pairs
    <3>2. Ranged(<<v[1], 2 * (v[2] \div 2)>>)
      BY <1>1, <1>6, VectorRange
    <3> QED BY <1>6, <3>1, <3>2 DEF Sendable, InField
  <2>2. Meant(type) = {<<field(v)>> : v \in Vectors}
    BY <1>6 DEF Meant
  <2> HIDE DEF field
  <2>3. PICK v \in Vectors : w = <<field(v)>>
    BY <2>2
  <2>4. w[1] = field(v) /\ DOMAIN w = {1}
    BY <2>3
  <2> QED BY <1>6, <2>1, <2>3, <2>4 DEF TwoVectors
<1>7. CASE type \in {"fr_frame", "fi_field", "fi_dmv"}
  <2>1. \A v \in Vectors : Sendable(type, v)
    BY <1>1, <1>2, <1>7, VectorRange DEF Sendable, InField
  <2>2. PICK v \in Vectors : w = <<v>>
    BY <1>7 DEF Meant
  <2>3. w[1] = v /\ DOMAIN w = {1}
    BY <2>2
  <2> QED BY <1>7, <2>1, <2>2, <2>3 DEF TwoVectors
<1> QED BY <1>1, <1>3, <1>4, <1>5, <1>6, <1>7 DEF Coded

\* The decoder finds the vector that the sender made a difference of.
LEMMA VectorDecoded ==
  ASSUME pic \in Pictures, NEW type, type \in InField => pic.unit = 1, NEW s \in Dirs, NEW r \in 1 .. 2,
         NEW v, Sendable(type, v), NEW c, c.delta[r] = Difference(type, s, r, v),
         pmv[s][r] = Predictor(s, r), Predictor(s, r) \in Pairs, Ranged(Predictor(s, r))
  PROVE  v = IF type \in InField THEN FieldVector(s, r, c) ELSE Vector(s, r, c)
<1> DEFINE p == Predictor(s, r)
           in(d, half) == Bound(d \div pic.unit, half \div pic.unit)
<1>1. p[1] \in Int /\ p[2] \in Int /\ v[1] \in Int /\ v[2] \in Int /\ v = <<v[1], v[2]>>
  BY DEF Pairs, Sendable
<1>2. pmv[s][r] = p /\ Ranged(p)
  OBVIOUS
<1>3. c.delta[r] = <<in(v[1] - p[1], pic.half[1]),
                     in(v[2] - (IF type \in InField THEN p[2] \div 2 ELSE p[2]), pic.half[2])>>
  BY DEF Difference, InField
<1> HIDE DEF p
<1>4. ASSUME NEW i \in 1 .. 2, c.delta[r][i] = in(v[i] - p[i], pic.half[i]),
             -pic.half[i] <= v[i], v[i] < pic.half[i], v[i] % pic.unit = 0
      PROVE  Added(s, r, c, i) = v[i]
  <2>1. v[i] \in Int /\ p[i] \in Int /\ p[i] % pic.unit = 0
    BY <1>1, <1>2 DEF Ranged
  <2>2. pic.half[i] \in Nat \ {0} /\ pic.half[i] % pic.unit = 0 /\ pic.unit \in {1, 2}
    BY HeaderFacts
  <2>3. pmv[s][r][i] = p[i]
    BY <1>2
  <2> QED BY <1>4, <2>1, <2>2, <2>3, DifferenceAdded
<1>5. CASE type \notin InField
  <2>1. Ranged(v)
    BY <1>5 DEF Sendable
  <2>2. \A i \in 1 .. 2 : c.delta[r][i] = in(v[i] - p[i], pic.half[i])
    BY <1>3, <1>5
  <2> HIDE DEF in
  <2>3. \A i \in 1 .. 2 : Added(s, r, c, i) = v[i]
    BY <1>4, <2>1, <2>2 DEF Ranged
  <2> QED BY <1>1, <1>5, <2>3 DEF Vector
<1>6. CASE type \in InField
  <2>1. Ranged(InFrame(v)) /\ pic.unit = 1
    BY <1>6 DEF Sendable
  <2>2. /\ -pic.half[1] <= v[1] /\ v[1] < pic.half[1] /\ v[1] % pic.unit = 0
        /\ -pic.half[2] <= 2 * v[2] /\ 2 * v[2] < pic.half[2]
    BY <2>1 DEF Ranged, InFrame
  <2>3. c.delta[r][1] = in(v[1] - p[1], pic.half[1]) /\ c.delta[r][2] = in(v[2] - p[2] \div 2, pic.half[2])
    BY <1>3, <1>6
  <2>4. Added(s, r, c, 1) = v[1]
    <3> HIDE DEF in
    <3> QED BY <1>4, <2>2, <2>3
  <2>5. -pic.half[2] <= p[2] /\ p[2] < pic.half[2]
    BY <1>2 DEF Ranged
  <2>6. pic.half[2] \in Nat \ {0} /\ pic.half[2] % 2 = 0
    BY HeaderFacts
  <2> DEFINE y == v[2] - p[2] \div 2
  <2>7. y \in Int /\ -pic.half[2] <= y /\ y < pic.half[2]
    BY <1>1, <2>2, <2>5, <2>6
  <2>8. y \div 1 = y /\ pic.half[2] \div 1 = pic.half[2]
    BY <2>6, <2>7
  <2>9. p[2] \div 2 + y = v[2]
    BY <1>1
  <2>10. c.delta[r][2] = Bound(y \div pic.unit, pic.half[2] \div pic.unit)
    BY <2>3
  <2> HIDE DEF y
  <2>11. c.delta[r][2] = y
    BY <2>1, <2>6, <2>7, <2>8, <2>10, BoundSmall
  <2>12. FieldVector(s, r, c) = v
    BY <1>1, <1>2, <2>4, <2>9, <2>11 DEF FieldVector
  <2> QED BY <1>6, <2>12
<1> QED BY <1>5, <1>6

-----------------------------------------------------------------------------
(* The fields that are read *)

FieldOf(k) == <<k.ref.frame, IF k.step = 2 THEN k.y % 2 = 1 ELSE k.ref.bottom, k.part>>
FieldsIn(reads) == {FieldOf(k) : k \in reads}

\* Whether the field is the bottom one: that of the picture, the other, a selected one.
Own == pic.structure = "bottom"
Opposite == pic.structure # "bottom"
Bottom(select) == select = 1

Field(frame, bottom, part) == {<<frame, bottom, part>>}

LEMMA MotionFields ==
  ASSUME NEW ref, NEW v, NEW size, NEW y
  PROVE  FieldsIn(Motion(ref, v, size, y)) = Field(ref.frame, ref.bottom, y)
<1>1. ASSUME NEW k \in Motion(ref, v, size, y)
      PROVE  k.ref = ref /\ k.part = y /\ k.step = 1
  BY DEF Motion, Luma, Chroma
<1>2. \A k \in Motion(ref, v, size, y) : FieldOf(k) = <<ref.frame, ref.bottom, y>>
  BY <1>1 DEF FieldOf
<1>3. Motion(ref, v, size, y) # {}
  BY DEF Motion
<1> QED BY <1>2, <1>3 DEF FieldsIn, Field

LEMMA MotionFieldFields ==
  ASSUME Placed, pic \in Pictures, NEW ref, NEW v \in Pairs, NEW dest_field, NEW line \in {0, 1}
  PROVE  FieldsIn(MotionField(ref, v, dest_field, line)) = Field(ref.frame, Bottom(line), dest_field)
<1> DEFINE px == Clamp(2 * offset + v[1], LimitX)
           py == Clamp(v_offset + v[2], LimitY)
           cx == Half(px - 2 * offset)
           cy == Half(py - v_offset)
           first == 2 * (py \div 2) + line
           firstC == v_offset \div 2 + 2 * (cy \div 2) + line
<1>1. py \in Int /\ cy \in Int
  BY Heights DEF Pairs, Placed, Clamp, LimitY, Half
<1> HIDE DEF px, py, cx, cy
<1>2. (first % 2 = 1) = (line = 1) /\ (firstC % 2 = 1) = (line = 1)
  <2>1. (v_offset \div 2) % 2 = 0 /\ v_offset \div 2 \in Int
    BY DEF Placed
  <2> QED BY <1>1, <2>1
<1>3. MotionField(ref, v, dest_field, line) =
        {Luma(ref, dest_field, px, first, 2, 8 + Odd(py)),
         IF pic.chroma = 420 THEN Chroma(ref, dest_field, cx, firstC, 2, 4 + Odd(cy))
         ELSE Chroma(ref, dest_field, cx, first, 2, 8 + Odd(py))}
  BY DEF MotionField, px, py, cx, cy
<1> HIDE DEF first, firstC
<1>4. ASSUME NEW k \in MotionField(ref, v, dest_field, line)
      PROVE  k.ref = ref /\ k.part = dest_field /\ k.step = 2 /\ k.y \in {first, firstC}
  BY <1>3 DEF Luma, Chroma
<1>5. \A k \in MotionField(ref, v, dest_field, line) : FieldOf(k) = <<ref.frame, Bottom(line), dest_field>>
  BY <1>2, <1>4 DEF FieldOf, Bottom
<1>6. MotionField(ref, v, dest_field, line) # {}
  BY <1>3
<1> QED BY <1>5, <1>6 DEF FieldsIn, Field

LEMMA FieldsOfUnion ==
  ASSUME NEW A, NEW B
  PROVE  FieldsIn(A \cup B) = FieldsIn(A) \cup FieldsIn(B)
  BY DEF FieldsIn

\* The frame or the field of the same parity.
LEMMA SameField ==
  ASSUME NEW s, NEW v, NEW size, NEW y
  PROVE  FieldsIn(Motion(Ref(s, TRUE), v, size, y)) = Field(s, Own, y)
<1> DEFINE ref == Ref(s, TRUE)
<1>1. ref.frame = s /\ ref.bottom = Own
  BY DEF Ref, Own
<1> HIDE DEF ref
<1>2. FieldsIn(Motion(ref, v, size, y)) = Field(s, Own, y)
  BY <1>1, MotionFields
<1> QED BY <1>2 DEF ref

LEMMA OtherField ==
  ASSUME pic.type \in {"P", "B"}, NEW s, NEW v, NEW size, NEW y
  PROVE  FieldsIn(Motion(Ref(s, FALSE), v, size, y)) =
           Field(Recent(s, Opposite), Opposite, y)
<1> DEFINE ref == Ref(s, FALSE)
<1>1. ref.frame = Recent(s, Opposite) /\ ref.bottom = Opposite
  BY DEF Ref, Recent, Opposite
<1> HIDE DEF ref
<1>2. FieldsIn(Motion(ref, v, size, y)) = Field(Recent(s, Opposite), Opposite, y)
  BY <1>1, MotionFields
<1> QED BY <1>2 DEF ref

\* ref2 has the fields that the stream names.
LEMMA SelectedField ==
  ASSUME pic.type \in {"P", "B"}, NEW s, NEW select, NEW v, NEW size, NEW y
  PROVE  FieldsIn(Motion(Ref2(s, select), v, size, y)) = Field(Recent(s, Bottom(select)), Bottom(select), y)
<1> DEFINE ref == Ref2(s, select)
<1>1. ((pic.structure = "bottom") = (Bottom(select) = (pic.structure = "bottom"))) = Bottom(select)
  BY DEF Bottom
<1>2. ref.frame = Recent(s, Bottom(select)) /\ ref.bottom = Bottom(select)
  BY <1>1 DEF Ref2, Ref, Recent, Bottom
<1> HIDE DEF ref
<1>3. FieldsIn(Motion(ref, v, size, y)) = Field(Recent(s, Bottom(select)), Bottom(select), y)
  BY <1>2, MotionFields
<1> QED BY <1>3 DEF ref

\* One field of a frame.
LEMMA FrameField ==
  ASSUME Placed, pic \in Pictures, NEW s, NEW v \in Pairs, NEW dest_field, NEW line \in {0, 1}
  PROVE  FieldsIn(MotionField(Ref(s, TRUE), v, dest_field, line)) = Field(s, Bottom(line), dest_field)
<1> DEFINE ref == Ref(s, TRUE)
<1>1. ref.frame = s
  BY DEF Ref
<1> HIDE DEF ref
<1>2. FieldsIn(MotionField(ref, v, dest_field, line)) = Field(ref.frame, Bottom(line), dest_field)
  BY MotionFieldFields
<1> QED BY <1>1, <1>2 DEF ref

\* Sets of fields, one by one.
LEMMA TwoFields ==
  ASSUME NEW a, NEW b, NEW i, NEW c, NEW d, NEW j
  PROVE  {<<a, b, i>>, <<c, d, j>>} = Field(a, b, i) \cup Field(c, d, j)
  BY Zenon DEF Field

LEMMA BothFields ==
  ASSUME NEW s
  PROVE  {<<Recent(s, b), b, 0>> : b \in BOOLEAN} =
           Field(Recent(s, Own), Own, 0) \cup Field(Recent(s, Opposite), Opposite, 0)
<1>1. BOOLEAN = {Own, Opposite}
  BY DEF Own, Opposite
<1> DEFINE field(b) == <<Recent(s, b), b, 0>>
<1>2. /\ Field(Recent(s, Own), Own, 0) = {field(Own)}
      /\ Field(Recent(s, Opposite), Opposite, 0) = {field(Opposite)}
  BY Zenon DEF Field
<1> HIDE DEF field
<1>3. {field(b) : b \in {Own, Opposite}} = {field(Own)} \cup {field(Opposite)}
  BY Zenon
<1>4. {field(b) : b \in BOOLEAN} = {field(Own)} \cup {field(Opposite)}
  BY <1>1, <1>3, Zenon
<1> QED BY <1>2, <1>4, Zenon DEF field

LEMMA FourFields ==
  ASSUME NEW s
  PROVE  {<<s, b, part>> : b \in BOOLEAN, part \in 0 .. 1} =
           (Field(s, Bottom(1), 0) \cup Field(s, Bottom(0), 1))
             \cup (Field(s, Bottom(0), 0) \cup Field(s, Bottom(1), 1))
<1>1. 0 .. 1 = {0, 1}
  OBVIOUS
<1>2. Bottom(0) = FALSE /\ Bottom(1) = TRUE
  BY DEF Bottom
<1>3. BOOLEAN = {Bottom(0), Bottom(1)}
  BY <1>2
<1> DEFINE field(b, part) == <<s, b, part>>
<1>4. \A b, part : Field(s, b, part) = {field(b, part)}
  BY Zenon DEF Field
<1> HIDE DEF field
<1>5. {field(b, part) : b \in {Bottom(0), Bottom(1)}, part \in {0, 1}} =
        {field(Bottom(1), 0), field(Bottom(0), 1), field(Bottom(0), 0), field(Bottom(1), 1)}
  OBVIOUS
<1>6. {field(b, part) : b \in BOOLEAN, part \in 0 .. 1} =
        {field(Bottom(1), 0), field(Bottom(0), 1), field(Bottom(0), 0), field(Bottom(1), 1)}
  BY <1>1, <1>3, <1>5
<1>7. {field(Bottom(1), 0), field(Bottom(0), 1), field(Bottom(0), 0), field(Bottom(1), 1)} =
        ({field(Bottom(1), 0)} \cup {field(Bottom(0), 1)}) \cup ({field(Bottom(0), 0)} \cup {field(Bottom(1), 1)})
  BY Zenon
<1>8. (Field(s, Bottom(1), 0) \cup Field(s, Bottom(0), 1))
        \cup (Field(s, Bottom(0), 0) \cup Field(s, Bottom(1), 1)) =
        ({field(Bottom(1), 0)} \cup {field(Bottom(0), 1)}) \cup ({field(Bottom(0), 0)} \cup {field(Bottom(1), 1)})
  BY <1>4, Zenon
<1>9. {<<s, b, part>> : b \in BOOLEAN, part \in 0 .. 1} = {field(b, part) : b \in BOOLEAN, part \in 0 .. 1}
  BY DEF field
<1> DEFINE left == {<<s, b, part>> : b \in BOOLEAN, part \in 0 .. 1}
           right == (Field(s, Bottom(1), 0) \cup Field(s, Bottom(0), 1))
                      \cup (Field(s, Bottom(0), 0) \cup Field(s, Bottom(1), 1))
<1>10. left = {field(Bottom(1), 0), field(Bottom(0), 1), field(Bottom(0), 0), field(Bottom(1), 1)}
  BY <1>6, <1>9
<1>11. right = {field(Bottom(1), 0), field(Bottom(0), 1), field(Bottom(0), 0), field(Bottom(1), 1)}
  BY <1>7, <1>8
<1> HIDE DEF left, right
<1>12. left = right
  BY <1>10, <1>11
<1> QED BY <1>12 DEF left, right

-----------------------------------------------------------------------------
(* Each function motion_xxx does what the sender meant *)

Agreed ==
  /\ pic.type \in {"P", "B"}
  /\ PredictorsKept
  /\ \A s \in Dirs, r \in 1 .. 2 : Ranged(Predictor(s, r))

\* The predictors that are compared: MPEG-1 has one.
Ranks == 1 .. (IF pic.mpeg1 THEN 1 ELSE 2)

LEMMA DecodedVectors ==
  ASSUME IInv, Agreed, NEW type \in Types, NEW s \in Dirs, NEW w \in Meant(type), NEW c,
         \A r \in DOMAIN w : c.delta[r] = Difference(type, s, r, w[r])
  PROVE  \A r \in DOMAIN w : w[r] = IF type \in InField THEN FieldVector(s, r, c) ELSE Vector(s, r, c)
<1> TAKE r \in DOMAIN w
<1>1. pic \in Pictures /\ HistoryInv
  BY DEF IInv, TypeInv
<1>2. type \in InField => pic.unit = 1
  BY <1>1, HeaderFacts DEF Types, InField
<1>3. type \in TwoVectors => ~pic.mpeg1
  BY DEF Types, TwoVectors
<1>4. r \in Ranks /\ r \in 1 .. 2 /\ Sendable(type, w[r])
  <2>1. CASE type \in TwoVectors
    BY <1>1, <1>3, <2>1, MeantSendable DEF Ranks
  <2>2. CASE type \notin TwoVectors
    BY <1>1, <2>2, MeantSendable DEF Ranks
  <2> QED BY <2>1, <2>2
<1>5. pmv[s][r] = Predictor(s, r) /\ Ranged(Predictor(s, r))
  BY <1>4 DEF Agreed, PredictorsKept, Ranks
<1>6. Predictor(s, r) \in Pairs
  BY <1>1, <1>4, PredictorType
<1>7. c.delta[r] = Difference(type, s, r, w[r])
  OBVIOUS
<1> QED BY <1>1, <1>2, <1>4, <1>5, <1>6, <1>7, VectorDecoded

\* The vectors it uses and the predictors it leaves.
LEMMA VectorsDecoded ==
  ASSUME IInv, Agreed, NEW type \in Types, NEW s \in Dirs, NEW w \in Meant(type), NEW c,
         \A r \in DOMAIN w : c.delta[r] = Difference(type, s, r, w[r]),
         NEW m, m.type = type, m.v[s] = w
  PROVE  LET motion == motion_parser(type, s, c)
         IN  motion.used = w /\ \A r \in Ranks : motion.pmv[r] = Leaves(m, s)[r]
<1>1. pic \in Pictures /\ type \in Coded
  BY DEF IInv, TypeInv, Types, Coded
<1>2. \A r \in DOMAIN w : w[r] = IF type \in InField THEN FieldVector(s, r, c) ELSE Vector(s, r, c)
  BY DecodedVectors
<1>3. /\ type \in TwoVectors => w = <<w[1], w[2]>> /\ 2 \in DOMAIN w
      /\ type \notin TwoVectors => w = <<w[1]>>
      /\ 1 \in DOMAIN w
  BY <1>1, MeantSendable
<1>4. Leaves(m, s) = CASE type = "fr_field" -> <<InFrame(w[1]), InFrame(w[2])>>
                       [] type = "fi_16x8" -> w
                       [] type = "fr_dmv" -> <<InFrame(w[1]), InFrame(w[1])>>
                       [] OTHER -> <<w[1], w[1]>>
  BY DEF Leaves
<1>5. CASE type = "mp1"
  <2>1. Ranks = {1}
    BY <1>5 DEF Types, Ranks
  <2>2. w[1] = Vector(s, 1, c) /\ w = <<w[1]>>
    BY <1>2, <1>3, <1>5 DEF InField, TwoVectors
  <2> QED BY <1>4, <1>5, <2>1, <2>2 DEF motion_parser, mp1
<1>6. CASE type \in {"fr_frame", "fi_field", "fi_dmv"}
  <2>1. w[1] = Vector(s, 1, c) /\ w = <<w[1]>>
    BY <1>2, <1>3, <1>6 DEF InField, TwoVectors
  <2>2. motion_parser(type, s, c).used = w /\ motion_parser(type, s, c).pmv = <<w[1], w[1]>>
    BY <1>6, <2>1 DEF motion_parser, fr_frame, fi_field, fi_dmv
  <2> QED BY <1>4, <1>6, <2>2
<1>7. CASE type = "fr_field"
  <2>1. w[1] = FieldVector(s, 1, c) /\ w[2] = FieldVector(s, 2, c) /\ w = <<w[1], w[2]>>
    BY <1>2, <1>3, <1>7 DEF InField, TwoVectors
  <2> QED BY <1>4, <1>7, <2>1 DEF motion_parser, fr_field
<1>8. CASE type = "fr_dmv"
  <2>1. w[1] = FieldVector(s, 1, c) /\ w = <<w[1]>>
    BY <1>2, <1>3, <1>8 DEF InField, TwoVectors
  <2> QED BY <1>4, <1>8, <2>1 DEF motion_parser, fr_dmv
<1>9. CASE type = "fi_16x8"
  <2>1. w[1] = Vector(s, 1, c) /\ w[2] = Vector(s, 2, c) /\ w = <<w[1], w[2]>>
    BY <1>2, <1>3, <1>9 DEF InField, TwoVectors
  <2> QED BY <1>4, <1>9, <2>1 DEF motion_parser, fi_16x8
<1> QED BY <1>1, <1>5, <1>6, <1>7, <1>8, <1>9 DEF Coded

\* The fields it reads.
LEMMA FieldsDecoded ==
  ASSUME Placed, pic \in Pictures, pmv \in Predictors, pic.type \in {"P", "B"},
         NEW type \in Types, NEW s \in Dirs, NEW c, Readable(type, c),
         NEW m, m.type = type, m.select = c.select
  PROVE  FieldsIn(motion_parser(type, s, c).reads) = FieldsOf(m, s)
<1> DEFINE reads == motion_parser(type, s, c).reads
           bottom(i) == Bottom(c.select[i])
<1>1. type \in Coded /\ c.select[1] \in {0, 1} /\ c.select[2] \in {0, 1}
  BY DEF Types, Coded, Readable
<1>2. FieldsOf(m, s) =
        CASE type = "fr_field" -> {<<s, bottom(1), 0>>, <<s, bottom(2), 1>>}
          [] type = "fr_dmv" -> {<<s, b, part>> : b \in BOOLEAN, part \in 0 .. 1}
          [] type = "fi_field" -> Field(Recent(s, bottom(1)), bottom(1), 0)
          [] type = "fi_16x8" -> {<<Recent(s, bottom(1)), bottom(1), 0>>,
                                  <<Recent(s, bottom(2)), bottom(2), 8>>}
          [] type = "fi_dmv" -> {<<Recent(s, b), b, 0>> : b \in BOOLEAN}
          [] OTHER -> Field(s, Own, 0)
  BY DEF FieldsOf, Own, Bottom, Field
<1>3. CASE type \in {"mp1", "fr_frame"}
  <2>1. reads = Motion(Ref(s, TRUE), Vector(s, 1, c), 16, 0)
    BY <1>3 DEF motion_parser, mp1, fr_frame
  <2>2. FieldsOf(m, s) = Field(s, Own, 0)
    BY <1>2, <1>3
  <2> HIDE DEF reads
  <2>3. FieldsIn(reads) = Field(s, Own, 0)
    BY <2>1, SameField
  <2> QED BY <2>2, <2>3, Zenon DEF reads
<1>4. CASE type = "fr_field"
  <2> DEFINE v == FieldVector(s, 1, c)
             w == FieldVector(s, 2, c)
             first == MotionField(Ref(s, TRUE), v, 0, c.select[1])
             second == MotionField(Ref(s, TRUE), w, 1, c.select[2])
  <2>1. v \in Pairs /\ w \in Pairs
    BY <1>4, VectorTypes DEF Readable, TwoVectors
  <2>2. reads = first \cup second
    BY <1>4 DEF motion_parser, fr_field
  <2>3. FieldsOf(m, s) = {<<s, bottom(1), 0>>, <<s, bottom(2), 1>>}
    BY <1>2, <1>4
  <2> HIDE DEF reads, v, w
  <2>4. FieldsIn(first) = Field(s, bottom(1), 0)
    <3>1. c.select[1] \in {0, 1}
      BY <1>1
    <3> QED BY <2>1, <3>1, FrameField, Zenon
  <2>5. FieldsIn(second) = Field(s, bottom(2), 1)
    <3>1. c.select[2] \in {0, 1}
      BY <1>1
    <3> QED BY <2>1, <3>1, FrameField, Zenon
  <2> HIDE DEF first, second, bottom
  <2>10. FieldsIn(first \cup second) = FieldsIn(first) \cup FieldsIn(second)
    BY FieldsOfUnion
  <2>6. FieldsIn(reads) = Field(s, bottom(1), 0) \cup Field(s, bottom(2), 1)
    BY <2>2, <2>4, <2>5, <2>10, Zenon
  <2>7. {<<s, bottom(1), 0>>, <<s, bottom(2), 1>>} = Field(s, bottom(1), 0) \cup Field(s, bottom(2), 1)
    BY TwoFields
  <2> QED BY <2>3, <2>6, <2>7, Zenon DEF reads
<1>5. CASE type = "fr_dmv"
  <2> DEFINE v == FieldVector(s, 1, c)
             n == IF pic.top_field_first THEN 1 ELSE 3
             o1 == Other(v, n, c.dmv, -1)
             o2 == Other(v, 4 - n, c.dmv, 1)
             r1 == MotionField(Ref(s, TRUE), o1, 0, 1)
             r2 == MotionField(Ref(s, TRUE), o2, 1, 0)
             r3 == MotionField(Ref(s, TRUE), v, 0, 0)
             r4 == MotionField(Ref(s, TRUE), v, 1, 1)
             all == {<<s, b, part>> : b \in BOOLEAN, part \in 0 .. 1}
  <2>1. n \in {1, 3} /\ 4 - n \in {1, 3}
    OBVIOUS
  <2>2. reads = (r1 \cup r2) \cup (r3 \cup r4)
    BY <1>5 DEF motion_parser, fr_dmv, MotionDmv
  <2>3. FieldsOf(m, s) = all
    BY <1>2, <1>5
  <2>4. v \in Pairs /\ c.dmv \in Pairs
    BY VectorTypes DEF Readable
  <2> HIDE DEF reads, v, n
  <2>5. o1 \in Pairs /\ o2 \in Pairs
    BY <2>1, <2>4, OtherType
  <2> HIDE DEF o1, o2
  <2>6. /\ FieldsIn(r1) = Field(s, Bottom(1), 0) /\ FieldsIn(r2) = Field(s, Bottom(0), 1)
        /\ FieldsIn(r3) = Field(s, Bottom(0), 0) /\ FieldsIn(r4) = Field(s, Bottom(1), 1)
    <3>1. 0 \in {0, 1} /\ 1 \in {0, 1}
      OBVIOUS
    <3>2. FieldsIn(r1) = Field(s, Bottom(1), 0)
      BY <2>5, <3>1, FrameField, Zenon
    <3>3. FieldsIn(r2) = Field(s, Bottom(0), 1)
      BY <2>5, <3>1, FrameField, Zenon
    <3>4. FieldsIn(r3) = Field(s, Bottom(0), 0)
      BY <2>4, <3>1, FrameField, Zenon
    <3>5. FieldsIn(r4) = Field(s, Bottom(1), 1)
      BY <2>4, <3>1, FrameField, Zenon
    <3> QED BY <3>2, <3>3, <3>4, <3>5
  <2> HIDE DEF r1, r2, r3, r4, all
  <2>7. /\ FieldsIn(r1 \cup r2) = FieldsIn(r1) \cup FieldsIn(r2)
        /\ FieldsIn(r3 \cup r4) = FieldsIn(r3) \cup FieldsIn(r4)
        /\ FieldsIn((r1 \cup r2) \cup (r3 \cup r4)) = FieldsIn(r1 \cup r2) \cup FieldsIn(r3 \cup r4)
    BY FieldsOfUnion
  <2>8. FieldsIn(reads) = (Field(s, Bottom(1), 0) \cup Field(s, Bottom(0), 1))
                            \cup (Field(s, Bottom(0), 0) \cup Field(s, Bottom(1), 1))
    BY <2>2, <2>6, <2>7, Zenon
  <2>9. all = (Field(s, Bottom(1), 0) \cup Field(s, Bottom(0), 1))
                \cup (Field(s, Bottom(0), 0) \cup Field(s, Bottom(1), 1))
    BY FourFields DEF all
  <2> QED BY <2>3, <2>8, <2>9, Zenon DEF reads
<1>6. CASE type = "fi_field"
  <2> DEFINE r == Motion(Ref2(s, c.select[1]), Vector(s, 1, c), 16, 0)
  <2>1. reads = r
    BY <1>6 DEF motion_parser, fi_field
  <2>2. FieldsOf(m, s) = Field(Recent(s, bottom(1)), bottom(1), 0)
    BY <1>2, <1>6
  <2> HIDE DEF reads
  <2>3. FieldsIn(r) = Field(Recent(s, bottom(1)), bottom(1), 0)
    BY SelectedField
  <2> QED BY <2>1, <2>2, <2>3, Zenon DEF reads
<1>7. CASE type = "fi_16x8"
  <2> DEFINE first == Motion(Ref2(s, c.select[1]), Vector(s, 1, c), 8, 0)
             second == Motion(Ref2(s, c.select[2]), Vector(s, 2, c), 8, 8)
             field(i, part) == Field(Recent(s, bottom(i)), bottom(i), part)
  <2>1. reads = first \cup second
    BY <1>7 DEF motion_parser, fi_16x8
  <2>2. FieldsOf(m, s) = {<<Recent(s, bottom(1)), bottom(1), 0>>, <<Recent(s, bottom(2)), bottom(2), 8>>}
    BY <1>2, <1>7
  <2> HIDE DEF reads
  <2>3. FieldsIn(first) = field(1, 0)
    BY SelectedField
  <2>4. FieldsIn(second) = field(2, 8)
    BY SelectedField
  <2>7. FieldsOf(m, s) = field(1, 0) \cup field(2, 8)
    BY <2>2, TwoFields
  <2> HIDE DEF first, second, field
  <2>8. FieldsIn(first \cup second) = FieldsIn(first) \cup FieldsIn(second)
    BY FieldsOfUnion
  <2>5. FieldsIn(reads) = field(1, 0) \cup field(2, 8)
    BY <2>1, <2>3, <2>4, <2>8, Zenon
  <2> QED BY <2>5, <2>7, Zenon DEF reads
<1>8. CASE type = "fi_dmv"
  <2> DEFINE shift == IF pic.structure = "bottom" THEN 1 ELSE -1
             first == Motion(Ref(s, TRUE), Vector(s, 1, c), 16, 0)
             second == Motion(Ref(s, FALSE), Other(Vector(s, 1, c), 1, c.dmv, shift), 16, 0)
             field(b) == Field(Recent(s, b), b, 0)
  <2>1. pic.type = "P"
    BY <1>8 DEF Types
  <2>2. reads = first \cup second
    BY <1>8 DEF motion_parser, fi_dmv
  <2>3. FieldsOf(m, s) = field(Own) \cup field(Opposite)
    BY <1>2, <1>8, BothFields
  <2> HIDE DEF reads, shift
  <2>4. Recent(s, Own) = s
    BY <2>1 DEF Recent, Own
  <2>5. FieldsIn(first) = field(Own)
    <3>1. FieldsIn(first) = Field(s, Own, 0)
      BY SameField
    <3> QED BY <2>4, <3>1, Zenon
  <2>6. FieldsIn(second) = field(Opposite)
    BY OtherField
  <2> HIDE DEF first, second, field
  <2>7. FieldsIn(first \cup second) = FieldsIn(first) \cup FieldsIn(second)
    BY FieldsOfUnion
  <2> QED BY <2>2, <2>3, <2>5, <2>6, <2>7, Zenon DEF reads
<1> QED BY <1>1, <1>3, <1>4, <1>5, <1>6, <1>7, <1>8 DEF Coded

-----------------------------------------------------------------------------
(* The predictors, after each macroblock *)

LEMMA SameHistory ==
  ASSUME UNCHANGED <<pic, history>>, NEW s, NEW r
  PROVE  Predictor(s, r)' = Predictor(s, r)
<1>1. Setters(s)' = Setters(s)
  BY DEF Setters, Resets
<1> QED BY <1>1 DEF Predictor, Resets, Leaves

LEMMA NoHistory ==
  ASSUME history' = <<>>, NEW s, NEW r
  PROVE  Predictor(s, r)' = Zero
<1>1. Setters(s)' = {}
  BY DEF Setters
<1> QED BY <1>1 DEF Predictor

LEMMA PredictorAfter ==
  ASSUME HistoryInv, pic' = pic, NEW m, Meaning(m), NEW s \in Dirs, NEW r
  PROVE  Predictor(s, r)' = IF Resets(m) THEN Zero
                            ELSE IF m.v[s] # <<>> THEN Leaves(m, s)[r] ELSE Predictor(s, r)
<1> DEFINE n == Len(history) + 1
           S == Setters(s)
           T == Setters(s)'
<1>1. history' = Append(history, m) /\ history \in Seq(Sent)
  BY DEF Meaning, HistoryInv
<1>2. /\ n \in Nat \ {0} /\ DOMAIN history' = 1 .. n /\ DOMAIN history = 1 .. (n - 1)
      /\ history'[n] = m /\ \A i \in 1 .. (n - 1) : history'[i] = history[i]
  BY <1>1
<1>3. T = {i \in 1 .. n : Resets(history'[i]) \/ history'[i].v[s] # <<>>}
  BY <1>2 DEF Setters, Resets
<1>4. S = {i \in 1 .. (n - 1) : Resets(history[i]) \/ history[i].v[s] # <<>>}
  BY <1>2 DEF Setters
<1>5. \A k : Resets(k)' = Resets(k) /\ Leaves(k, s)' = Leaves(k, s)
  BY DEF Resets, Leaves
<1> HIDE DEF n
<1>6. CASE Resets(m) \/ m.v[s] # <<>>
  <2>1. n \in T /\ \A i \in T : n >= i /\ i \in Nat
    BY <1>2, <1>3, <1>6
  <2>2. Max(T) = n
    <3>1. \A x \in T : (\A y \in T : x >= y) => x = n
      BY <2>1, <1>2
    <3>2. \E x \in T : \A y \in T : x >= y
      BY <2>1
    <3> HIDE DEF T
    <3> QED BY <3>1, <3>2 DEF Max
  <2>3. Predictor(s, r)' = IF T = {} \/ Resets(history'[Max(T)]) THEN Zero ELSE Leaves(history'[Max(T)], s)[r]
    BY <1>5 DEF Predictor
  <2> QED BY <1>2, <1>6, <2>1, <2>2, <2>3
<1>7. CASE ~(Resets(m) \/ m.v[s] # <<>>)
  <2>1. T = S
    BY <1>2, <1>3, <1>4, <1>7
  <2>2. S # {} => Max(S) \in 1 .. (n - 1)
    <3>1. S # {} => Max(S) \in S
      BY DEF HistoryInv, HasLast, Max
    <3> QED BY <1>4, <3>1
  <2>3. Predictor(s, r)' = IF T = {} \/ Resets(history'[Max(T)]) THEN Zero ELSE Leaves(history'[Max(T)], s)[r]
    BY <1>5 DEF Predictor
  <2>4. Predictor(s, r) = IF S = {} \/ Resets(history[Max(S)]) THEN Zero ELSE Leaves(history[Max(S)], s)[r]
    BY DEF Predictor
  <2>5. S # {} => history'[Max(S)] = history[Max(S)]
    BY <1>2, <2>2
  <2> HIDE DEF S, T
  <2> QED BY <1>7, <2>1, <2>3, <2>4, <2>5
<1> QED BY <1>6, <1>7

LEMMA ZeroRanged ==
  ASSUME pic \in Pictures
  PROVE  Ranged(Zero)
<1>1. \A i \in 1 .. 2 : Zero[i] = 0
  BY DEF Zero
<1>2. \A i \in 1 .. 2 : pic.half[i] \in Nat \ {0}
  BY HeaderFacts
<1>3. 0 % pic.unit = 0
  <2>1. pic.unit = 1 \/ pic.unit = 2
    BY HeaderFacts
  <2> QED BY <2>1
<1> QED BY <1>1, <1>2, <1>3 DEF Ranged

-----------------------------------------------------------------------------
(* The steps *)

\* What it takes for a macroblock to be decoded as meant.
LEMMA MeaningAgrees ==
  ASSUME IInv, AgreeInv, pc # "idle", pic' = pic, NEW m, Meaning(m),
         VectorsMeant(m)', PredictorsKept', FieldsMeant(m)',
         pic.type = "P" => pmv'["b"] = <<Zero, Zero>>,
         \A s \in Dirs, r \in 1 .. 2 : ~Resets(m) /\ m.v[s] # <<>> => Ranged(Leaves(m, s)[r]),
         m.kind \in {"intra", "conceal"} => pc = "macroblock" /\ last'.dc = dc,
         pc' = "skip" => dc' = None,
         pc' # "skip" => dc' = IF m.kind \in {"intra", "conceal"} THEN m.address ELSE None
  PROVE  AgreeInv'
<1>1. history' = Append(history, m) /\ history \in Seq(Sent) /\ pic \in Pictures /\ HistoryInv
  BY DEF Meaning, IInv, HistoryInv, TypeInv
<1>2. history' # <<>> /\ history'[Len(history')] = m
  BY <1>1
<1>3. \A v : Ranged(v)' = Ranged(v)
  BY DEF Ranged
<1>4. \A s \in Dirs, r \in 1 .. 2 : Ranged(Predictor(s, r)')
  <2> TAKE s \in Dirs, r \in 1 .. 2
  <2>1. Ranged(Predictor(s, r))
    BY DEF AgreeInv, PredictorInv
  <2> QED BY <1>1, <2>1, PredictorAfter, ZeroRanged
<1>5. PredictorInv'
  BY <1>3, <1>4 DEF PredictorInv
<1>6. DCInv'
  BY <1>2 DEF DCInv
<1>7. DCMeant(Len(history))'
  <2>1. /\ Len(history') = Len(history) + 1 /\ Len(history) \in Nat
        /\ history # <<>> <=> Len(history') > 1
        /\ Len(history') > 1 => history'[Len(history') - 1] = history[Len(history)]
    BY <1>1
  <2>2. m.kind \in {"intra", "conceal"} =>
          last'.dc = IF history # <<>> /\ history[Len(history)].kind \in {"intra", "conceal"}
                     THEN history[Len(history)].address ELSE None
    BY DEF AgreeInv, DCInv
  <2> QED BY <1>2, <2>1, <2>2 DEF DCMeant
<1>8. DecodedAsMeant'
  BY <1>2, <1>7 DEF DecodedAsMeant
<1> QED BY <1>5, <1>6, <1>8 DEF AgreeInv

LEMMA NewHistoryAgrees ==
  ASSUME NewHistory, pc' = "idle"
  PROVE  AgreeInv'
<1>1. history' = <<>>
  BY DEF NewHistory
<1> QED BY <1>1 DEF AgreeInv, PredictorInv, DCInv, DecodedAsMeant

LEMMA SliceInitAgrees ==
  ASSUME IInv, NEW code, NEW increment, SliceInit(code, increment)
  PROVE  AgreeInv'
<1>1. history' = <<>> /\ pic' = pic /\ pic \in Pictures
  BY DEF SliceInit, NewHistory, IInv, TypeInv
<1>2. dc' = None /\ pmv' = [s \in Dirs |-> <<Zero, Zero>>] /\ pc' # "skip"
  BY DEF SliceInit, PredictorReset
<1>3. \A s \in Dirs, r \in 1 .. 2 : Predictor(s, r)' = Zero /\ pmv'[s][r] = Zero
  BY <1>1, <1>2, NoHistory
<1>4. Ranged(Zero)'
  BY <1>1, ZeroRanged DEF Ranged
<1>5. PredictorsKept'
  BY <1>1, <1>3 DEF PredictorsKept
<1>6. PredictorInv'
  BY <1>2, <1>3, <1>4, <1>5 DEF PredictorInv, Dirs
<1>7. DCInv' /\ DecodedAsMeant'
  BY <1>1, <1>2 DEF DCInv, DecodedAsMeant
<1> QED BY <1>6, <1>7 DEF AgreeInv

\* No macroblock is decoded.
LEMMA StillAgrees ==
  ASSUME AgreeInv, UNCHANGED <<pic, pmv, history, last>>, pc' # "idle" => pc # "idle", DCInv'
  PROVE  AgreeInv'
<1>1. \A s, r : Predictor(s, r)' = Predictor(s, r)
  BY SameHistory
<1>2. PredictorsKept' = PredictorsKept
  BY <1>1 DEF PredictorsKept
<1>3. PredictorInv'
  BY <1>1, <1>2 DEF PredictorInv, Ranged, AgreeInv
<1>4. \A m : VectorsMeant(m)' = VectorsMeant(m)
  BY <1>1 DEF VectorsMeant
<1>5. \A m : FieldsMeant(m)' = FieldsMeant(m)
  BY DEF FieldsMeant, FieldsOf, Recent
<1>6. \A i : DCMeant(i)' = DCMeant(i)
  BY DEF DCMeant
<1>7. DecodedAsMeant'
  BY <1>2, <1>4, <1>5, <1>6 DEF DecodedAsMeant, AgreeInv
<1> QED BY <1>3, <1>7 DEF AgreeInv

LEMMA IncrementAgrees ==
  ASSUME IInv, AgreeInv, Increment
  PROVE  AgreeInv'
<1>1. UNCHANGED <<pic, pmv, history, last>> /\ pc = "increment" /\ pc' \in {"skip", "macroblock"}
  BY DEF Increment
<1>2. (pc' = "skip" => dc' = None) /\ (pc' = "macroblock" => dc' = dc)
  BY DEF Increment
<1>3. DCInv'
  BY <1>1, <1>2 DEF DCInv, AgreeInv
<1> QED BY <1>1, <1>3, StillAgrees

\* Predictors that a macroblock without vector leaves.
LEMMA ResetKept ==
  ASSUME HistoryInv, pic' = pic, NEW m, Meaning(m), Resets(m), pmv' = [s \in Dirs |-> <<Zero, Zero>>]
  PROVE  PredictorsKept'
<1>1. \A s \in Dirs, r \in 1 .. 2 : Predictor(s, r)' = Zero /\ pmv'[s][r] = Zero
  BY PredictorAfter
<1> QED BY <1>1 DEF PredictorsKept

LEMMA NothingRead ==
  ASSUME last'.reads = {}, NEW m, m.dirs = {}
  PROVE  FieldsMeant(m)'
  BY DEF FieldsMeant

LEMMA IntraAgrees ==
  ASSUME IInv, AgreeInv, Intra
  PROVE  AgreeInv'
<1>1. /\ pic' = pic /\ pc = "macroblock" /\ pic \in Pictures /\ HistoryInv /\ pmv \in Predictors
      /\ last' = [reads |-> {}, used |-> NoVectors, dc |-> dc] /\ dc' = address
      /\ pc' # "skip"
  BY DEF IInv, TypeInv, Intra, Advance
<1>2. last'.reads = {} /\ last'.used = NoVectors /\ last'.dc = dc
  BY <1>1
<1>3. CASE ~pic.conceal
  <2>1. PICK m : m = Macroblock("intra", "none", {}, NoVectors, <<>>)
    OBVIOUS
  <2>2. Meaning(m) /\ pmv' = [s \in Dirs |-> <<Zero, Zero>>]
    BY <1>3, <2>1 DEF Intra
  <2>3. m.kind = "intra" /\ m.type = "none" /\ m.dirs = {} /\ m.v = NoVectors /\ m.address = address
    BY <2>1 DEF Macroblock
  <2>4. Resets(m)
    BY <2>3 DEF Resets
  <2>5. PredictorsKept'
    BY <1>1, <2>2, <2>4, ResetKept
  <2>6. FieldsMeant(m)'
    BY <1>2, <2>3, NothingRead
  <2>7. VectorsMeant(m)'
    BY <1>2, <2>3 DEF VectorsMeant, NoVectors
  <2>8. pmv'["b"] = <<Zero, Zero>>
    BY <2>2 DEF Dirs
  <2> QED BY <1>1, <1>2, <2>2, <2>3, <2>4, <2>5, <2>6, <2>7, <2>8, MeaningAgrees
<1>4. CASE pic.conceal
  <2> DEFINE code(v) == Code("none", "f", <<v>>, <<>>, Zero)
             V(v) == [NoVectors EXCEPT !["f"] = <<v>>]
  <2>1. PICK v \in Vectors :
          /\ pmv' = [pmv EXCEPT !["f"] = <<Vector("f", 1, code(v)), Vector("f", 1, code(v))>>]
          /\ Meaning(Macroblock("conceal", "none", {}, V(v), <<>>))
    BY <1>4 DEF Intra
  <2>2. PICK m : m = Macroblock("conceal", "none", {}, V(v), <<>>)
    OBVIOUS
  <2>3. m.kind = "conceal" /\ m.type = "none" /\ m.dirs = {} /\ m.v = V(v) /\ m.address = address
    BY <2>2 DEF Macroblock
  <2>4. V(v)["f"] = <<v>> /\ V(v)["b"] = <<>>
    BY DEF NoVectors, Dirs
  <2>5. pic.unit = 1 /\ v \in Pairs /\ Ranged(v)
    <3>1. pic.unit = 1
      BY <1>1, <1>4, HeaderAssumption
    <3> QED BY <1>1, <3>1, VectorRange, SliceAssumption DEF Pairs
  <2>6. Vector("f", 1, code(v)) = v
    <3> DEFINE c == code(v)
    <3>1. c.delta[1] = Difference("none", "f", 1, v)
      BY DEF Code
    <3>2. "f" \in Dirs /\ 1 \in 1 .. 2
      BY DEF Dirs
    <3>3. pmv["f"][1] = Predictor("f", 1) /\ Ranged(Predictor("f", 1))
      BY <1>1, <3>2 DEF AgreeInv, PredictorInv, PredictorsKept
    <3>4. Predictor("f", 1) \in Pairs
      BY <1>1, <3>2, PredictorType
    <3>5. Sendable("none", v)
      BY <2>5 DEF Sendable, InField
    <3>6. "none" \notin InField
      BY DEF InField
    <3> HIDE DEF c
    <3> QED BY <1>1, <3>1, <3>2, <3>3, <3>4, <3>5, <3>6, VectorDecoded DEF c
  <2>7. pmv'["f"] = <<v, v>> /\ pmv'["b"] = pmv["b"]
    BY <1>1, <2>1, <2>6 DEF Predictors, Dirs
  <2>8. Meaning(m) /\ ~Resets(m)
    BY <2>1, <2>2, <2>3 DEF Resets
  <2>9. Leaves(m, "f") = <<v, v>>
    BY <2>3, <2>4 DEF Leaves
  <2>10. \A r \in 1 .. 2 : Predictor("f", r)' = v /\ Predictor("b", r)' = Predictor("b", r)
    <3>1. "f" \in Dirs /\ "b" \in Dirs /\ <<v>> # <<>>
      BY DEF Dirs
    <3>2. \A s \in Dirs, r \in 1 .. 2 :
            Predictor(s, r)' = IF m.v[s] # <<>> THEN Leaves(m, s)[r] ELSE Predictor(s, r)
      BY <1>1, <2>8, PredictorAfter
    <3>3. m.v["f"] # <<>> /\ m.v["b"] = <<>>
      BY <2>3, <2>4
    <3> QED BY <2>9, <3>1, <3>2, <3>3
  <2>11. PredictorsKept'
    <3>1. \A s \in Dirs, r \in Ranks : pmv[s][r] = Predictor(s, r)
      BY <1>1 DEF AgreeInv, PredictorInv, PredictorsKept, Ranks
    <3>2. \A s \in Dirs, r \in Ranks : pmv'[s][r] = Predictor(s, r)'
      BY <2>7, <2>10, <3>1 DEF Dirs, Ranks
    <3> QED BY <1>1, <3>2 DEF PredictorsKept, Ranks
  <2>12. FieldsMeant(m)'
    BY <1>2, <2>3, NothingRead
  <2>13. VectorsMeant(m)'
    BY <1>2, <2>3 DEF VectorsMeant, NoVectors
  <2>14. pic.type = "P" => pmv'["b"] = <<Zero, Zero>>
    BY <1>1, <2>7 DEF AgreeInv, PredictorInv
  <2>15. \A s \in Dirs, r \in 1 .. 2 : ~Resets(m) /\ m.v[s] # <<>> => Ranged(Leaves(m, s)[r])
    BY <2>3, <2>4, <2>5, <2>9 DEF Dirs
  <2> QED BY <1>1, <1>2, <2>3, <2>8, <2>11, <2>12, <2>13, <2>14, <2>15, MeaningAgrees
<1> QED BY <1>3, <1>4

\* The fields of all directions together.
LEMMA FieldsTogether ==
  ASSUME pic' = pic, NEW m, NEW reads, last'.reads = UNION {reads[s] : s \in m.dirs},
         \A s \in m.dirs : FieldsIn(reads[s]) = FieldsOf(m, s)
  PROVE  FieldsMeant(m)'
<1>1. FieldsMeant(m)' = (FieldsIn(last'.reads) = UNION {FieldsOf(m, s)' : s \in m.dirs})
  BY DEF FieldsMeant, FieldsIn, FieldOf
<1>2. \A s : FieldsOf(m, s)' = FieldsOf(m, s)
  BY DEF FieldsOf, Recent
<1>3. FieldsIn(UNION {reads[s] : s \in m.dirs}) = UNION {FieldsIn(reads[s]) : s \in m.dirs}
  BY DEF FieldsIn
<1>4. UNION {FieldsOf(m, s)' : s \in m.dirs} = UNION {FieldsIn(reads[s]) : s \in m.dirs}
  BY <1>2
<1> QED BY <1>1, <1>3, <1>4

LEMMA CodeFacts ==
  ASSUME NEW type, NEW s, NEW w, NEW select, NEW dmv
  PROVE  LET c == Code(type, s, w, select, dmv)
         IN  c.select = select /\ \A r \in DOMAIN w : c.delta[r] = Difference(type, s, r, w[r])
  BY DEF Code

LEMMA InterAgrees ==
  ASSUME IInv, AgreeInv, Inter
  PROVE  AgreeInv'
<1>1. /\ Placed /\ pic' = pic /\ pc = "macroblock" /\ pic \in Pictures /\ HistoryInv /\ pmv \in Predictors
      /\ pic.type \in {"P", "B"} /\ dc' = None
  BY DEF IInv, TypeInv, Inter
<1>2. Agreed
  BY <1>1 DEF AgreeInv, PredictorInv, Agreed
<1>3. pc' # "skip"
  BY DEF Inter, Advance
<1> DEFINE C(type, D, v, select, dmv) == [s \in D |-> Code(type, s, v[s], select, dmv)]
<1>4. PICK type \in Types, D \in Directions, select \in Selects :
      \E v \in [Dirs -> Meant(type) \cup {<<>>}],
         dmv \in (IF type \in DualPrime THEN {<<1, -1>>, <<-1, 1>>} ELSE {Zero}) :
        /\ \A s \in Dirs : v[s] = <<>> <=> s \notin D
        /\ MotionCall(type, D, C(type, D, v, select, dmv))
        /\ Meaning(Macroblock("coded", type, D, v, select))
  BY DEF Inter
<1>5. PICK v \in [Dirs -> Meant(type) \cup {<<>>}],
           dmv \in (IF type \in DualPrime THEN {<<1, -1>>, <<-1, 1>>} ELSE {Zero}) :
        /\ \A s \in Dirs : v[s] = <<>> <=> s \notin D
        /\ MotionCall(type, D, C(type, D, v, select, dmv))
        /\ Meaning(Macroblock("coded", type, D, v, select))
  BY <1>4
<1>6. D \in SUBSET Dirs /\ dmv \in Pairs /\ type \in Coded /\ (pic.type = "P" => "b" \notin D)
  BY DEF Directions, Dirs, Zero, Pairs, Types, Coded
<1>7. PICK m : m = Macroblock("coded", type, D, v, select)
  OBVIOUS
<1>8. /\ m.kind = "coded" /\ m.type = type /\ m.dirs = D /\ m.v = v /\ m.select = select
      /\ Meaning(m) /\ ~Resets(m)
  BY <1>5, <1>7 DEF Macroblock, Resets
<1>9. PICK c : c = C(type, D, v, select, dmv)
  OBVIOUS
<1>10. /\ \A s \in D : /\ s \in Dirs /\ v[s] \in Meant(type) /\ v[s] # <<>>
                       /\ c[s] = Code(type, s, v[s], select, dmv)
      /\ \A s \in Dirs \ D : v[s] = <<>>
  BY <1>5, <1>6, <1>9
<1>11. MotionCall(type, D, c)
  BY <1>5, <1>9
<1> HIDE DEF C
<1> DEFINE motion(s) == motion_parser(type, s, c[s])
<1>12. ASSUME NEW s \in D
       PROVE  /\ motion(s).used = v[s] /\ \A r \in Ranks : motion(s).pmv[r] = Leaves(m, s)[r]
              /\ FieldsIn(motion(s).reads) = FieldsOf(m, s)
  <2>1. s \in Dirs /\ v[s] \in Meant(type) /\ m.v[s] = v[s]
    BY <1>8, <1>10
  <2>2. /\ \A r \in DOMAIN v[s] : c[s].delta[r] = Difference(type, s, r, v[s][r])
        /\ m.select = c[s].select
    BY <1>8, <1>10, CodeFacts
  <2>3. Readable(type, c[s])
    BY <1>1, <1>6, <1>10, <2>1, CodeReadable
  <2>4. motion(s).used = v[s] /\ \A r \in Ranks : motion(s).pmv[r] = Leaves(m, s)[r]
    BY <1>2, <1>8, <2>1, <2>2, VectorsDecoded
  <2>5. FieldsIn(motion(s).reads) = FieldsOf(m, s)
    BY <1>1, <1>8, <2>1, <2>2, <2>3, FieldsDecoded
  <2> QED BY <2>4, <2>5
<1>13. /\ \A s \in D : pmv'[s] = motion(s).pmv /\ last'.used[s] = motion(s).used
       /\ \A s \in Dirs \ D : pmv'[s] = pmv[s] /\ last'.used[s] = <<>>
       /\ last'.reads = UNION {motion(s).reads : s \in D}
  <2>1. /\ \A s \in D : /\ pmv'[s] = motion_parser(type, s, c[s]).pmv
                        /\ last'.used[s] = motion_parser(type, s, c[s]).used
        /\ \A s \in Dirs \ D : pmv'[s] = pmv[s] /\ last'.used[s] = <<>>
        /\ last'.reads = UNION {motion_parser(type, s, c[s]).reads : s \in D}
    BY <1>6, <1>11 DEF MotionCall
  <2> QED BY <2>1, Zenon
<1> HIDE DEF motion
<1>14. VectorsMeant(m)'
  <2>1. \A s \in Dirs : last'.used[s] = v[s]
    <3>1. \A s \in D : last'.used[s] = v[s]
      BY <1>12, <1>13
    <3>2. \A s \in Dirs \ D : last'.used[s] = v[s]
      BY <1>10, <1>13
    <3> QED BY <3>1, <3>2
  <2>2. m.kind = "coded" /\ m.type \notin {"reuse", "zero"} /\ \A s \in Dirs : last'.used[s] = m.v[s]
    BY <1>6, <1>8, <2>1 DEF Coded
  <2> QED BY <2>2 DEF VectorsMeant
<1>15. PredictorsKept'
  <2>1. ASSUME NEW s \in Dirs, NEW r \in Ranks
        PROVE  pmv'[s][r] = Predictor(s, r)'
    <3>1. Predictor(s, r)' = IF m.v[s] # <<>> THEN Leaves(m, s)[r] ELSE Predictor(s, r)
      BY <1>1, <1>8, PredictorAfter
    <3>2. CASE s \in D
      BY <1>8, <1>10, <1>12, <1>13, <3>1, <3>2
    <3>3. CASE s \notin D
      <4>1. pmv[s][r] = Predictor(s, r)
        BY <1>2 DEF Agreed, PredictorsKept, Ranks
      <4> QED BY <1>5, <1>8, <1>13, <3>1, <3>3, <4>1
    <3> QED BY <3>2, <3>3
  <2> QED BY <1>1, <2>1 DEF PredictorsKept, Ranks
<1>16. FieldsMeant(m)'
  <2> DEFINE reads == [s \in D |-> motion(s).reads]
  <2>1. \A s \in D : reads[s] = motion(s).reads
    OBVIOUS
  <2> HIDE DEF reads
  <2>2. UNION {motion(s).reads : s \in D} = UNION {reads[s] : s \in D}
    BY <2>1
  <2> QED BY <1>1, <1>8, <1>12, <1>13, <2>1, <2>2, FieldsTogether
<1>17. pic.type = "P" => pmv'["b"] = <<Zero, Zero>>
  BY <1>1, <1>6, <1>13 DEF AgreeInv, PredictorInv, Dirs
<1>18. \A s \in Dirs, r \in 1 .. 2 : m.v[s] # <<>> => Ranged(Leaves(m, s)[r])
  <2> TAKE s \in Dirs, r \in 1 .. 2
  <2> HAVE m.v[s] # <<>>
  <2> DEFINE w == v[s]
  <2>1. w \in Meant(type)
    BY <1>5, <1>8, <1>10
  <2>2. Sendable(type, w[1]) /\ (type \in TwoVectors => Sendable(type, w[2]) /\ w = <<w[1], w[2]>>)
    BY <1>1, <2>1, MeantSendable
  <2>3. Leaves(m, s) = CASE type = "fr_field" -> <<InFrame(w[1]), InFrame(w[2])>>
                         [] type = "fi_16x8" -> w
                         [] type = "fr_dmv" -> <<InFrame(w[1]), InFrame(w[1])>>
                         [] OTHER -> <<w[1], w[1]>>
    BY <1>8 DEF Leaves
  <2> HIDE DEF w
  <2> QED BY <2>2, <2>3 DEF Sendable, InField, TwoVectors
<1> QED BY <1>1, <1>3, <1>8, <1>14, <1>15, <1>16, <1>17, <1>18, MeaningAgrees

\* Macroblocks that are predicted without a vector in the stream: all fields
\* are those of the same parity.
LEMMA FieldsWithout ==
  ASSUME pic' = pic, NEW type \in {"zero", "reuse"}, NEW D \in SUBSET Dirs, NEW c,
         MotionCall(type, D, c), NEW m, m.type = type, m.dirs = D
  PROVE  FieldsMeant(m)'
<1> DEFINE motion(s) == motion_parser(type, s, c[s])
           reads == [s \in D |-> motion(s).reads]
<1>1. \A s \in D : reads[s] = motion(s).reads
  OBVIOUS
<1>2. last'.reads = UNION {motion(s).reads : s \in D}
  BY DEF MotionCall
<1>3. ASSUME NEW s \in D
      PROVE  FieldsIn(motion(s).reads) = FieldsOf(m, s)
  <2>1. FieldsOf(m, s) = Field(s, Own, 0)
    BY DEF FieldsOf, Own, Field
  <2>2. motion(s).reads = Motion(Ref(s, TRUE), IF type = "zero" THEN Zero ELSE pmv[s][1], 16, 0)
    BY DEF motion_parser, zero, reuse, MotionZero
  <2> HIDE DEF motion
  <2>3. FieldsIn(motion(s).reads) = Field(s, Own, 0)
    BY <2>2, SameField
  <2> QED BY <2>1, <2>3, Zenon
<1> HIDE DEF motion, reads
<1>4. UNION {motion(s).reads : s \in D} = UNION {reads[s] : s \in D}
  BY <1>1
<1>5. last'.reads = UNION {reads[s] : s \in m.dirs} /\ \A s \in m.dirs : FieldsIn(reads[s]) = FieldsOf(m, s)
  BY <1>1, <1>2, <1>3, <1>4
<1> QED BY <1>5, FieldsTogether

\* In a P picture, a macroblock without vector resets the predictors.
LEMMA ZeroAgrees ==
  ASSUME IInv, AgreeInv, pc # "idle", pic' = pic, pic.type = "P",
         NEW c, MotionCall("zero", {"f"}, c),
         NEW kind \in {"zero", "skipped"}, Meaning(Macroblock(kind, "zero", {"f"}, NoVectors, <<>>)),
         dc' = None
  PROVE  AgreeInv'
<1>1. pic \in Pictures /\ HistoryInv /\ pmv \in Predictors
  BY DEF IInv, TypeInv
<1>2. PICK m : m = Macroblock(kind, "zero", {"f"}, NoVectors, <<>>)
  OBVIOUS
<1>3. /\ m.kind = kind /\ m.type = "zero" /\ m.dirs = {"f"} /\ m.v = NoVectors
      /\ Meaning(m) /\ Resets(m) /\ m.kind \notin {"intra", "conceal", "coded"}
  BY <1>2 DEF Macroblock, Resets
<1>4. {"f"} \in SUBSET Dirs /\ Dirs \ {"f"} = {"b"} /\ "f" \in {"f"} /\ "b" \in {"b"}
  BY DEF Dirs
<1>5. motion_parser("zero", "f", c["f"]) = zero("f")
  BY DEF motion_parser
<1>6. zero("f").pmv = <<Zero, Zero>> /\ zero("f").used = <<Zero>>
  BY DEF zero
<1>7. /\ pmv'["f"] = zero("f").pmv /\ last'.used["f"] = zero("f").used
      /\ pmv'["b"] = pmv["b"] /\ last'.used["b"] = <<>>
  <2>1. /\ pmv'["f"] = motion_parser("zero", "f", c["f"]).pmv
        /\ last'.used["f"] = motion_parser("zero", "f", c["f"]).used
        /\ pmv'["b"] = pmv["b"] /\ last'.used["b"] = <<>>
    BY DEF MotionCall, Dirs
  <2> QED BY <1>5, <2>1, Zenon
<1>8. pmv["b"] = <<Zero, Zero>>
  BY DEF AgreeInv, PredictorInv
<1>9. pmv' = [s \in Dirs |-> <<Zero, Zero>>]
  BY <1>6, <1>7, <1>8 DEF MotionCall, Dirs
<1>10. PredictorsKept'
  BY <1>1, <1>3, <1>9, ResetKept
<1>11. FieldsMeant(m)'
  BY <1>3, <1>4, FieldsWithout
<1>12. VectorsMeant(m)'
  BY <1>3, <1>6, <1>7 DEF VectorsMeant, Dirs
<1>13. pmv'["b"] = <<Zero, Zero>>
  BY <1>7, <1>8
<1> QED BY <1>3, <1>10, <1>11, <1>12, <1>13, MeaningAgrees

LEMMA InterZeroAgrees ==
  ASSUME IInv, AgreeInv, InterZero
  PROVE  AgreeInv'
  BY ZeroAgrees DEF InterZero

\* In a B picture, a skipped macroblock takes the predictors for vectors.
LEMMA ReuseAgrees ==
  ASSUME IInv, AgreeInv, pc # "idle", pic' = pic, pic.type # "P",
         NEW D \in SUBSET Dirs, NEW c, MotionCall("reuse", D, c),
         Meaning(Macroblock("skipped", "reuse", D, NoVectors, <<>>)), dc' = None
  PROVE  AgreeInv'
<1>1. pic \in Pictures /\ HistoryInv /\ pmv \in Predictors
  BY DEF IInv, TypeInv
<1>2. PICK m : m = Macroblock("skipped", "reuse", D, NoVectors, <<>>)
  OBVIOUS
<1>3. /\ m.kind = "skipped" /\ m.type = "reuse" /\ m.dirs = D /\ m.v = NoVectors
      /\ Meaning(m) /\ ~Resets(m)
  BY <1>2 DEF Macroblock, Resets
<1>4. \A s \in Dirs : m.v[s] = <<>>
  BY <1>3 DEF NoVectors
<1>5. \A s \in D : motion_parser("reuse", s, c[s]).pmv = pmv[s]
                /\ motion_parser("reuse", s, c[s]).used = <<pmv[s][1]>>
  BY DEF motion_parser, reuse
<1>6. /\ \A s \in D : pmv'[s] = pmv[s] /\ last'.used[s] = <<pmv[s][1]>>
      /\ \A s \in Dirs \ D : pmv'[s] = pmv[s] /\ last'.used[s] = <<>>
  <2>1. /\ \A s \in D : /\ pmv'[s] = motion_parser("reuse", s, c[s]).pmv
                        /\ last'.used[s] = motion_parser("reuse", s, c[s]).used
        /\ \A s \in Dirs \ D : pmv'[s] = pmv[s] /\ last'.used[s] = <<>>
    BY DEF MotionCall
  <2> QED BY <1>5, <2>1, Zenon
<1>7. \A s \in Dirs : \A r : Predictor(s, r)' = Predictor(s, r)
  BY <1>1, <1>3, <1>4, PredictorAfter
<1>8. PredictorsKept
  BY DEF AgreeInv, PredictorInv
<1>9. PredictorsKept'
  BY <1>6, <1>7, <1>8 DEF PredictorsKept
<1>10. FieldsMeant(m)'
  BY <1>3, FieldsWithout
<1>11. VectorsMeant(m)'
  <2>1. \A s \in Dirs : pmv[s][1] = Predictor(s, 1)
    BY <1>8 DEF PredictorsKept
  <2>2. ASSUME NEW s \in Dirs
        PROVE  last'.used[s] = IF s \in D THEN <<Predictor(s, 1)'>> ELSE <<>>
    BY <1>6, <1>7, <2>1
  <2> QED BY <1>3, <2>2 DEF VectorsMeant
<1> QED BY <1>3, <1>4, <1>9, <1>10, <1>11, MeaningAgrees

LEMMA SkipAgrees ==
  ASSUME IInv, AgreeInv, Skip
  PROVE  AgreeInv'
<1>1. pc = "skip" /\ pic' = pic /\ dirs \in SUBSET Dirs
  BY DEF IInv, TypeInv, Skip
<1>2. dc' = None
  BY <1>1 DEF Skip, AgreeInv, DCInv
<1>3. CASE pic.type = "P"
  BY <1>1, <1>2, <1>3, ZeroAgrees DEF Skip
<1>4. CASE pic.type # "P"
  BY <1>1, <1>2, <1>4, ReuseAgrees DEF Skip
<1> QED BY <1>3, <1>4

LEMMA AgreeInductive ==
  ASSUME IInv, AgreeInv, [Next]_vars
  PROVE  AgreeInv'
<1>1. CASE InitFbuf
  BY <1>1, NewHistoryAgrees DEF InitFbuf
<1>2. CASE \E code \in 1 .. PicHeight \div 16 + 1, increment \in 0 .. MaxMacroblocks - 1 :
             SliceInit(code, increment)
  BY <1>2, SliceInitAgrees
<1>3. CASE Intra
  BY <1>3, IntraAgrees
<1>4. CASE Inter
  BY <1>4, InterAgrees
<1>5. CASE InterZero
  BY <1>5, InterZeroAgrees
<1>6. CASE Increment
  BY <1>6, IncrementAgrees
<1>7. CASE Skip
  BY <1>7, SkipAgrees
<1>8. CASE EndOfSlice
  BY <1>8, NewHistoryAgrees DEF EndOfSlice
<1>9. CASE UNCHANGED vars
  <2>1. UNCHANGED <<pc, pic, pmv, dc, history, last>>
    BY <1>9 DEF vars
  <2>2. DCInv'
    BY <2>1 DEF DCInv, AgreeInv
  <2> QED BY <2>1, <2>2, StillAgrees
<1> QED BY <1>1, <1>2, <1>3, <1>4, <1>5, <1>6, <1>7, <1>8, <1>9 DEF Next

\* The decoder takes every macroblock of a slice for what the sender meant, for
\* every size of the picture, all kinds of pictures and every succession of
\* macroblocks: motion_xxx of slice.c add the differences in the stream to the
\* predictors the sender subtracted, read the fields it chose, and
\* dc_dct_pred is the macroblock it predicted from.
THEOREM DecodedAsMeantCorrect == Spec => []DecodedAsMeant
<1>1. Init => IInv /\ AgreeInv
  <2>1. Init => pc = "idle" /\ history = <<>>
    BY DEF Init
  <2>2. Init => AgreeInv
    BY <2>1 DEF AgreeInv, PredictorInv, DCInv, DecodedAsMeant
  <2> QED BY <2>2, Initially
<1>2. IInv /\ AgreeInv /\ [Next]_vars => (IInv /\ AgreeInv)'
  BY Inductive, AgreeInductive
<1>3. AgreeInv => DecodedAsMeant
  BY DEF AgreeInv
<1> QED BY <1>1, <1>2, <1>3, PTL DEF Spec
=============================================================================
