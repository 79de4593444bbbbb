------------------------- MODULE FrameOutput_proofs -------------------------
(***************************************************************************)
(* Yadif interpolates between neighbours, the telecine mode is what the    *)
(* last frames say, no change costs more than one frame, and what is sent  *)
(* goes forward from a key frame on: for every number of frames and        *)
(* changes, every size of the queue, every set of methods and every window *)
(* of the detection.                                                       *)
(***************************************************************************)
EXTENDS FrameOutput, FiniteSetTheorems, SequenceTheorems, TLAPS

-----------------------------------------------------------------------------
(* The frames that Yadif keeps *)

Entry ==
  [flags : SUBSET {"repeat", "frame", "sequence"}, size : Nat, film : BOOLEAN,
   method : AllMethods, seen : BOOLEAN, session : Nat]

Kept(kept, P) ==
  kept \in Seq(Nat) /\ Len(kept) <= 3 /\ \A i \in 1 .. Len(kept) : kept[i] \in P

\* Frames of l next to each other among those in P, of one size and session.
Neighbours(kept, P, l) ==
  /\ Kept(kept, P)
  /\ \A i \in 1 .. Len(kept) - 1 :
       /\ kept[i] <= kept[i + 1]
       /\ \A n \in P : ~(kept[i] < n /\ n < kept[i + 1])
       /\ l[kept[i]].size = l[kept[i + 1]].size
       /\ l[kept[i]].session = l[kept[i + 1]].session

\* The next frame follows what is kept.
Follows(f, kept, P, l) ==
  kept # <<>> =>
    LET last == kept[Len(kept)]
    IN  /\ \A n \in P : ~(last < n /\ n < f)
        /\ l[last].session = l[f].session

LEMMA Elements ==
  ASSUME NEW S, NEW s \in Seq(S)
  PROVE  /\ Len(s) \in Nat /\ (s # <<>> <=> Len(s) > 0) /\ \A i \in 1 .. Len(s) : s[i] \in S
  OBVIOUS

LEMMA TailElements ==
  ASSUME NEW s \in Seq(Nat), s # <<>>
  PROVE  /\ Len(s) \in Nat \ {0} /\ s[1] \in Nat /\ Head(s) = s[1]
         /\ Tail(s) \in Seq(Nat) /\ Len(Tail(s)) = Len(s) - 1
         /\ \A i \in 1 .. Len(s) - 1 : Tail(s)[i] = s[i + 1]
  BY HeadTailProperties

LEMMA AppendElements ==
  ASSUME NEW s \in Seq(Nat), NEW e \in Nat
  PROVE  LET t == Append(s, e)
         IN  /\ t \in Seq(Nat) /\ t # <<>> /\ Len(t) = Len(s) + 1 /\ t[Len(s) + 1] = e
             /\ \A i \in 1 .. Len(s) : t[i] = s[i]
  OBVIOUS

LEMMA TailOfThree ==
  ASSUME NEW s \in Seq(Nat), Len(s) = 3
  PROVE  /\ Tail(s) \in Seq(Nat) /\ Len(Tail(s)) = 2
         /\ Tail(s)[1] = s[2] /\ Tail(s)[2] = s[3]
<1> DEFINE r == Tail(s)
           n == Len(s)
<1>1. n > 0 /\ n - 1 = 2
  OBVIOUS
<1> HIDE DEF n
<1>2. s # <<>>
  BY <1>1, Elements, Zenon DEF n
<1>3. r \in Seq(Nat) /\ Len(r) = n - 1 /\ \A i \in 1 .. n - 1 : r[i] = s[i + 1]
  BY <1>2, TailElements, Zenon DEF n
<1> HIDE DEF r
<1>4. r[1] = s[1 + 1] /\ r[2] = s[2 + 1]
  BY <1>1, <1>3
<1>5. Len(r) = 2 /\ 1 + 1 = 2 /\ 2 + 1 = 3
  BY <1>1, <1>3
<1> QED BY <1>3, <1>4, <1>5, Zenon DEF r

LEMMA AppendToTwo ==
  ASSUME NEW r \in Seq(Nat), Len(r) = 2, NEW e \in Nat
  PROVE  LET t == Append(r, e)
         IN  t \in Seq(Nat) /\ Len(t) = 3 /\ t[1] = r[1] /\ t[2] = r[2] /\ t[3] = e
<1> DEFINE t == Append(r, e)
<1>1. t \in Seq(Nat) /\ Len(t) = 3 /\ t[3] = e
  OBVIOUS
<1>2. \A i \in 1 .. Len(r) : t[i] = r[i]
  BY AppendElements, Zenon
<1> HIDE DEF t
<1>3. t[1] = r[1] /\ t[2] = r[2]
  BY <1>2
<1> QED BY <1>1, <1>3 DEF t

\* Yadif was given frame f: it starts with it, adds it, or loses the first for it.
Extended(h, kept, f, P, l) ==
  /\ Kept(h, P) /\ h # <<>> /\ h[Len(h)] = f
  /\ \/ h = <<f>> /\ (kept = <<>> \/ l[kept[1]].size # l[f].size)
     \/ /\ kept # <<>> /\ Len(kept) < 3 /\ l[kept[1]].size = l[f].size
        /\ Len(h) = Len(kept) + 1 /\ h[Len(kept) + 1] = f
        /\ \A i \in 1 .. Len(kept) : h[i] = kept[i]
     \/ /\ Len(kept) = 3 /\ l[kept[1]].size = l[f].size
        /\ Len(h) = 3 /\ h[1] = kept[2] /\ h[2] = kept[3] /\ h[3] = f

LEMMA HistoryKept ==
  ASSUME NEW P, \A n \in P : n \in Nat, NEW f \in P, NEW kept, Kept(kept, P)
  PROVE  Extended(History(kept, f), kept, f, P, log')
<1> DEFINE h == History(kept, f)
           n == Len(kept)
<1>1. /\ kept \in Seq(Nat) /\ n \in Nat /\ n <= 3 /\ f \in Nat
      /\ \A i \in 1 .. n : kept[i] \in P /\ kept[i] \in Nat
  BY DEF Kept
<1>2. n > 0 <=> kept # <<>>
  BY <1>1, Elements, Zenon
<1>3. ~(3 < 3) /\ 3 > 0 /\ (n > 0 \/ n = 0) /\ (n < 3 \/ n = 3) /\ ~(n > 0 /\ n = 0)
  <2>1. n \in Nat /\ n <= 3
    BY <1>1
  <2> HIDE DEF n
  <2> QED BY <2>1
<1>4. h = IF kept # <<>> /\ log'[kept[1]].size # log'[f].size THEN <<f>>
          ELSE IF n < 3 THEN Append(kept, f) ELSE Append(Tail(kept), f)
  BY DEF History
<1> HIDE DEF h
<1>5. CASE h = <<f>> /\ n > 0 /\ log'[kept[1]].size # log'[f].size
  <2>1. Kept(h, P) /\ h # <<>> /\ h[Len(h)] = f
    BY <1>1, <1>5 DEF Kept
  <2> QED BY <1>5, <2>1, Zenon DEF Extended, h
<1>6. CASE h = Append(kept, f) /\ n < 3 /\ (n > 0 => log'[kept[1]].size = log'[f].size)
  <2>1. h \in Seq(Nat) /\ h # <<>> /\ Len(h) = n + 1 /\ h[n + 1] = f /\ \A i \in 1 .. n : h[i] = kept[i]
    BY <1>1, <1>6, AppendElements
  <2>2. Kept(h, P) /\ h[Len(h)] = f
    BY <1>1, <1>6, <2>1 DEF Kept
  <2>3. n = 0 => h = <<f>>
    BY <2>1
  <2> QED BY <1>2, <1>3, <1>6, <2>1, <2>2, <2>3, Zenon DEF n, h, Extended
<1>7. CASE h = Append(Tail(kept), f) /\ n = 3 /\ log'[kept[1]].size = log'[f].size
  <2>1. h \in Seq(Nat) /\ Len(h) = 3 /\ h[1] = kept[2] /\ h[2] = kept[3] /\ h[3] = f
    <3> DEFINE r == Tail(kept)
    <3>1. r \in Seq(Nat) /\ Len(r) = 2 /\ r[1] = kept[2] /\ r[2] = kept[3]
      BY <1>1, <1>7, TailOfThree, Zenon
    <3>2. h = Append(r, f)
      BY <1>7
    <3> HIDE DEF r
    <3>3. LET t == Append(r, f)
          IN  t \in Seq(Nat) /\ Len(t) = 3 /\ t[1] = r[1] /\ t[2] = r[2] /\ t[3] = f
      BY <1>1, <3>1, AppendToTwo, Zenon
    <3> QED BY <3>1, <3>2, <3>3, Zenon
  <2>2. Kept(h, P) /\ h # <<>> /\ h[Len(h)] = f
    <3>1. kept[2] \in P /\ kept[3] \in P
      BY <1>1, <1>7
    <3>2. \A i \in 1 .. Len(h) : i = 1 \/ i = 2 \/ i = 3
      BY <2>1
    <3> QED BY <2>1, <3>1, <3>2 DEF Kept
  <2> QED BY <1>7, <2>1, <2>2, Zenon DEF n, h, Extended
<1> HIDE DEF n
<1>8. \/ h = <<f>> /\ n > 0 /\ log'[kept[1]].size # log'[f].size
      \/ h = Append(kept, f) /\ n < 3 /\ (n > 0 => log'[kept[1]].size = log'[f].size)
      \/ h = Append(Tail(kept), f) /\ n = 3 /\ log'[kept[1]].size = log'[f].size
  BY <1>2, <1>3, <1>4, Zenon DEF n
<1> QED BY <1>5, <1>6, <1>7, <1>8, Zenon DEF h

LEMMA HistoryExtends ==
  ASSUME NEW P, \A n \in P : n \in Nat, NEW f \in P, \A n \in P : n <= f,
         NEW kept, Neighbours(kept, P, log'), Follows(f, kept, P, log')
  PROVE  LET h == History(kept, f)
         IN  /\ Neighbours(h, P, log') /\ Follows(f, h, P, log')
             /\ h # <<>> /\ h[Len(h)] = f
<1> DEFINE h == History(kept, f)
           n == Len(kept)
           Adjacent(a, b) == /\ a <= b /\ \A k \in P : ~(a < k /\ k < b)
                             /\ log'[a].size = log'[b].size /\ log'[a].session = log'[b].session
<1>1. /\ kept \in Seq(Nat) /\ n \in Nat /\ n <= 3 /\ f \in Nat
      /\ \A i \in 1 .. n : kept[i] \in P /\ kept[i] \in Nat
      /\ \A k \in P : k \in Nat /\ k <= f
  BY DEF Neighbours, Kept
<1>2. Kept(kept, P)
  BY DEF Neighbours
<1>3. Extended(h, kept, f, P, log')
  BY <1>1, <1>2, HistoryKept, Zenon
<1> HIDE DEF h
<1>4. Follows(f, h, P, log')
  BY <1>3 DEF Follows, Extended
<1>5. ASSUME n > 0
      PROVE  /\ kept[n] <= f /\ (\A k \in P : ~(kept[n] < k /\ k < f))
             /\ log'[kept[n]].session = log'[f].session
  <2>1. n \in 1 .. n /\ kept # <<>>
    BY <1>1, <1>5
  <2> QED BY <1>1, <2>1 DEF Follows
<1>6. \A i \in 1 .. n - 1 : Adjacent(kept[i], kept[i + 1])
  BY DEF Neighbours
<1>7. ASSUME n > 0, log'[kept[1]].size = log'[f].size
      PROVE  Adjacent(kept[n], f)
  <2>1. n = 1 \/ n = 2 \/ n = 3
    <3>1. n \in Nat /\ n <= 3 /\ n > 0
      BY <1>1, <1>7
    <3> HIDE DEF n
    <3> QED BY <3>1
  <2>2. n >= 2 => log'[kept[1]].size = log'[kept[1 + 1]].size
    BY <1>1, <1>6
  <2>3. n = 3 => log'[kept[2]].size = log'[kept[2 + 1]].size
    BY <1>1, <1>6
  <2>4. log'[kept[n]].size = log'[f].size
    BY <1>7, <2>1, <2>2, <2>3
  <2> QED BY <1>5, <1>7, <2>4
<1> HIDE DEF n
<1>8. \A i \in 1 .. Len(h) - 1 : Adjacent(h[i], h[i + 1])
  <2>1. CASE h = <<f>>
    BY <2>1
  <2>2. CASE /\ n < 3 /\ Len(h) = n + 1 /\ h[n + 1] = f
             /\ \A i \in 1 .. n : h[i] = kept[i]
             /\ n > 0 /\ log'[kept[1]].size = log'[f].size
    <3> TAKE i \in 1 .. Len(h) - 1
    <3>1. CASE i = n
      <4>1. h[i] = kept[n] /\ h[i + 1] = f
        BY <1>1, <2>2, <3>1
      <4> QED BY <1>7, <2>2, <4>1, Zenon
    <3>2. CASE i # n
      <4>1. i \in 1 .. n - 1 /\ h[i] = kept[i] /\ h[i + 1] = kept[i + 1]
        BY <1>1, <2>2, <3>2
      <4> QED BY <1>6, <4>1, Zenon
    <3> QED BY <3>1, <3>2
  <2>3. CASE /\ n = 3 /\ Len(h) = 3 /\ h[1] = kept[2] /\ h[2] = kept[3] /\ h[3] = f
             /\ log'[kept[1]].size = log'[f].size
    <3>1. 2 \in 1 .. n - 1 /\ 1 + 1 = 2 /\ 2 + 1 = 3 /\ n > 0
      BY <2>3
    <3>2. Adjacent(kept[2], kept[3]) /\ Adjacent(kept[3], f)
      BY <1>6, <1>7, <2>3, <3>1, Zenon
    <3> TAKE i \in 1 .. Len(h) - 1
    <3>3. i = 1 \/ i = 2
      BY <2>3
    <3> HIDE DEF Adjacent
    <3> QED BY <2>3, <3>1, <3>2, <3>3, Zenon
  <2> HIDE DEF Adjacent
  <2>4. n > 0 <=> kept # <<>>
    BY <1>1, Elements, Zenon DEF n
  <2> QED BY <1>3, <2>1, <2>2, <2>3, <2>4, Zenon DEF n, Extended
<1> QED BY <1>3, <1>4, <1>8, Zenon DEF Neighbours, Extended, h

-----------------------------------------------------------------------------
(* The inductive invariant *)

Past == ToSet(passed)

\* Frames are displayed, wait in the queue, and are given to a deinterlacer, in order.
Ordered(queue, P, l, s) ==
  /\ queue \in Seq(Nat)
  /\ \A i \in 1 .. Len(queue) :
       /\ queue[i] \in 1 .. Len(l)
       /\ \A n \in P : n < queue[i]
       /\ l[queue[i]].session = s
       /\ \A j \in 1 .. i - 1 : queue[j] < queue[i]

OrderInv ==
  /\ passed \in Seq(Nat) /\ \A n \in Past : n \in 1 .. Len(log)
  /\ Ordered(m_FrameQueue, Past, log, session)
  /\ client = "object" => m_FrameQueue = <<>>

LogInv ==
  /\ log \in Seq(Entry) /\ Len(log) <= MaxFrames[client]
  /\ m_FrameCount <= Len(log)
  /\ session <= changes

\* All of TypeOK but the frames in sequences, which OrderInv and KeptInv name.
TypeInv ==
  /\ client \in Clients /\ open \in BOOLEAN
  /\ m_DeinterlaceMethod \in Methods[client] \cup {"BLEND"} /\ Deinterlace \in AllMethods
  /\ adapt \in BOOLEAN /\ interlaced \in BOOLEAN
  /\ m_FrameQueueSize \in QueueSizes \cup {0} /\ Len(m_FrameQueue) <= m_FrameQueueSize
  /\ m_fEnableWaitForKeyFrame \in BOOLEAN /\ m_fWaitForKeyFrame \in BOOLEAN
  /\ m_fFilm \in BOOLEAN /\ m_fTelecineMode \in BOOLEAN
  /\ m_RecentFrameTypes \in [1 .. Window -> BOOLEAN]
  /\ m_LastFilmFrame \in 0 .. MaxFrames[client] /\ m_FrameCount \in Nat
  /\ Flags \in FlagSets[client] \cup {{}}
  /\ m_Frames \in [Yadifs -> Seq(Nat)] /\ stale \in BOOLEAN
  /\ session \in Nat /\ changes \in 0 .. MaxChanges[client]

\* The method of the i-th frame that waits, at the end that of the next frame.
Due(i, queue, D, l) == IF i <= Len(queue) THEN l[queue[i]].method ELSE D
Waiting(queue) == 1 .. Len(queue) + 1

\* The frames of a method that still wait are one run, and if Yadif keeps
\* frames already they are the rest of one it has begun.
Runs(frames, queue, D, l) ==
  \A m \in Yadifs, i, j \in Waiting(queue) :
    i < j /\ Due(j, queue, D, l) = m =>
      /\ frames[m] # <<>> => Due(i, queue, D, l) = m
      /\ Due(i, queue, D, l) = m => \A k \in i .. j : Due(k, queue, D, l) = m

\* If so, it was given the last frame.
Latest(frames, queue, D, P, l, s) ==
  \A m \in Yadifs :
    LET kept == frames[m]
    IN  kept # <<>> /\ (\E i \in Waiting(queue) : Due(i, queue, D, l) = m) =>
          /\ \A n \in P : n <= kept[Len(kept)]
          /\ l[kept[Len(kept)]].session = s

Unbroken(frames, queue, D, P, l, s) ==
  /\ \A m \in Yadifs : Neighbours(frames[m], P, l)
  /\ Runs(frames, queue, D, l)
  /\ Latest(frames, queue, D, P, l, s)

KeptInv ==
  /\ \A m \in Yadifs : Kept(m_Frames[m], Past)
  /\ ~stale => Unbroken(m_Frames, m_FrameQueue, Deinterlace, Past, log, session)

IInv == TypeInv /\ OrderInv /\ LogInv /\ KeptInv

LEMMA Retyped ==
  ASSUME NEW T, NEW s \in Seq(Nat), \A i \in 1 .. Len(s) : s[i] \in T
  PROVE  s \in Seq(T)
<1>1. Len(s) \in Nat /\ s \in [1 .. Len(s) -> Nat]
  BY LenProperties
<1>2. s \in [1 .. Len(s) -> T]
  BY <1>1
<1> QED BY <1>1, <1>2, SeqDef

LEMMA Typing ==
  ASSUME IInv
  PROVE  TypeOK
<1>1. Len(log) \in Nat /\ Len(log) <= MaxFrames[client]
  BY DEF IInv, LogInv
<1>2. MaxFrames[client] \in Nat /\ MaxChanges[client] \in Nat
  BY OutputAssumption DEF IInv, TypeInv
<1>3. \A n \in 1 .. Len(log) : n \in Frames
  BY <1>1, <1>2 DEF Frames
<1>4. m_FrameQueue \in Seq(Frames)
  <2>1. m_FrameQueue \in Seq(Nat) /\ \A i \in 1 .. Len(m_FrameQueue) : m_FrameQueue[i] \in 1 .. Len(log)
    BY DEF IInv, OrderInv, Ordered
  <2> QED BY <1>3, <2>1, Retyped
<1>5. \A m \in Yadifs : m_Frames[m] \in Seq(Frames) /\ Len(m_Frames[m]) <= 3
  <2> TAKE m \in Yadifs
  <2> DEFINE kept == m_Frames[m]
  <2>1. kept \in Seq(Nat) /\ Len(kept) <= 3 /\ \A i \in 1 .. Len(kept) : kept[i] \in Past
    BY DEF IInv, KeptInv, Kept
  <2>2. \A n \in Past : n \in Frames
    BY <1>3 DEF IInv, OrderInv
  <2> HIDE DEF kept
  <2>3. kept \in Seq(Frames) /\ Len(kept) <= 3
    BY <2>1, <2>2, Retyped
  <2> QED BY <2>3 DEF kept
<1>6. m_Frames \in [Yadifs -> Seq(Frames)] /\ \A m \in Yadifs : Len(m_Frames[m]) <= 3
  BY <1>5 DEF IInv, TypeInv
<1>7. m_FrameCount \in 0 .. MaxFrames[client] /\ session \in 0 .. MaxChanges[client]
  <2>1. m_FrameCount \in Nat /\ m_FrameCount <= Len(log) /\ session \in Nat /\ session <= changes
        /\ changes \in 0 .. MaxChanges[client]
    BY DEF IInv, TypeInv, LogInv
  <2> QED BY <1>1, <1>2, <2>1
<1> QED BY <1>1, <1>4, <1>6, <1>7 DEF IInv, TypeInv, TypeOK

-----------------------------------------------------------------------------
(* What a deinterlacer is given *)

LEMMA Appended ==
  ASSUME NEW S, NEW s \in Seq(S), NEW e
  PROVE  ToSet(Append(s, e)) = ToSet(s) \cup {e}
<1> DEFINE t == Append(s, e)
<1>1. /\ DOMAIN s = 1 .. Len(s) /\ DOMAIN t = 1 .. Len(s) + 1 /\ Len(s) \in Nat
      /\ t[Len(s) + 1] = e /\ \A i \in 1 .. Len(s) : t[i] = s[i]
  OBVIOUS
<1> HIDE DEF t
<1>2. ToSet(t) = {t[i] : i \in 1 .. Len(s) + 1}
  BY <1>1 DEF ToSet
<1>3. ToSet(s) = {s[i] : i \in 1 .. Len(s)}
  BY <1>1 DEF ToSet
<1>4. 1 .. Len(s) + 1 = (1 .. Len(s)) \cup {Len(s) + 1}
  BY <1>1
<1>5. {t[i] : i \in 1 .. Len(s) + 1} = {t[i] : i \in 1 .. Len(s)} \cup {t[Len(s) + 1]}
  BY <1>4
<1>6. {t[i] : i \in 1 .. Len(s)} = {s[i] : i \in 1 .. Len(s)}
  BY <1>1
<1> QED BY <1>1, <1>2, <1>3, <1>5, <1>6, Zenon DEF t

\* The frames that the deinterlacers keep after Output.
LEMMA OutputFrames ==
  ASSUME NEW f, NEW method, NEW frames, NEW waits, NEW one,
         Output(f, method, frames, waits, one)
  PROVE  /\ passed' = Append(passed, f)
         /\ m_Frames' = [m \in Yadifs |-> m_Frames'[m]]
         /\ \A m \in Yadifs :
              IF m # method THEN m_Frames'[m] = frames[m]
              ELSE \/ m_Frames'[m] = History(frames[m], f)
                   \/ m_Frames'[m] = History(History(frames[m], f), f)
  BY DEF Output, GetFrame

LEMMA DueAfter ==
  ASSUME NEW q \in Seq(Nat), q # <<>>, NEW D, NEW l
  PROVE  /\ Due(1, q, D, l) = l[q[1]].method /\ Len(q) \in Nat \ {0} /\ Len(Tail(q)) = Len(q) - 1
         /\ \A i \in Waiting(Tail(q)) : /\ i \in Nat \ {0} /\ i + 1 \in Waiting(q) /\ 1 \in Waiting(q)
                                        /\ Due(i, Tail(q), D, l) = Due(i + 1, q, D, l)
<1> DEFINE r == Tail(q)
           n == Len(q)
<1>1. n \in Nat \ {0} /\ Len(r) = n - 1 /\ \A i \in 1 .. n - 1 : r[i] = q[i + 1]
  BY TailElements, Zenon
<1> HIDE DEF r, n
<1>2. Due(1, q, D, l) = l[q[1]].method
  BY <1>1 DEF Due, n
<1>3. ASSUME NEW i \in Waiting(r)
      PROVE  i \in Nat \ {0} /\ i + 1 \in Waiting(q) /\ 1 \in Waiting(q) /\ Due(i, r, D, l) = Due(i + 1, q, D, l)
  <2>1. i \in 1 .. n
    BY <1>1, <1>3 DEF Waiting
  <2>2. i + 1 \in Waiting(q) /\ 1 \in Waiting(q) /\ i \in Nat \ {0}
    BY <1>1, <2>1 DEF Waiting, n
  <2>3. i <= n - 1 => r[i] = q[i + 1]
    BY <1>1, <2>1
  <2>4. i <= n - 1 <=> i + 1 <= n
    BY <1>1, <2>1
  <2>5. Due(i, r, D, l) = IF i <= n - 1 THEN l[r[i]].method ELSE D
    BY <1>1, Zenon DEF Due
  <2>6. Due(i + 1, q, D, l) = IF i + 1 <= n THEN l[q[i + 1]].method ELSE D
    BY Zenon DEF Due, n
  <2> QED BY <2>2, <2>3, <2>4, <2>5, <2>6, Zenon
<1> QED BY <1>1, <1>2, <1>3, Zenon DEF r, n

\* A frame later than all does not come between others.
LEMMA NeighboursLater ==
  ASSUME NEW P, \A n \in P : n \in Nat, NEW f \in Nat, \A n \in P : n < f,
         NEW kept, NEW l, Neighbours(kept, P, l)
  PROVE  Neighbours(kept, P \cup {f}, l)
<1>1. kept \in Seq(Nat) /\ Len(kept) \in Nat /\ \A i \in 1 .. Len(kept) : kept[i] \in P
  BY DEF Neighbours, Kept
<1>2. Kept(kept, P \cup {f})
  BY <1>1 DEF Neighbours, Kept
<1>3. ASSUME NEW i \in 1 .. Len(kept) - 1
      PROVE  ~(kept[i] < f /\ f < kept[i + 1])
  <2>1. i + 1 \in 1 .. Len(kept)
    BY <1>1
  <2>2. kept[i + 1] \in P
    BY <1>1, <2>1
  <2> QED BY <2>2
<1> QED BY <1>2, <1>3 DEF Neighbours

\* The first frame of the queue is given to the deinterlacer of its method.
LEMMA GivenUnbroken ==
  ASSUME NEW q \in Seq(Nat), q # <<>>, NEW D, NEW s, NEW frames, NEW f \in Nat, f = q[1],
         passed \in Seq(Nat), \A n \in Past : n \in Nat /\ n < f, log'[f].session = s,
         Unbroken(frames, q, D, Past, log', s),
         NEW waits, NEW one, Output(f, log'[f].method, frames, waits, one)
  PROVE  Unbroken(m_Frames', Tail(q), D, Past \cup {f}, log', s)
<1> DEFINE method == log'[f].method
           P == Past \cup {f}
           r == Tail(q)
<1>1. /\ Due(1, q, D, log') = method
      /\ \A i \in Waiting(r) : /\ i \in Nat \ {0} /\ i + 1 \in Waiting(q) /\ 1 \in Waiting(q)
                               /\ Due(i, r, D, log') = Due(i + 1, q, D, log')
  BY DueAfter
<1>2. 1 \in Waiting(q)
  <2>1. Len(q) \in Nat
    BY Elements
  <2> QED BY <2>1 DEF Waiting
<1>3. \A m \in Yadifs :
        IF m # method THEN m_Frames'[m] = frames[m]
        ELSE \/ m_Frames'[m] = History(frames[m], f)
             \/ m_Frames'[m] = History(History(frames[m], f), f)
  BY OutputFrames
<1>4. f \in P /\ \A n \in P : n \in Nat /\ n <= f
  OBVIOUS
<1>5. \A m \in Yadifs : Neighbours(frames[m], P, log')
  BY NeighboursLater DEF Unbroken
<1>6. ASSUME method \in Yadifs
      PROVE  LET h == m_Frames'[method]
             IN  Neighbours(h, P, log') /\ h # <<>> /\ h[Len(h)] = f
  <2> DEFINE kept == frames[method]
             h1 == History(kept, f)
  <2>1. Follows(f, kept, P, log')
    <3>1. kept # <<>> => /\ \A n \in Past : n <= kept[Len(kept)]
                         /\ log'[kept[Len(kept)]].session = s
      BY <1>1, <1>2, <1>6 DEF Unbroken, Latest
    <3>2. kept # <<>> => kept[Len(kept)] \in Nat
      <4>1. kept \in Seq(Nat)
        BY <1>6 DEF Unbroken, Neighbours, Kept
      <4> QED BY <4>1
    <3> HIDE DEF kept
    <3> QED BY <3>1, <3>2 DEF Follows
  <2>2. Neighbours(kept, P, log')
    BY <1>5, <1>6
  <2> HIDE DEF kept, P
  <2>3. Neighbours(h1, P, log') /\ Follows(f, h1, P, log') /\ h1 # <<>> /\ h1[Len(h1)] = f
    BY <1>4, <2>1, <2>2, HistoryExtends
  <2> HIDE DEF h1
  <2>4. LET h == History(h1, f)
        IN  Neighbours(h, P, log') /\ h # <<>> /\ h[Len(h)] = f
    BY <1>4, <2>3, HistoryExtends
  <2>5. m_Frames'[method] = h1 \/ m_Frames'[method] = History(h1, f)
    BY <1>3, <1>6 DEF h1, kept
  <2> QED BY <2>3, <2>4, <2>5, Zenon
<1> HIDE DEF method, P, r
<1>7. \A m \in Yadifs : Neighbours(m_Frames'[m], P, log')
  BY <1>3, <1>5, <1>6, Zenon
<1>8. Runs(m_Frames', r, D, log')
  <2> SUFFICES ASSUME NEW m \in Yadifs, NEW i \in Waiting(r), NEW j \in Waiting(r),
                      i < j, Due(j, r, D, log') = m
               PROVE  /\ m_Frames'[m] # <<>> => Due(i, r, D, log') = m
                      /\ Due(i, r, D, log') = m => \A k \in i .. j : Due(k, r, D, log') = m
    BY Zenon DEF Runs
  <2>1. Runs(frames, q, D, log')
    BY DEF Unbroken
  <2>2. /\ i + 1 \in Waiting(q) /\ j + 1 \in Waiting(q) /\ i + 1 < j + 1 /\ 1 < i + 1 /\ 1 < j + 1
        /\ Due(j + 1, q, D, log') = m /\ Due(i, r, D, log') = Due(i + 1, q, D, log')
        /\ i \in Nat /\ j \in Nat /\ i > 0
    BY <1>1
  <2>3. m = method => Due(i + 1, q, D, log') = m
    <3>1. m = method => \A k \in 1 .. j + 1 : Due(k, q, D, log') = m
      BY <1>1, <1>2, <2>1, <2>2, Zenon DEF Runs
    <3>2. i + 1 \in 1 .. j + 1
      BY <2>2
    <3> QED BY <3>1, <3>2, Zenon
  <2>4. m # method /\ m_Frames'[m] # <<>> => Due(i + 1, q, D, log') = m
    BY <1>3, <2>1, <2>2, Zenon DEF Runs
  <2>5. ASSUME Due(i + 1, q, D, log') = m, NEW k \in i .. j
        PROVE  Due(k, r, D, log') = m
    <3>1. k \in Waiting(r) /\ k + 1 \in (i + 1) .. (j + 1)
      BY <2>2 DEF Waiting
    <3>2. Due(k, r, D, log') = Due(k + 1, q, D, log')
      BY <1>1, <3>1
    <3>3. \A h \in (i + 1) .. (j + 1) : Due(h, q, D, log') = m
      BY <2>1, <2>2, <2>5, Zenon DEF Runs
    <3> QED BY <3>1, <3>2, <3>3
  <2> QED BY <2>2, <2>3, <2>4, <2>5, Zenon
<1>9. Latest(m_Frames', r, D, P, log', s)
  <2> SUFFICES ASSUME NEW m \in Yadifs, m_Frames'[m] # <<>>,
                      NEW i \in Waiting(r), Due(i, r, D, log') = m
               PROVE  LET kept == m_Frames'[m]
                      IN  /\ \A n \in P : n <= kept[Len(kept)]
                          /\ log'[kept[Len(kept)]].session = s
    BY Zenon DEF Latest
  <2>1. m = method
    <3>1. i + 1 \in Waiting(q) /\ 1 < i + 1 /\ Due(i + 1, q, D, log') = m
      BY <1>1
    <3>2. m # method => frames[m] # <<>>
      BY <1>3, Zenon
    <3>3. Runs(frames, q, D, log')
      BY DEF Unbroken
    <3>4. frames[m] # <<>> => Due(1, q, D, log') = m
      BY <1>2, <3>1, <3>3, Zenon DEF Runs
    <3> QED BY <1>1, <3>2, <3>4
  <2>2. m_Frames'[m][Len(m_Frames'[m])] = f
    BY <1>6, <2>1
  <2> QED BY <1>4, <2>2, Zenon DEF P
<1> QED BY <1>7, <1>8, <1>9, Zenon DEF Unbroken, P, r

\* The method of the next frame is chosen anew, and Yadif starts again if it
\* is changed to it.
Restarted(frames, D, E) == [m \in Yadifs |-> IF m = E /\ E # D THEN <<>> ELSE frames[m]]

LEMMA SameLog ==
  ASSUME log \in Seq(Entry), NEW e \in Entry, log' = Append(log, e)
  PROVE  /\ Len(log) \in Nat /\ Len(log') = Len(log) + 1 /\ log' \in Seq(Entry)
         /\ log'[Len(log) + 1] = e
         /\ \A n \in 1 .. Len(log) : log'[n] = log[n]
  BY AppendProperties

\* A frame was displayed with method E, as the next will be: q waits after queue.
DueThen(q, queue, D, E, l, r) ==
  \A i \in Waiting(q) : Due(i, q, E, r) = IF i <= Len(queue) THEN Due(i, queue, D, l) ELSE E

LEMMA DueDisplayed ==
  ASSUME log \in Seq(Entry), NEW e \in Entry, log' = Append(log, e),
         OrderInv, NEW E, e.method = E, NEW D,
         NEW q, q = m_FrameQueue \/ q = Append(m_FrameQueue, Len(log) + 1)
  PROVE  LET queue == m_FrameQueue
             n == Len(queue)
         IN  /\ DueThen(q, queue, D, E, log, log')
             /\ \A i \in Waiting(q) : i \in Nat \ {0} /\ (i <= n => i \in Waiting(queue))
             /\ n + 1 \in Waiting(queue) /\ Due(n + 1, queue, D, log) = D
<1> DEFINE queue == m_FrameQueue
           n == Len(queue)
           d(i) == Due(i, queue, D, log)
<1>1. /\ Len(log) \in Nat /\ Len(log') = Len(log) + 1 /\ log'[Len(log) + 1] = e
      /\ \A k \in 1 .. Len(log) : log'[k] = log[k]
  BY SameLog
<1>2. queue \in Seq(Nat) /\ n \in Nat /\ \A i \in 1 .. n : queue[i] \in 1 .. Len(log)
  BY DEF OrderInv, Ordered
<1>5. /\ Len(q) \in {n, n + 1}
      /\ \A i \in 1 .. n : log'[q[i]].method = log[queue[i]].method
      /\ \A i \in (n + 1) .. Len(q) : log'[q[i]].method = E
  <2>1. CASE q = queue
    BY <1>1, <1>2, <2>1
  <2>2. CASE q = Append(queue, Len(log) + 1)
    <3>1. Len(q) = n + 1 /\ q[n + 1] = Len(log) + 1 /\ \A i \in 1 .. n : q[i] = queue[i]
      BY <1>1, <1>2, <2>2, AppendElements
    <3> QED BY <1>1, <1>2, <3>1
  <2> QED BY <2>1, <2>2
<1>6. \A i \in Waiting(q) : Due(i, q, E, log') = IF i <= n THEN d(i) ELSE E
  <2> TAKE i \in Waiting(q)
  <2>1. Due(i, q, E, log') = IF i <= Len(q) THEN log'[q[i]].method ELSE E
    BY DEF Due
  <2>2. i <= n => d(i) = log[queue[i]].method
    BY DEF Due
  <2>3. /\ i <= n => i \in 1 .. n /\ i <= Len(q)
        /\ ~(i <= n) /\ i <= Len(q) => i \in (n + 1) .. Len(q)
    <3>1. n \in Nat /\ (Len(q) = n \/ Len(q) = n + 1) /\ i \in 1 .. Len(q) + 1
      BY <1>2, <1>5 DEF Waiting
    <3> HIDE DEF n
    <3> QED BY <3>1
  <2> HIDE DEF d, n
  <2> QED BY <1>5, <2>1, <2>2, <2>3, Zenon
<1>7. /\ \A i \in Waiting(q) : i \in Nat \ {0} /\ (i <= n => i \in Waiting(queue))
      /\ n + 1 \in Waiting(queue) /\ d(n + 1) = D
  BY <1>2, <1>5 DEF Due, Waiting
<1> QED BY <1>6, <1>7, Zenon DEF DueThen

LEMMA DisplayedUnbroken ==
  ASSUME log \in Seq(Entry), NEW e \in Entry, log' = Append(log, e), e.session = session,
         OrderInv, NEW E, e.method = E,
         NEW D, NEW frames, Unbroken(frames, m_FrameQueue, D, Past, log, session),
         E # D => \A i \in 1 .. Len(m_FrameQueue) : log[m_FrameQueue[i]].method # E,
         NEW q, q = m_FrameQueue \/ q = Append(m_FrameQueue, Len(log) + 1)
  PROVE  Unbroken(Restarted(frames, D, E), q, E, Past, log', session)
<1> DEFINE queue == m_FrameQueue
           n == Len(queue)
           F == Restarted(frames, D, E)
           d(i) == Due(i, queue, D, log)
<1>1. /\ Len(log) \in Nat /\ Len(log') = Len(log) + 1 /\ log'[Len(log) + 1] = e
      /\ \A k \in 1 .. Len(log) : log'[k] = log[k]
  BY SameLog
<1>2. queue \in Seq(Nat) /\ n \in Nat /\ \A i \in 1 .. n : queue[i] \in 1 .. Len(log)
  BY DEF OrderInv, Ordered
<1>3. Past \subseteq 1 .. Len(log)
  BY DEF OrderInv
<1>4. \A m \in Yadifs : Neighbours(F[m], Past, log')
  <2> TAKE m \in Yadifs
  <2>1. CASE F[m] = <<>>
    BY <2>1 DEF Neighbours, Kept
  <2>2. CASE F[m] = frames[m]
    <3> DEFINE kept == F[m]
    <3>1. Neighbours(kept, Past, log)
      BY <2>2 DEF Unbroken
    <3> HIDE DEF kept
    <3>2. \A i \in 1 .. Len(kept) : kept[i] \in Past
      BY <3>1 DEF Neighbours, Kept
    <3>3. \A i \in 1 .. Len(kept) : log'[kept[i]] = log[kept[i]]
      BY <1>1, <1>3, <3>2
    <3>4. Len(kept) \in Nat
      BY <3>1 DEF Neighbours, Kept
    <3>5. \A i \in 1 .. Len(kept) - 1 : log'[kept[i]] = log[kept[i]] /\ log'[kept[i + 1]] = log[kept[i + 1]]
      <4>1. \A i \in 1 .. Len(kept) - 1 : i \in 1 .. Len(kept) /\ i + 1 \in 1 .. Len(kept)
        BY <3>4
      <4> QED BY <3>3, <4>1, Zenon
    <3>6. Neighbours(kept, Past, log')
      BY <3>1, <3>5 DEF Neighbours
    <3> QED BY <3>6 DEF kept
  <2> QED BY <2>1, <2>2 DEF Restarted
<1>6. \A i \in Waiting(q) : Due(i, q, E, log') = IF i <= n THEN d(i) ELSE E
  <2>1. DueThen(q, m_FrameQueue, D, E, log, log')
    BY DueDisplayed, Zenon
  <2> QED BY <2>1, Zenon DEF DueThen
<1>7. /\ \A i \in Waiting(q) : i \in Nat \ {0} /\ (i <= n => i \in Waiting(queue))
      /\ n + 1 \in Waiting(queue) /\ d(n + 1) = D
  BY DueDisplayed, Zenon
<1>8. E # D => \A i \in Waiting(q) : i <= n => d(i) # E
  BY <1>2, <1>7 DEF Due
<1>9. \A m \in Yadifs : F[m] # <<>> => frames[m] # <<>> /\ (m = E => E = D)
  BY DEF Restarted
<1>10. \A m \in Yadifs : F[m] # <<>> => F[m] = frames[m]
  BY DEF Restarted
<1>11. Runs(frames, queue, D, log)
  BY DEF Unbroken
<1> HIDE DEF d, F, n, queue
<1>12. ASSUME NEW m \in Yadifs, NEW i \in Waiting(q), NEW j \in Waiting(q), i < j,
              Due(j, q, E, log') = m
       PROVE  /\ F[m] # <<>> => Due(i, q, E, log') = m
              /\ Due(i, q, E, log') = m => \A k \in i .. j : Due(k, q, E, log') = m
  <2>1. /\ i \in Nat \ {0} /\ j \in Nat /\ n \in Nat
        /\ \A k \in i .. j : k \in Waiting(q) /\ k \in Nat
    BY <1>2, <1>7, <1>12 DEF Waiting
  <2>2. CASE j <= n
    <3>1. i \in Waiting(queue) /\ j \in Waiting(queue) /\ d(j) = m /\ i <= n
      BY <1>6, <1>7, <1>12, <2>1, <2>2
    <3>2. /\ frames[m] # <<>> => d(i) = m
          /\ d(i) = m => \A k \in i .. j : d(k) = m
      BY <1>11, <1>12, <3>1, Zenon DEF Runs, d
    <3>3. \A k \in i .. j : Due(k, q, E, log') = d(k)
      BY <1>6, <2>1, <2>2
    <3>4. Due(i, q, E, log') = d(i)
      BY <1>6, <3>1
    <3> QED BY <1>9, <3>2, <3>3, <3>4
  <2>3. CASE i <= n /\ ~(j <= n)
    <3>1. m = E /\ Due(i, q, E, log') = d(i)
      BY <1>6, <1>12, <2>3
    <3>2. E # D => d(i) # m /\ F[m] = <<>>
      BY <1>8, <1>9, <2>3, <3>1
    <3>3. ASSUME E = D
          PROVE  /\ frames[m] # <<>> => d(i) = m
                 /\ d(i) = m => \A k \in i .. n + 1 : d(k) = m
      <4>1. i \in Waiting(queue) /\ n + 1 \in Waiting(queue) /\ i < n + 1 /\ d(n + 1) = m
        BY <1>7, <2>1, <2>3, <3>1, <3>3
      <4> QED BY <1>11, <4>1, Zenon DEF Runs, d
    <3>4. ASSUME E = D, d(i) = m, NEW k \in i .. j
          PROVE  Due(k, q, E, log') = m
      <4>1. k <= n => k \in i .. n + 1
        BY <2>1
      <4> QED BY <1>6, <2>1, <3>1, <3>3, <3>4, <4>1
    <3> QED BY <1>9, <3>1, <3>2, <3>3, <3>4
  <2>4. CASE ~(i <= n)
    <3>1. \A k \in i .. j : ~(k <= n)
      BY <2>1, <2>4
    <3>2. m = E /\ Due(i, q, E, log') = E
      BY <1>6, <1>12, <2>1, <2>4
    <3> QED BY <1>6, <2>1, <3>1, <3>2
  <2> QED BY <2>2, <2>3, <2>4
<1>13. ASSUME NEW m \in Yadifs, F[m] # <<>>, NEW i \in Waiting(q), Due(i, q, E, log') = m
       PROVE  LET kept == F[m]
              IN  /\ \A k \in Past : k <= kept[Len(kept)]
                  /\ log'[kept[Len(kept)]].session = session
  <2> DEFINE kept == frames[m]
  <2>1. F[m] = kept /\ kept # <<>>
    BY <1>9, <1>10, <1>13
  <2>2. \E j \in Waiting(queue) : d(j) = m
    BY <1>6, <1>7, <1>9, <1>13
  <2>3. /\ \A k \in Past : k <= kept[Len(kept)]
        /\ log[kept[Len(kept)]].session = session
    BY <2>1, <2>2, Zenon DEF Unbroken, Latest, d, queue
  <2>4. kept[Len(kept)] \in Past
    <3>1. Kept(kept, Past)
      BY DEF Unbroken, Neighbours
    <3> HIDE DEF kept
    <3> QED BY <2>1, <3>1 DEF Kept
  <2> HIDE DEF kept
  <2> QED BY <1>1, <1>3, <2>1, <2>3, <2>4
<1>14. Runs(F, q, E, log')
  BY <1>12, Zenon DEF Runs
<1>15. Latest(F, q, E, Past, log', session)
  BY <1>13, Zenon DEF Latest
<1> QED BY <1>4, <1>14, <1>15, Zenon DEF Unbroken, F

-----------------------------------------------------------------------------
(* The steps *)

LEMMA QueuedOrdered ==
  ASSUME log \in Seq(Entry), NEW e \in Entry, log' = Append(log, e), e.session = session, OrderInv,
         NEW q, q = m_FrameQueue \/ q = Append(m_FrameQueue, Len(log) + 1)
  PROVE  Ordered(q, Past, log', session)
<1> DEFINE queue == m_FrameQueue
           n == Len(queue)
<1>1. /\ Len(log) \in Nat /\ Len(log') = Len(log) + 1 /\ log'[Len(log) + 1] = e
      /\ \A k \in 1 .. Len(log) : log'[k] = log[k]
  BY SameLog
<1>2. /\ queue \in Seq(Nat) /\ n \in Nat
      /\ \A i \in 1 .. n : /\ queue[i] \in 1 .. Len(log)
                           /\ \A p \in Past : p < queue[i]
                           /\ log[queue[i]].session = session
                           /\ \A j \in 1 .. i - 1 : queue[j] < queue[i]
      /\ \A p \in Past : p \in 1 .. Len(log)
  BY DEF OrderInv, Ordered
<1> HIDE DEF queue
<1>3. \A i \in 1 .. n : queue[i] \in 1 .. Len(log') /\ log'[queue[i]].session = session
  BY <1>1, <1>2
<1>4. CASE q = queue
  BY <1>2, <1>3, <1>4 DEF Ordered
<1>5. CASE q = Append(queue, Len(log) + 1)
  <2>1. q \in Seq(Nat) /\ Len(q) = n + 1 /\ q[n + 1] = Len(log) + 1 /\ \A i \in 1 .. n : q[i] = queue[i]
    BY <1>1, <1>2, <1>5, AppendElements
  <2> HIDE DEF n
  <2>2. ASSUME NEW i \in 1 .. n + 1
        PROVE  /\ q[i] \in 1 .. Len(log')
               /\ \A p \in Past : p < q[i]
               /\ log'[q[i]].session = session
               /\ \A j \in 1 .. i - 1 : q[j] < q[i]
    <3>1. CASE i <= n
      <4>1. i \in 1 .. n /\ q[i] = queue[i] /\ \A j \in 1 .. i - 1 : j \in 1 .. n /\ q[j] = queue[j]
        BY <1>2, <2>1, <3>1
      <4> QED BY <1>2, <1>3, <4>1
    <3>2. CASE i = n + 1
      <4>1. q[i] = Len(log) + 1 /\ log'[q[i]] = e
        BY <1>1, <2>1, <3>2
      <4>2. \A j \in 1 .. i - 1 : q[j] \in 1 .. Len(log)
        <5>1. \A j \in 1 .. i - 1 : j \in 1 .. n
          BY <1>2, <3>2
        <5>2. \A j \in 1 .. n : q[j] \in 1 .. Len(log)
          BY <1>2, <2>1
        <5> QED BY <5>1, <5>2
      <4> QED BY <1>1, <1>2, <4>1, <4>2
    <3> QED BY <1>2, <3>1, <3>2
  <2> QED BY <2>1, <2>2 DEF Ordered
<1> QED BY <1>4, <1>5 DEF queue

LEMMA GivenOrdered ==
  ASSUME NEW q, NEW P, NEW l, NEW s, Ordered(q, P, l, s), q # <<>>, Len(l) \in Nat
  PROVE  /\ Ordered(Tail(q), P \cup {q[1]}, l, s)
         /\ q[1] \in 1 .. Len(l) /\ l[q[1]].session = s /\ \A n \in P : n < q[1]
         /\ Len(Tail(q)) = Len(q) - 1 /\ Head(q) = q[1] /\ Len(q) \in Nat
<1> DEFINE n == Len(q)
           r == Tail(q)
<1>1. /\ q \in Seq(Nat)
      /\ \A i \in 1 .. n : /\ q[i] \in 1 .. Len(l)
                           /\ \A p \in P : p < q[i]
                           /\ l[q[i]].session = s
                           /\ \A j \in 1 .. i - 1 : q[j] < q[i]
  BY DEF Ordered
<1>2. /\ n \in Nat \ {0} /\ Head(q) = q[1] /\ r \in Seq(Nat) /\ Len(r) = n - 1
      /\ \A i \in 1 .. n - 1 : r[i] = q[i + 1]
  BY <1>1, TailElements
<1> HIDE DEF n, r
<1>3. ASSUME NEW i \in 1 .. n - 1
      PROVE  /\ r[i] \in 1 .. Len(l)
             /\ \A p \in P \cup {q[1]} : p < r[i]
             /\ l[r[i]].session = s
             /\ \A j \in 1 .. i - 1 : r[j] < r[i]
  <2>1. i + 1 \in 1 .. n /\ 1 \in 1 .. (i + 1) - 1 /\ r[i] = q[i + 1]
    BY <1>2
  <2>2. \A j \in 1 .. i - 1 : r[j] = q[j + 1] /\ j + 1 \in 1 .. (i + 1) - 1
    BY <1>2
  <2> QED BY <1>1, <2>1, <2>2
<1>4. 1 \in 1 .. n
  BY <1>2
<1> QED BY <1>1, <1>2, <1>3, <1>4 DEF Ordered, n, r

\* The deinterlacer that frame f of the queue is given to.
LEMMA GivenKept ==
  ASSUME NEW f \in Nat, passed \in Seq(Nat), \A n \in Past : n \in Nat,
         NEW frames, \A m \in Yadifs : Kept(frames[m], Past),
         NEW method, NEW waits, NEW one, Output(f, method, frames, waits, one)
  PROVE  /\ Past' = Past \cup {f} /\ passed' \in Seq(Nat)
         /\ m_Frames' \in [Yadifs -> Seq(Nat)]
         /\ \A m \in Yadifs : Kept(m_Frames'[m], Past')
<1>1. /\ passed' = Append(passed, f) /\ m_Frames' = [m \in Yadifs |-> m_Frames'[m]]
      /\ \A m \in Yadifs :
           IF m # method THEN m_Frames'[m] = frames[m]
           ELSE \/ m_Frames'[m] = History(frames[m], f)
                \/ m_Frames'[m] = History(History(frames[m], f), f)
  BY OutputFrames
<1>2. Past' = Past \cup {f}
  BY <1>1, Appended DEF Past
<1>3. passed' \in Seq(Nat)
  BY <1>1, AppendElements
<1> DEFINE P == Past \cup {f}
<1>4. f \in P /\ \A n \in P : n \in Nat
  OBVIOUS
<1> HIDE DEF P
<1>5. ASSUME NEW m \in Yadifs
      PROVE  Kept(m_Frames'[m], P)
  <2> DEFINE kept == frames[m]
             h == History(kept, f)
  <2>1. Kept(kept, P)
    <3>1. Kept(kept, Past)
      OBVIOUS
    <3> HIDE DEF kept
    <3> QED BY <3>1 DEF Kept, P
  <2> HIDE DEF kept
  <2>2. Kept(h, P)
    BY <1>4, <2>1, HistoryKept DEF Extended
  <2> HIDE DEF h
  <2>3. Kept(History(h, f), P)
    BY <1>4, <2>2, HistoryKept DEF Extended
  <2>4. m_Frames'[m] \in {kept, h, History(h, f)}
    BY <1>1 DEF kept, h
  <2> QED BY <2>1, <2>2, <2>3, <2>4
<1>6. \A m \in Yadifs : m_Frames'[m] \in Seq(Nat)
  BY <1>5 DEF Kept
<1> QED BY <1>1, <1>2, <1>3, <1>5, <1>6 DEF P

-----------------------------------------------------------------------------
(* The steps that display a frame *)

\* After an action, what the frames in sequences must be.
After ==
  /\ passed' \in Seq(Nat) /\ \A n \in Past' : n \in 1 .. Len(log')
  /\ Ordered(m_FrameQueue', Past', log', session')
  /\ m_Frames' \in [Yadifs -> Seq(Nat)]
  /\ KeptInv'

LEMMA Given ==
  ASSUME OrderInv, log \in Seq(Entry), NEW e \in Entry, log' = Append(log, e),
         e.session = session, session' = session, NEW frames, \A m \in Yadifs : Kept(frames[m], Past),
         NEW q, q = m_FrameQueue \/ q = Append(m_FrameQueue, Len(log) + 1), q # <<>>,
         ~stale' => Unbroken(frames, q, Deinterlace', Past, log', session),
         m_FrameQueue' = Tail(q), NEW waits, NEW one,
         Output(q[1], log'[q[1]].method, frames, waits, one)
  PROVE  After
<1> DEFINE f == q[1]
<1>1. Len(log) \in Nat /\ Len(log') \in Nat /\ Len(log') = Len(log) + 1
  BY SameLog
<1>2. passed \in Seq(Nat) /\ \A n \in Past : n \in 1 .. Len(log)
  BY DEF OrderInv
<1>3. Ordered(q, Past, log', session)
  BY QueuedOrdered
<1>4. /\ Ordered(Tail(q), Past \cup {f}, log', session)
      /\ f \in 1 .. Len(log') /\ log'[f].session = session /\ \A n \in Past : n < f
  BY <1>1, <1>3, GivenOrdered, Zenon
<1>5. q \in Seq(Nat)
  BY <1>3 DEF Ordered
<1> HIDE DEF f
<1>6. f \in Nat /\ \A n \in Past : n \in Nat
  BY <1>1, <1>2, <1>4
<1>7. /\ Past' = Past \cup {f} /\ passed' \in Seq(Nat) /\ m_Frames' \in [Yadifs -> Seq(Nat)]
      /\ \A m \in Yadifs : Kept(m_Frames'[m], Past')
  BY <1>2, <1>6, GivenKept, Zenon DEF f
<1>8. ~stale' => Unbroken(m_Frames', m_FrameQueue', Deinterlace', Past', log', session')
  <2>1. ASSUME ~stale'
        PROVE  Unbroken(m_Frames', Tail(q), Deinterlace', Past \cup {f}, log', session)
    BY <1>2, <1>4, <1>5, <1>6, <2>1, GivenUnbroken, Zenon DEF f
  <2> QED BY <1>7, <2>1, Zenon
<1>9. \A n \in Past' : n \in 1 .. Len(log')
  BY <1>1, <1>2, <1>4, <1>7
<1> QED BY <1>4, <1>7, <1>8, <1>9, Zenon DEF After, KeptInv

LEMMA NotGiven ==
  ASSUME OrderInv, log \in Seq(Entry), NEW e \in Entry, log' = Append(log, e),
         e.session = session, session' = session, passed' = passed,
         m_Frames' \in [Yadifs -> Seq(Nat)], \A m \in Yadifs : Kept(m_Frames'[m], Past),
         m_FrameQueue' = m_FrameQueue \/ m_FrameQueue' = Append(m_FrameQueue, Len(log) + 1),
         ~stale' => Unbroken(m_Frames', m_FrameQueue', Deinterlace', Past, log', session)
  PROVE  After
<1>1. Past' = Past
  BY DEF Past
<1>2. Len(log) \in Nat /\ Len(log') = Len(log) + 1
  BY SameLog
<1>3. passed' \in Seq(Nat) /\ \A n \in Past' : n \in 1 .. Len(log')
  BY <1>1, <1>2 DEF OrderInv
<1>4. Ordered(m_FrameQueue', Past, log', session)
  BY QueuedOrdered
<1> QED BY <1>1, <1>3, <1>4, Zenon DEF After, KeptInv

\* What Yadif keeps when the next frame is displayed, before a frame is given.
LEMMA Before ==
  ASSUME IInv, NEW e \in Entry, log' = Append(log, e), e.session = session,
         e.method = Deinterlace', ~stale' => ~stale,
         ~stale' /\ Deinterlace' # Deinterlace =>
           \A i \in 1 .. Len(m_FrameQueue) : log[m_FrameQueue[i]].method # Deinterlace',
         NEW q, q = m_FrameQueue \/ q = Append(m_FrameQueue, Len(log) + 1)
  PROVE  LET frames == Restarted(m_Frames, Deinterlace, Deinterlace')
         IN  /\ frames \in [Yadifs -> Seq(Nat)] /\ \A m \in Yadifs : Kept(frames[m], Past)
             /\ ~stale' => Unbroken(frames, q, Deinterlace', Past, log', session)
<1> DEFINE frames == Restarted(m_Frames, Deinterlace, Deinterlace')
<1>1. /\ m_Frames \in [Yadifs -> Seq(Nat)] /\ OrderInv /\ log \in Seq(Entry)
      /\ \A m \in Yadifs : Kept(m_Frames[m], Past)
      /\ ~stale => Unbroken(m_Frames, m_FrameQueue, Deinterlace, Past, log, session)
  BY DEF IInv, TypeInv, LogInv, KeptInv
<1>2. \A m \in Yadifs : frames[m] = <<>> \/ frames[m] = m_Frames[m]
  BY DEF Restarted
<1>3. frames = [m \in Yadifs |-> frames[m]]
  BY DEF Restarted
<1>4. <<>> \in Seq(Nat) /\ Kept(<<>>, Past)
  BY DEF Kept
<1>5. ~stale' => Unbroken(frames, q, Deinterlace', Past, log', session)
  BY <1>1, DisplayedUnbroken, Zenon
<1> HIDE DEF frames
<1>6. \A m \in Yadifs : frames[m] \in Seq(Nat) /\ Kept(frames[m], Past)
  BY <1>1, <1>2, <1>4, Zenon DEF Kept
<1>7. frames \in [Yadifs -> Seq(Nat)]
  BY <1>3, <1>6
<1> QED BY <1>5, <1>6, <1>7, Zenon DEF frames

LEMMA Restart ==
  ASSUME m_Frames \in [Yadifs -> Seq(Nat)]
  PROVE  Restarted(m_Frames, Deinterlace, Deinterlace')
           = IF Deinterlace' # Deinterlace THEN Initialize(Deinterlace') ELSE m_Frames
BY DEF Restarted, Initialize

LEMMA Recorded ==
  ASSUME LogInv, session \in Nat, Len(log) + 1 <= MaxFrames[client], client' = client,
         NEW e \in Entry, log' = Append(log, e), session' = session,
         m_FrameCount' = m_FrameCount \/ m_FrameCount' = m_FrameCount + 1, m_FrameCount \in Nat,
         changes \in Nat, changes' \in Nat, changes <= changes'
  PROVE  LogInv'
<1>1. log \in Seq(Entry) /\ m_FrameCount <= Len(log) /\ session <= changes
  BY DEF LogInv
<1>2. Len(log) \in Nat /\ Len(log') = Len(log) + 1 /\ log' \in Seq(Entry)
  BY <1>1, SameLog
<1>3. m_FrameCount' <= Len(log') /\ session' <= changes'
  BY <1>1, <1>2
<1> QED BY <1>2, <1>3 DEF LogInv

LEMMA Shifted ==
  ASSUME NEW film \in BOOLEAN, m_RecentFrameTypes \in [1 .. Window -> BOOLEAN]
  PROVE  Recent(film) \in [1 .. Window -> BOOLEAN]
<1> DEFINE s == m_RecentFrameTypes
           r == Tail(s)
           t == Append(r, film)
<1>1. Window \in Nat \ {0}
  BY OutputAssumption
<1>2. s \in Seq(BOOLEAN) /\ Len(s) = Window
  BY <1>1
<1> HIDE DEF s
<1>3. s # <<>>
  BY <1>1, <1>2
<1>4. r \in Seq(BOOLEAN) /\ Len(r) = Len(s) - 1
  BY <1>2, <1>3, HeadTailProperties, Zenon
<1> HIDE DEF r
<1>5. t \in Seq(BOOLEAN) /\ Len(t) = Len(r) + 1
  BY <1>4, AppendProperties, Zenon
<1> HIDE DEF t
<1>6. Len(t) = Window
  BY <1>1, <1>2, <1>4, <1>5
<1>7. t \in [1 .. Len(t) -> BOOLEAN]
  BY <1>5, LenProperties, Zenon
<1>8. t \in [1 .. Window -> BOOLEAN]
  BY <1>6, <1>7
<1> QED BY <1>8 DEF t, r, s, Recent

LEMMA Chosen ==
  ASSUME TypeInv, NEW flags, NEW film, NEW telecine
  PROVE  Choose(flags, film, telecine) \in AllMethods
<1>1. m_DeinterlaceMethod \in AllMethods
  BY OutputAssumption DEF TypeInv, AllMethods
<1> QED BY <1>1 DEF Choose, AllMethods

LEMMA Telecined ==
  ASSUME IInv, NEW flags, SetTelecineMode(flags), Len(log) + 1 <= MaxFrames[client]
  PROVE  /\ m_fFilm' \in BOOLEAN /\ m_fTelecineMode' \in BOOLEAN
         /\ m_RecentFrameTypes' \in [1 .. Window -> BOOLEAN]
         /\ m_LastFilmFrame' \in 0 .. MaxFrames[client]
         /\ m_FrameCount' = m_FrameCount + 1 /\ m_FrameCount' \in Nat
<1>1. Film(flags) \in BOOLEAN
  BY DEF IInv, TypeInv, Film
<1>2. m_fFilm' = Film(flags) /\ m_RecentFrameTypes' = Recent(Film(flags))
  BY DEF SetTelecineMode
<1>3. m_RecentFrameTypes' \in [1 .. Window -> BOOLEAN]
  BY <1>1, <1>2, Shifted DEF IInv, TypeInv
<1>4. m_FrameCount \in Nat /\ m_FrameCount <= Len(log) /\ Len(log) \in Nat /\ MaxFrames[client] \in Nat
  BY OutputAssumption DEF IInv, TypeInv, LogInv
<1>5. m_FrameCount \in 0 .. MaxFrames[client] /\ m_FrameCount + 1 \in Nat
  BY <1>4
<1>6. m_LastFilmFrame' \in {m_FrameCount, m_LastFilmFrame}
  BY DEF SetTelecineMode
<1>7. m_LastFilmFrame' \in 0 .. MaxFrames[client]
  BY <1>5, <1>6 DEF IInv, TypeInv
<1>8. m_fTelecineMode' \in BOOLEAN /\ m_FrameCount' = m_FrameCount + 1
  BY Zenon DEF SetTelecineMode
<1> QED BY <1>1, <1>2, <1>3, <1>5, <1>7, <1>8

LEMMA Displayed ==
  ASSUME IInv, NEW flags \in FlagSets[client], NEW size \in Nat, NEW key \in BOOLEAN, NEW skip \in BOOLEAN,
         Display(flags, size, key, skip), changes' \in 0 .. MaxChanges[client], changes <= changes'
  PROVE  IInv'
<1> DEFINE e == [flags |-> flags, size |-> size, film |-> m_fFilm', method |-> Deinterlace',
                 seen |-> ~m_fWaitForKeyFrame', session |-> session]
           frames == Restarted(m_Frames, Deinterlace, Deinterlace')
           none == skip \/ (client = "d3d11" /\ m_fWaitForKeyFrame')
           queue == IF none THEN m_FrameQueue ELSE Append(m_FrameQueue, Len(log) + 1)
           due == ~none /\ Len(queue) > m_FrameQueueSize
<1>1. /\ client # "object" /\ client' = client /\ session' = session /\ open' = open
      /\ UNCHANGED optionVars /\ Len(log) + 1 <= MaxFrames[client]
      /\ SetTelecineMode(flags) /\ Flags' = flags
      /\ Deinterlace' = Choose(flags, m_fFilm', m_fTelecineMode')
      /\ log' = Append(log, e)
      /\ m_fWaitForKeyFrame' = (m_fWaitForKeyFrame /\ ~key)
      /\ m_FrameQueue' = IF due THEN Tail(queue) ELSE queue
      /\ stale' = \/ stale
                  \/ /\ Deinterlace' # Deinterlace
                     /\ \E f \in ToSet(m_FrameQueue) : log[f].method = Deinterlace'
  BY DEF Display, Record
<1>2. TypeInv /\ OrderInv /\ LogInv /\ KeptInv
  BY DEF IInv
<1>3. frames = IF Deinterlace' # Deinterlace THEN Initialize(Deinterlace') ELSE m_Frames
  BY <1>2, Restart, Zenon DEF TypeInv
<1>4. IF due THEN Output(Head(queue), log'[Head(queue)].method, frames, m_fWaitForKeyFrame', FALSE)
             ELSE m_Frames' = frames /\ passed' = passed
  BY <1>3 DEF Display
<1>5. /\ m_fFilm' \in BOOLEAN /\ m_fTelecineMode' \in BOOLEAN
      /\ m_RecentFrameTypes' \in [1 .. Window -> BOOLEAN]
      /\ m_LastFilmFrame' \in 0 .. MaxFrames[client]
      /\ m_FrameCount' = m_FrameCount + 1 /\ m_FrameCount' \in Nat
  BY <1>1, Telecined
<1>6. Deinterlace' \in AllMethods /\ m_fWaitForKeyFrame' \in BOOLEAN /\ stale' \in BOOLEAN
  <2>1. Deinterlace' \in AllMethods
    BY <1>1, <1>2, Chosen, Zenon
  <2>2. m_fWaitForKeyFrame' \in BOOLEAN /\ stale' \in BOOLEAN
    BY <1>1, Zenon
  <2> QED BY <2>1, <2>2
<1>7. e \in Entry /\ e.session = session /\ e.method = Deinterlace'
  <2>1. flags \in SUBSET {"repeat", "frame", "sequence"} /\ session \in Nat
    BY <1>2, OutputAssumption DEF TypeInv
  <2> QED BY <1>5, <1>6, <2>1 DEF Entry
<1>8. queue = m_FrameQueue \/ queue = Append(m_FrameQueue, Len(log) + 1)
  OBVIOUS
<1>9. log \in Seq(Entry) /\ m_FrameQueue \in Seq(Nat) /\ Len(log) \in Nat
  BY <1>2 DEF LogInv, OrderInv, Ordered
<1> HIDE DEF e, frames
<1>10. /\ frames \in [Yadifs -> Seq(Nat)] /\ \A m \in Yadifs : Kept(frames[m], Past)
       /\ ~stale' => Unbroken(frames, queue, Deinterlace', Past, log', session)
  <2>1. /\ ~stale' => ~stale
        /\ ~stale' /\ Deinterlace' # Deinterlace =>
             \A i \in 1 .. Len(m_FrameQueue) : log[m_FrameQueue[i]].method # Deinterlace'
    <3>1. \A i \in 1 .. Len(m_FrameQueue) : m_FrameQueue[i] \in ToSet(m_FrameQueue)
      BY <1>9 DEF ToSet
    <3> QED BY <1>1, <3>1
  <2> HIDE DEF queue
  <2> QED BY <1>1, <1>7, <1>8, <2>1, Before, Zenon DEF frames
<1>11. due => queue # <<>> /\ Head(queue) = queue[1] /\ queue \in Seq(Nat) /\ Len(Tail(queue)) = Len(queue) - 1
  <2>1. ASSUME due
        PROVE  queue \in Seq(Nat) /\ queue # <<>>
    BY <1>9, <2>1, AppendElements
  <2> HIDE DEF queue
  <2> QED BY <2>1, TailElements
<1>12. Len(m_FrameQueue') <= m_FrameQueueSize
  <2>1. Len(m_FrameQueue) <= m_FrameQueueSize /\ m_FrameQueueSize \in Nat /\ Len(m_FrameQueue) \in Nat
    BY <1>2, <1>9, OutputAssumption DEF TypeInv
  <2>2. ~none => Len(queue) = Len(m_FrameQueue) + 1
    BY <1>9, AppendElements
  <2>3. none => queue = m_FrameQueue
    OBVIOUS
  <2> HIDE DEF none, queue
  <2> QED BY <1>1, <1>11, <2>1, <2>2, <2>3
<1> HIDE DEF queue, due
<1>13. After
  <2>1. CASE due
    <3>1. m_FrameQueue' = Tail(queue) /\ queue # <<>>
          /\ Output(queue[1], log'[queue[1]].method, frames, m_fWaitForKeyFrame', FALSE)
      BY <1>1, <1>4, <1>11, <2>1
    <3> QED BY <1>1, <1>2, <1>7, <1>8, <1>9, <1>10, <3>1, Given, Zenon
  <2>2. CASE ~due
    <3>1. m_FrameQueue' = queue /\ m_Frames' = frames /\ passed' = passed
      BY <1>1, <1>4, <2>2
    <3> QED BY <1>1, <1>2, <1>7, <1>8, <1>9, <1>10, <3>1, NotGiven, Zenon
  <2> QED BY <2>1, <2>2
<1>14. LogInv'
  <2>1. session \in Nat /\ m_FrameCount \in Nat /\ changes \in Nat /\ changes' \in Nat
    BY <1>2 DEF TypeInv
  <2> QED BY <1>1, <1>2, <1>5, <1>7, <2>1, Recorded, Zenon
<1>15. OrderInv' /\ KeptInv'
  BY <1>1, <1>13 DEF After, OrderInv
<1>16. TypeInv'
  BY <1>1, <1>2, <1>5, <1>6, <1>12, <1>13 DEF TypeInv, After, optionVars
<1> QED BY <1>14, <1>15, <1>16 DEF IInv

LEMMA Inputted ==
  ASSUME IInv, NEW flags \in FlagSets[client], NEW size \in Nat, NEW key \in BOOLEAN, NEW skip \in BOOLEAN,
         InputFrame(flags, size, key, skip), changes' \in 0 .. MaxChanges[client], changes <= changes'
  PROVE  IInv'
<1> DEFINE e == [flags |-> flags, size |-> size, film |-> FALSE, method |-> Deinterlace',
                 seen |-> ~m_fWaitForKeyFrame', session |-> session]
           n == Len(log) + 1
           frames == Restarted(m_Frames, Deinterlace, Deinterlace')
           q == Append(m_FrameQueue, n)
<1>1. /\ client = "object" /\ client' = client /\ session' = session
      /\ UNCHANGED optionVars /\ UNCHANGED filmVars /\ Len(log) < MaxFrames[client]
      /\ Flags' = Flags /\ Deinterlace' = Deinterlace /\ stale' = stale
      /\ m_FrameQueue' = m_FrameQueue /\ log' = Append(log, e)
      /\ m_fWaitForKeyFrame' = (m_fWaitForKeyFrame /\ ~key)
  BY DEF InputFrame, Record
<1>2. /\ open' \in BOOLEAN
      /\ \/ UNCHANGED outputVars
         \/ \E one \in BOOLEAN : Output(n, Deinterlace, m_Frames, FALSE, one)
  BY DEF InputFrame, IInv, TypeInv
<1>3. TypeInv /\ OrderInv /\ LogInv /\ KeptInv /\ m_FrameQueue = <<>>
  BY <1>1 DEF IInv, OrderInv
<1>4. m_fWaitForKeyFrame' \in BOOLEAN /\ Deinterlace' \in AllMethods
  BY <1>1, <1>3, Zenon DEF TypeInv
<1>5. e \in Entry /\ e.session = session /\ e.method = Deinterlace'
  <2>1. flags \in SUBSET {"repeat", "frame", "sequence"} /\ session \in Nat
    BY <1>3, OutputAssumption DEF TypeInv
  <2> QED BY <1>4, <2>1 DEF Entry
<1>6. log \in Seq(Entry) /\ Len(log) \in Nat /\ m_FrameQueue \in Seq(Nat)
  BY <1>3 DEF LogInv
<1>7. frames = m_Frames
  BY <1>1, <1>3, Restart, Zenon DEF TypeInv
<1>8. q = <<n>> /\ q # <<>> /\ q[1] = n /\ Tail(q) = <<>>
  BY <1>3
<1>9. log'[n] = e
  BY <1>1, <1>5, <1>6, SameLog
<1> HIDE DEF e, frames, q
<1>10. ~stale' => ~stale
  BY <1>1
<1>11. /\ m_Frames \in [Yadifs -> Seq(Nat)] /\ \A m \in Yadifs : Kept(m_Frames[m], Past)
       /\ ~stale' => Unbroken(m_Frames, m_FrameQueue, Deinterlace', Past, log', session)
       /\ ~stale' => Unbroken(m_Frames, q, Deinterlace', Past, log', session)
  BY <1>1, <1>5, <1>7, <1>10, Before, Zenon DEF frames, q
<1>12. After
  <2>1. CASE UNCHANGED outputVars
    <3>1. m_Frames' = m_Frames /\ passed' = passed
      BY <2>1 DEF outputVars
    <3> QED BY <1>1, <1>3, <1>5, <1>6, <1>11, <3>1, NotGiven, Zenon
  <2>2. ASSUME NEW one \in BOOLEAN, Output(n, Deinterlace, m_Frames, FALSE, one)
        PROVE  After
    <3>1. Output(q[1], log'[q[1]].method, m_Frames, FALSE, one)
      BY <1>1, <1>5, <1>8, <1>9, <2>2
    <3>2. m_FrameQueue' = Tail(q)
      BY <1>1, <1>3, <1>8
    <3> QED BY <1>1, <1>3, <1>5, <1>6, <1>8, <1>11, <3>1, <3>2, Given, Zenon DEF q
  <2> QED BY <1>2, <2>1, <2>2
<1>13. LogInv'
  <2>1. /\ session \in Nat /\ m_FrameCount \in Nat /\ changes \in Nat /\ changes' \in Nat
        /\ Len(log) + 1 <= MaxFrames[client]
    BY <1>1, <1>3, <1>6, OutputAssumption DEF TypeInv
  <2>2. m_FrameCount' = m_FrameCount
    BY <1>1 DEF filmVars
  <2> QED BY <1>1, <1>3, <1>5, <2>1, <2>2, Recorded, Zenon
<1>14. OrderInv' /\ KeptInv'
  BY <1>1, <1>3, <1>12 DEF After, OrderInv
<1>15. TypeInv'
  BY <1>1, <1>2, <1>3, <1>4, <1>12 DEF TypeInv, After, optionVars, filmVars
<1> QED BY <1>13, <1>14, <1>15 DEF IInv

LEMMA SizeOfNext ==
  ASSUME LogInv, NEW resized \in BOOLEAN
  PROVE  (IF log = <<>> THEN 0 ELSE log[Len(log)].size + (IF resized THEN 1 ELSE 0)) \in Nat
<1>1. log \in Seq(Entry)
  BY DEF LogInv
<1>2. log # <<>> => log[Len(log)] \in Entry
  BY <1>1
<1>3. log # <<>> => log[Len(log)].size \in Nat
  BY <1>2 DEF Entry
<1> QED BY <1>3

LEMMA Framed ==
  ASSUME IInv, Frame
  PROVE  IInv'
<1>1. PICK flags \in FlagSets[client], resized \in BOOLEAN, key \in BOOLEAN, skip \in BOOLEAN :
        /\ LET size == IF log = <<>> THEN 0 ELSE log[Len(log)].size + (IF resized THEN 1 ELSE 0)
           IN  Display(flags, size, key, skip) \/ InputFrame(flags, size, key, skip)
        /\ changes' = changes + Cardinality({b \in {1} : resized}) + Cardinality({b \in {1} : skip})
        /\ changes' <= MaxChanges[client]
  BY DEF Frame
<1> DEFINE size == IF log = <<>> THEN 0 ELSE log[Len(log)].size + (IF resized THEN 1 ELSE 0)
<1>2. size \in Nat
  BY SizeOfNext DEF IInv
<1>3. \A x \in BOOLEAN : Cardinality({b \in {1} : x}) \in Nat
  <2> TAKE x \in BOOLEAN
  <2>1. IsFiniteSet({1})
    BY FS_Singleton
  <2>2. IsFiniteSet({b \in {1} : x})
    BY <2>1, FS_Subset
  <2> QED BY <2>2, FS_CardinalityType
<1>4. changes' \in 0 .. MaxChanges[client] /\ changes <= changes'
  <2>1. changes \in Nat /\ MaxChanges[client] \in Nat
    BY OutputAssumption DEF IInv, TypeInv
  <2>2. Cardinality({b \in {1} : resized}) \in Nat /\ Cardinality({b \in {1} : skip}) \in Nat
    BY <1>3
  <2> QED BY <1>1, <2>1, <2>2
<1>5. Display(flags, size, key, skip) \/ InputFrame(flags, size, key, skip)
  BY <1>1
<1> HIDE DEF size
<1> QED BY <1>2, <1>4, <1>5, Displayed, Inputted

-----------------------------------------------------------------------------
(* The other steps *)

\* Without frames that wait, only the deinterlacer in use must not go on
\* after a gap.
LEMMA EmptyQueue ==
  ASSUME NEW frames, NEW D, NEW P, NEW l, NEW s, \A m \in Yadifs : Neighbours(frames[m], P, l),
         D \in Yadifs /\ frames[D] # <<>> =>
           /\ \A n \in P : n <= frames[D][Len(frames[D])]
           /\ l[frames[D][Len(frames[D])]].session = s
  PROVE  Unbroken(frames, <<>>, D, P, l, s) /\ Ordered(<<>>, P, l, s)
<1>1. /\ \A i \in Waiting(<<>>) : i = 1 /\ Due(i, <<>>, D, l) = D
      /\ Len(<<>>) = 0 /\ <<>> \in Seq(Nat)
  BY DEF Waiting, Due
<1>2. Runs(frames, <<>>, D, l)
  <2>1. \A i, j \in Waiting(<<>>) : ~(i < j)
    BY DEF Waiting
  <2> QED BY <2>1, Zenon DEF Runs
<1>3. Latest(frames, <<>>, D, P, l, s)
  BY <1>1, Zenon DEF Latest
<1>4. Ordered(<<>>, P, l, s)
  BY <1>1 DEF Ordered
<1> QED BY <1>2, <1>3, <1>4, Zenon DEF Unbroken

\* The deinterlacer in use starts again.
LEMMA Emptied ==
  ASSUME IInv, UNCHANGED <<log, passed, stale>>, m_FrameQueue' = <<>>,
         m_Frames' \in [Yadifs -> Seq(Nat)],
         \A m \in Yadifs : m_Frames'[m] = <<>> \/ (m # Deinterlace' /\ m_Frames'[m] = m_Frames[m])
  PROVE  OrderInv' /\ KeptInv'
<1>1. Past' = Past
  BY DEF Past
<1>2. \A m \in Yadifs : Neighbours(<<>>, Past, log) /\ Kept(<<>>, Past)
  BY DEF Neighbours, Kept
<1>3. ~stale => \A m \in Yadifs : Neighbours(m_Frames'[m], Past, log)
  BY <1>2, Zenon DEF IInv, KeptInv, Unbroken
<1>4. \A m \in Yadifs : Kept(m_Frames'[m], Past)
  BY <1>2, Zenon DEF IInv, KeptInv
<1>5. Deinterlace' \in Yadifs => m_Frames'[Deinterlace'] = <<>>
  BY Zenon
<1>6. ~stale => Unbroken(m_Frames', <<>>, Deinterlace', Past, log, session')
  BY <1>3, <1>5, EmptyQueue, Zenon
<1>7. Ordered(<<>>, Past, log, session')
  BY DEF Ordered
<1>8. KeptInv'
  BY <1>1, <1>4, <1>6 DEF KeptInv
<1>9. OrderInv'
  BY <1>1, <1>7 DEF OrderInv, IInv
<1> QED BY <1>8, <1>9

LEMMA Begun ==
  ASSUME Init
  PROVE  IInv
<1>1. Past = {} /\ Yadifs = {"YADIF", "YADIF_BOB"}
  BY DEF Init, Past, ToSet, Yadifs
<1>2. TypeInv
  <2>1. /\ MaxFrames[client] \in Nat /\ MaxChanges[client] \in Nat /\ QueueSizes \subseteq Nat
        /\ client \in Clients
    BY OutputAssumption DEF Init
  <2>2. m_FrameQueueSize \in QueueSizes \cup {0} /\ Len(m_FrameQueue) <= m_FrameQueueSize
    BY <2>1 DEF Init
  <2>3. m_RecentFrameTypes \in [1 .. Window -> BOOLEAN] /\ m_Frames \in [Yadifs -> Seq(Nat)]
    BY DEF Init, NoFilmTypes, NoFrames
  <2>4. open \in BOOLEAN /\ adapt \in BOOLEAN /\ interlaced \in BOOLEAN /\ stale \in BOOLEAN
    BY Zenon DEF Init
  <2>5. m_DeinterlaceMethod \in Methods[client] \cup {"BLEND"} /\ Deinterlace \in AllMethods
    BY DEF Init, AllMethods
  <2>6. /\ m_fEnableWaitForKeyFrame \in BOOLEAN /\ m_fWaitForKeyFrame \in BOOLEAN
        /\ m_fFilm \in BOOLEAN /\ m_fTelecineMode \in BOOLEAN
    BY Zenon DEF Init
  <2>7. /\ m_LastFilmFrame \in 0 .. MaxFrames[client] /\ m_FrameCount \in Nat
        /\ Flags \in FlagSets[client] \cup {{}} /\ session \in Nat /\ changes \in 0 .. MaxChanges[client]
    BY <2>1 DEF Init
  <2> QED BY <2>1, <2>2, <2>3, <2>4, <2>5, <2>6, <2>7, Zenon DEF TypeInv
<1>3. OrderInv
  BY <1>1 DEF Init, OrderInv, Ordered
<1>4. LogInv
  BY OutputAssumption DEF Init, LogInv
<1>5. \A m \in Yadifs : m_Frames[m] = <<>>
  BY DEF Init, NoFrames
<1>6. \A m \in Yadifs : Neighbours(<<>>, Past, log) /\ Kept(<<>>, Past)
  BY DEF Neighbours, Kept
<1>7. Unbroken(m_Frames, <<>>, Deinterlace, Past, log, session)
  <2>1. \A m \in Yadifs : Neighbours(m_Frames[m], Past, log)
    BY <1>5, <1>6, Zenon
  <2> QED BY <1>5, <2>1, EmptyQueue, Zenon
<1>8. KeptInv
  BY <1>5, <1>6, <1>7 DEF KeptInv, Init
<1> QED BY <1>2, <1>3, <1>4, <1>8 DEF IInv

\* What no action but those that display a frame changes.
LEMMA Logged ==
  ASSUME LogInv, client' = client, log' = log, session' \in Nat, session' <= changes',
         m_FrameCount' \in {0, m_FrameCount}
  PROVE  LogInv'
<1>1. Len(log) \in Nat
  BY DEF LogInv
<1> QED BY <1>1 DEF LogInv

\* An action after which all frames wait and are kept as before.
LEMMA SameFrames ==
  ASSUME IInv, UNCHANGED <<client, m_FrameQueue, Deinterlace, log, session, stale, outputVars>>
  PROVE  OrderInv' /\ KeptInv'
<1>1. Past' = Past
  BY DEF Past, outputVars
<1> QED BY <1>1 DEF IInv, OrderInv, KeptInv, outputVars

LEMMA Changed ==
  ASSUME IInv, Change
  PROVE  IInv'
<1>1. /\ TypeInv /\ OrderInv /\ LogInv /\ KeptInv
      /\ changes < MaxChanges[client] /\ changes' = changes + 1
  BY DEF IInv, Change
<1>2. /\ session \in Nat /\ session + 1 \in Nat /\ session <= changes' /\ session + 1 <= changes'
      /\ changes' \in 0 .. MaxChanges[client] /\ 0 \in 0 .. MaxFrames[client]
      /\ m_FrameQueueSize \in Nat /\ Len(<<>>) = 0 /\ m_FrameCount \in Nat
  <2>1. /\ session \in Nat /\ session <= changes /\ changes \in Nat /\ m_FrameCount \in Nat
        /\ MaxChanges[client] \in Nat /\ MaxFrames[client] \in Nat /\ m_FrameQueueSize \in Nat
    BY <1>1, OutputAssumption DEF TypeInv, LogInv
  <2> QED BY <1>1, <2>1
<1>3. CASE InitDecode
  <2>1. m_Frames' \in [Yadifs -> Seq(Nat)] /\ \A m \in Yadifs : m_Frames'[m] = <<>>
    BY <1>3 DEF InitDecode, NoFrames
  <2>2. OrderInv' /\ KeptInv'
    BY <1>3, <2>1, Emptied, Zenon DEF InitDecode
  <2>3. LogInv'
    BY <1>1, <1>2, <1>3, Logged DEF InitDecode
  <2>4. TypeInv'
    <3>1. UNCHANGED <<client, open, stale>> /\ UNCHANGED optionVars
      BY <1>3 DEF InitDecode
    <3>2. /\ m_fWaitForKeyFrame' \in BOOLEAN /\ m_fFilm' \in BOOLEAN /\ m_fTelecineMode' \in BOOLEAN
      BY <1>3, Zenon DEF InitDecode
    <3>3. /\ m_RecentFrameTypes' \in [1 .. Window -> BOOLEAN] /\ Deinterlace' \in AllMethods
          /\ m_LastFilmFrame' \in 0 .. MaxFrames[client] /\ m_FrameCount' \in Nat
          /\ Flags' = {} /\ session' \in Nat /\ m_FrameQueue' = <<>>
      BY <1>2, <1>3 DEF InitDecode, NoFilmTypes, AllMethods
    <3> QED BY <1>1, <1>2, <2>1, <3>1, <3>2, <3>3 DEF TypeInv, optionVars
  <2> QED BY <2>2, <2>3, <2>4 DEF IInv
<1>4. CASE EndFlush
  <2>1. UNCHANGED <<client, open, m_fWaitForKeyFrame, Flags, Deinterlace, log, session, stale>>
        /\ UNCHANGED filmVars /\ UNCHANGED optionVars /\ UNCHANGED outputVars
        /\ m_FrameQueue' = <<>>
    BY <1>4 DEF EndFlush
  <2>2. Past' = Past /\ m_Frames' = m_Frames /\ passed' = passed
    BY <2>1 DEF Past, outputVars
  <2>3. ASSUME ~stale
        PROVE  Unbroken(m_Frames, <<>>, Deinterlace, Past, log, session)
    <3>1. Unbroken(m_Frames, m_FrameQueue, Deinterlace, Past, log, session)
      BY <1>1, <2>3 DEF KeptInv
    <3>2. Len(m_FrameQueue) + 1 \in Waiting(m_FrameQueue)
          /\ Due(Len(m_FrameQueue) + 1, m_FrameQueue, Deinterlace, log) = Deinterlace
      <4>1. Len(m_FrameQueue) \in Nat
        BY <1>1 DEF OrderInv, Ordered
      <4> HIDE DEF OrderInv
      <4> QED BY <4>1 DEF Waiting, Due
    <3>3. /\ \A m \in Yadifs : Neighbours(m_Frames[m], Past, log)
          /\ Latest(m_Frames, m_FrameQueue, Deinterlace, Past, log, session)
      BY <3>1 DEF Unbroken
    <3>4. Deinterlace \in Yadifs /\ m_Frames[Deinterlace] # <<>> =>
            /\ \A n \in Past : n <= m_Frames[Deinterlace][Len(m_Frames[Deinterlace])]
            /\ log[m_Frames[Deinterlace][Len(m_Frames[Deinterlace])]].session = session
      BY <3>2, <3>3, Zenon DEF Latest
    <3> QED BY <3>3, <3>4, EmptyQueue, Zenon
  <2>4. Ordered(<<>>, Past, log, session)
    BY DEF Ordered
  <2>5. KeptInv'
    BY <1>1, <2>1, <2>2, <2>3 DEF KeptInv
  <2>6. OrderInv'
    BY <1>1, <2>1, <2>2, <2>4 DEF OrderInv
  <2>7. LogInv'
    BY <1>1, <1>2, <2>1, Logged DEF filmVars
  <2>8. TypeInv'
    BY <1>1, <1>2, <2>1, <2>2 DEF TypeInv, filmVars, optionVars
  <2> QED BY <2>5, <2>6, <2>7, <2>8 DEF IInv
<1>5. CASE SetOutputType \/ SetWaitForKeyFrame
  <2>1. /\ UNCHANGED <<client, open, m_FrameQueue, m_fWaitForKeyFrame, Flags, Deinterlace, log,
                       session, stale, m_DeinterlaceMethod, adapt, m_FrameQueueSize>>
        /\ UNCHANGED filmVars /\ UNCHANGED outputVars
    BY <1>5 DEF SetOutputType, SetWaitForKeyFrame
  <2>2. interlaced' \in BOOLEAN /\ m_fEnableWaitForKeyFrame' \in BOOLEAN
    <3>1. interlaced \in BOOLEAN /\ m_fEnableWaitForKeyFrame \in BOOLEAN
      BY <1>1 DEF TypeInv
    <3>2. /\ interlaced' = interlaced \/ interlaced' = ~interlaced
          /\ \/ m_fEnableWaitForKeyFrame' = m_fEnableWaitForKeyFrame
             \/ m_fEnableWaitForKeyFrame' = ~m_fEnableWaitForKeyFrame
      BY <1>5, Zenon DEF SetOutputType, SetWaitForKeyFrame
    <3> QED BY <3>1, <3>2, Zenon
  <2>3. OrderInv' /\ KeptInv'
    BY <2>1, SameFrames, Zenon
  <2>4. LogInv'
    BY <1>1, <1>2, <2>1, Logged DEF filmVars
  <2>5. TypeInv'
    BY <1>1, <1>2, <2>1, <2>2 DEF TypeInv, filmVars, outputVars
  <2> QED BY <2>3, <2>4, <2>5 DEF IInv
<1>6. ASSUME NEW method \in Methods[client] \cup {"BLEND"}, client = "object",
             Deinterlace' = method, m_Frames' = Initialize(method), session' = session + 1,
             m_DeinterlaceMethod' \in {m_DeinterlaceMethod, method},
             UNCHANGED <<client, m_FrameQueue, log, passed, stale>>, UNCHANGED filmVars,
             UNCHANGED <<adapt, interlaced, m_FrameQueueSize, m_fEnableWaitForKeyFrame>>,
             open' \in BOOLEAN, m_fWaitForKeyFrame' \in BOOLEAN, Flags' \in {{}, Flags}
      PROVE  IInv'
  <2>1. /\ m_Frames' \in [Yadifs -> Seq(Nat)]
        /\ \A m \in Yadifs : m_Frames'[m] = <<>> \/ (m # Deinterlace' /\ m_Frames'[m] = m_Frames[m])
    BY <1>1, <1>6 DEF TypeInv, Initialize
  <2>2. m_FrameQueue' = <<>>
    BY <1>1, <1>6 DEF OrderInv
  <2>3. OrderInv' /\ KeptInv'
    BY <1>6, <2>1, <2>2, Emptied, Zenon
  <2>4. LogInv'
    BY <1>1, <1>2, <1>6, Logged DEF filmVars
  <2>5. method \in AllMethods
    BY <1>1, <1>6, OutputAssumption DEF TypeInv, AllMethods
  <2>6. TypeInv'
    BY <1>1, <1>2, <1>6, <2>1, <2>2, <2>5 DEF TypeInv, filmVars
  <2> QED BY <2>3, <2>4, <2>6 DEF IInv
<1>7. CASE Open
  <2>1. m_DeinterlaceMethod \in Methods[client] \cup {"BLEND"}
        /\ TRUE \in BOOLEAN /\ m_fEnableWaitForKeyFrame \in BOOLEAN
    BY <1>1 DEF TypeInv
  <2> QED BY <1>6, <1>7, <2>1 DEF Open, optionVars
<1>8. ASSUME NEW method \in Methods[client], SetDeinterlaceMethod(method)
      PROVE  IInv'
  <2>1. CASE client = "object" /\ session > 0
    <3>1. open \in BOOLEAN /\ m_fWaitForKeyFrame \in BOOLEAN
      BY <1>1 DEF TypeInv
    <3> QED BY <1>6, <1>8, <2>1, <3>1 DEF SetDeinterlaceMethod
  <2>2. CASE ~(client = "object" /\ session > 0)
    <3>1. UNCHANGED <<client, m_FrameQueue, Deinterlace, log, session, stale>>
          /\ UNCHANGED outputVars /\ m_DeinterlaceMethod' = method /\ UNCHANGED filmVars
      BY <1>8, <2>2 DEF SetDeinterlaceMethod, outputVars
    <3>2. OrderInv' /\ KeptInv'
      BY <3>1, SameFrames, Zenon
    <3>3. LogInv'
      BY <1>1, <1>2, <3>1, Logged DEF filmVars
    <3>4. TypeInv'
      BY <1>1, <1>2, <1>8, <3>1 DEF SetDeinterlaceMethod, TypeInv, filmVars, outputVars
    <3> QED BY <3>2, <3>3, <3>4 DEF IInv
  <2> QED BY <2>1, <2>2
<1> QED BY <1>3, <1>4, <1>5, <1>7, <1>8 DEF Change

LEMMA Step ==
  ASSUME IInv, [Next]_vars
  PROVE  IInv'
<1>1. CASE Close /\ UNCHANGED changes
  <2>1. open' = FALSE /\ UNCHANGED <<client, m_FrameQueue, m_fWaitForKeyFrame, Flags, Deinterlace, log,
                                     session, stale, changes>>
        /\ UNCHANGED filmVars /\ UNCHANGED optionVars /\ UNCHANGED outputVars
    BY <1>1 DEF Close
  <2>2. OrderInv' /\ KeptInv'
    BY <2>1, SameFrames, Zenon
  <2>3. LogInv' /\ TypeInv'
    BY <2>1 DEF IInv, LogInv, TypeInv, filmVars, optionVars, outputVars
  <2> QED BY <2>2, <2>3 DEF IInv
<1>2. CASE UNCHANGED vars
  <2>1. UNCHANGED <<client, open, m_FrameQueue, m_fWaitForKeyFrame, Flags, Deinterlace, log,
                    session, stale, changes>>
        /\ UNCHANGED filmVars /\ UNCHANGED optionVars /\ UNCHANGED outputVars
    BY <1>2 DEF vars
  <2>2. OrderInv' /\ KeptInv'
    BY <2>1, SameFrames, Zenon
  <2>3. LogInv' /\ TypeInv'
    BY <2>1 DEF IInv, LogInv, TypeInv, filmVars, optionVars, outputVars
  <2> QED BY <2>2, <2>3 DEF IInv
<1> QED BY <1>1, <1>2, Framed, Changed DEF Next

-----------------------------------------------------------------------------
(* The theorem *)

\* Yadif interpolates between neighbours, for every stream, size of the queue
\* and set of methods: what CDeinterlacer_Yadif keeps was given to
\* deinterlacers one after the other, in one session, with one size, and is
\* at most three frames, unless a deinterlacer was initialized with frames
\* for it still in the queue.
THEOREM HistoryUnbrokenCorrect == Spec => []HistoryUnbroken
<1>1. Init => IInv
  BY Begun
<1>2. IInv /\ [Next]_vars => IInv'
  BY Step
<1>3. IInv => HistoryUnbroken
  <2> SUFFICES ASSUME IInv
               PROVE  HistoryUnbroken
    OBVIOUS
  <2>1. TypeOK
    BY Typing
  <2>2. ~stale => \A m \in Yadifs : Neighbours(m_Frames[m], ToSet(passed), log)
    BY DEF IInv, KeptInv, Unbroken, Past
  <2> QED BY <2>1, <2>2, Zenon DEF HistoryUnbroken, Neighbours
<1> QED BY <1>1, <1>2, <1>3, PTL DEF Spec

-----------------------------------------------------------------------------
(* What the telecine detection knows *)

Filmed(n) == InSession(n) /\ log[n].film
Films(a, b) == {n \in a .. b : Filmed(n)}

\* Film, from what the frame before left in m_fFilm and m_FrameBuffer.
FilmAfter(film, before, flags) ==
  IF "sequence" \in flags \/ "repeat" \in before THEN film
  ELSE IF ~film /\ {"repeat", "frame"} \subseteq flags THEN TRUE
  ELSE IF film /\ "repeat" \notin flags THEN FALSE ELSE film

\* The frames of the session are those counted.
CountInv ==
  /\ \A n \in 1 .. Len(log) : log[n].session <= session
  /\ client # "object" =>
       \A n \in 1 .. Len(log) : log[n].session = session <=> n > Len(log) - m_FrameCount

\* m_LastFilmFrame counts from the first of them.
LastInv ==
  LET last == Len(log) - m_FrameCount + 1 + m_LastFilmFrame
  IN  \A n \in 1 .. Len(log) : Filmed(n) => n <= last /\ Filmed(last)

NowInv ==
  /\ m_fFilm <=> Filmed(Len(log))
  /\ InSession(Len(log)) => Flags = log[Len(log)].flags

\* The window is that of the last frames, those before the session not film.
WindowInv ==
  \A i \in 1 .. Window : m_RecentFrameTypes[i] <=> Filmed(Len(log) - Window + i)

FilmInv ==
  \A n \in 1 .. Len(log) :
    InSession(n) /\ InSession(n - 1) =>
      (log[n].film <=> FilmAfter(log[n - 1].film, log[n - 1].flags, log[n].flags))

Enough(k) == Cardinality(Films(k - Window + 1, k)) >= FilmFrames
Lasting(k, l) == \A j \in k .. l : Films(j - ExitFrames + 1, j) # {}
ModeInv ==
  m_fTelecineMode <=> \E k \in Films(1, Len(log)) : Enough(k) /\ Lasting(k, Len(log))

TelecineInv ==
  /\ CountInv
  /\ IF client = "object"
     THEN ~m_fTelecineMode /\ \A n \in 1 .. Len(log) : ~log[n].film
     ELSE LastInv /\ NowInv /\ WindowInv /\ FilmInv /\ ModeInv

LEMMA Moved ==
  ASSUME NEW S \in SUBSET Int, IsFiniteSet(S), NEW d \in Int
  PROVE  Cardinality({i + d : i \in S}) = Cardinality(S)
<1> DEFINE T == {i + d : i \in S}
           f == [i \in S |-> i + d]
<1>1. f \in Bijection(S, T)
  BY DEF Bijection, Injection, Surjection, IsInjective
<1>2. ExistsBijection(S, T)
  BY <1>1 DEF ExistsBijection
<1> QED BY <1>2, FS_Bijection

\* What a frame that is displayed changes.
LEMMA FilmedLater ==
  ASSUME log \in Seq(Entry), NEW e \in Entry, log' = Append(log, e),
         e.session = session, session' = session
  PROVE  /\ \A n \in Int : InSession(n)' <=> n = Len(log) + 1 \/ InSession(n)
         /\ \A n \in Int : Filmed(n)' <=> IF n = Len(log) + 1 THEN e.film ELSE Filmed(n)
         /\ \A a, b \in Int : b <= Len(log) => Films(a, b)' = Films(a, b)
<1>1. /\ Len(log) \in Nat /\ Len(log') = Len(log) + 1 /\ log'[Len(log) + 1] = e
      /\ \A n \in 1 .. Len(log) : log'[n] = log[n]
      /\ DOMAIN log = 1 .. Len(log) /\ DOMAIN log' = 1 .. Len(log')
  BY SameLog
<1>2. ASSUME NEW n \in Int
      PROVE  /\ InSession(n)' <=> n = Len(log) + 1 \/ InSession(n)
             /\ Filmed(n)' <=> IF n = Len(log) + 1 THEN e.film ELSE Filmed(n)
  <2>1. CASE n = Len(log) + 1
    <3>1. InSession(n)'
      BY <1>1, <2>1 DEF InSession
    <3>2. log'[n] = e
      BY <1>1, <2>1
    <3> QED BY <2>1, <3>1, <3>2, Zenon DEF Filmed
  <2>2. CASE n # Len(log) + 1
    BY <1>1, <2>2 DEF Filmed, InSession
  <2> QED BY <2>1, <2>2
<1>3. ASSUME NEW a \in Int, NEW b \in Int, b <= Len(log)
      PROVE  Films(a, b)' = Films(a, b)
  <2>1. \A n \in a .. b : Filmed(n)' <=> Filmed(n)
    BY <1>1, <1>2, <1>3
  <2> QED BY <2>1 DEF Films
<1> QED BY <1>2, <1>3

LEMMA WindowShifted ==
  ASSUME TypeInv, LogInv, WindowInv, NEW e \in Entry, log' = Append(log, e), e.session = session,
         session' = session, e.film = m_fFilm', m_fFilm' \in BOOLEAN,
         m_RecentFrameTypes' = Recent(m_fFilm')
  PROVE  WindowInv'
<1> DEFINE s == m_RecentFrameTypes
           r == Tail(s)
           t == Append(r, m_fFilm')
           L == Len(log)
<1>1. Window \in Nat \ {0}
  BY OutputAssumption
<1>2. log \in Seq(Entry) /\ L \in Nat /\ Len(log') = L + 1
  BY SameLog DEF LogInv
<1>3. s \in Seq(BOOLEAN) /\ Len(s) = Window /\ s # <<>>
  BY <1>1 DEF TypeInv
<1>4. \A n \in Int : Filmed(n)' <=> IF n = L + 1 THEN m_fFilm' ELSE Filmed(n)
  BY <1>2, FilmedLater, Zenon
<1>5. \A i \in 1 .. Window : s[i] <=> Filmed(L - Window + i)
  BY DEF WindowInv
<1>6. t = m_RecentFrameTypes'
  BY DEF Recent
<1> HIDE DEF s, L
<1>7. r \in Seq(BOOLEAN) /\ Len(r) = Window - 1 /\ \A i \in 1 .. Window - 1 : r[i] = s[i + 1]
  BY <1>1, <1>3, HeadTailProperties
<1> HIDE DEF r
<1>8. t[Window] = m_fFilm' /\ \A i \in 1 .. Window - 1 : t[i] = r[i]
  BY <1>1, <1>7
<1> HIDE DEF t
<1>9. ASSUME NEW i \in 1 .. Window, NEW n \in Int, n = L + 1 - Window + i
      PROVE  t[i] <=> Filmed(n)'
  <2>1. CASE i = Window
    <3>1. n = L + 1
      BY <1>1, <1>2, <1>9, <2>1
    <3> QED BY <1>4, <1>8, <2>1, <3>1, Zenon
  <2>2. CASE i # Window
    <3>1. i \in 1 .. Window - 1 /\ i + 1 \in 1 .. Window /\ n = L - Window + (i + 1) /\ n # L + 1
      BY <1>1, <1>2, <1>9, <2>2
    <3> QED BY <1>4, <1>5, <1>7, <1>8, <3>1, Zenon
  <2> QED BY <2>1, <2>2
<1>10. \A i \in 1 .. Window : /\ Len(log') - Window + i \in Int
                              /\ Len(log') - Window + i = L + 1 - Window + i
  BY <1>1, <1>2
<1> QED BY <1>6, <1>9, <1>10, Zenon DEF WindowInv

\* A frame is displayed, with these flags, and found to be film or not.
DisplayedAs(e, flags) ==
  /\ e \in Entry /\ log' = Append(log, e) /\ UNCHANGED <<client, session>>
  /\ e.session = session /\ e.flags = flags /\ e.film = m_fFilm' /\ m_fFilm' \in BOOLEAN
  /\ Flags' = flags
  /\ SetTelecineMode(flags)

LEMMA CountKept ==
  ASSUME TypeInv, LogInv, CountInv, NEW e \in Entry, log' = Append(log, e),
         e.session = session, UNCHANGED <<client, session>>,
         client # "object" => m_FrameCount' = m_FrameCount + 1
  PROVE  CountInv'
<1>1. /\ Len(log) \in Nat /\ Len(log') = Len(log) + 1 /\ log'[Len(log) + 1] = e
      /\ \A n \in 1 .. Len(log) : log'[n] = log[n]
  BY SameLog DEF LogInv
<1>2. m_FrameCount \in Nat /\ session \in Nat
  BY DEF TypeInv
<1>3. ASSUME NEW n \in 1 .. Len(log')
      PROVE  /\ log'[n].session <= session
             /\ client # "object" =>
                  (log'[n].session = session <=> n > Len(log') - m_FrameCount')
  <2>1. CASE n = Len(log) + 1
    BY <1>1, <1>2, <2>1
  <2>2. CASE n \in 1 .. Len(log)
    BY <1>1, <1>2, <2>2 DEF CountInv
  <2> QED BY <1>1, <2>1, <2>2
<1> QED BY <1>3 DEF CountInv

LEMMA LastKept ==
  ASSUME TypeInv, LogInv, LastInv, NEW e, NEW flags, DisplayedAs(e, flags)
  PROVE  LastInv'
<1> DEFINE L == Len(log)
           last == L - m_FrameCount + 1 + m_LastFilmFrame
           after == L - m_FrameCount + 1 + m_LastFilmFrame'
<1>1. L \in Nat /\ Len(log') = L + 1 /\ DOMAIN log = 1 .. L
  BY SameLog DEF LogInv, DisplayedAs
<1>2. /\ m_FrameCount \in Nat /\ m_FrameCount' = m_FrameCount + 1 /\ m_LastFilmFrame \in Nat
      /\ m_LastFilmFrame' = IF m_fFilm' THEN m_FrameCount ELSE m_LastFilmFrame
  BY OutputAssumption DEF TypeInv, DisplayedAs, SetTelecineMode
<1>3. Len(log') - m_FrameCount' + 1 + m_LastFilmFrame' = after
  BY <1>1, <1>2
<1>4. \A n \in Int : Filmed(n)' <=> IF n = L + 1 THEN m_fFilm' ELSE Filmed(n)
  BY FilmedLater, Zenon DEF LogInv, DisplayedAs
<1>5. after \in Int /\ last \in Int
  BY <1>1, <1>2
<1>6. \A n \in Int : Filmed(n) => n \in 1 .. L
  BY <1>1 DEF Filmed, InSession
<1> HIDE DEF L
<1>7. ASSUME NEW n \in 1 .. L + 1, Filmed(n)'
      PROVE  n <= after /\ \A k \in Int : k = after => Filmed(k)'
  <2>1. CASE m_fFilm'
    <3>1. after = L + 1
      BY <1>1, <1>2, <2>1
    <3> QED BY <1>1, <1>4, <2>1, <3>1
  <2>2. CASE ~m_fFilm'
    <3>1. n # L + 1 /\ Filmed(n) /\ n \in Int
      BY <1>4, <1>7, <2>2
    <3>2. n \in 1 .. L
      BY <1>6, <3>1
    <3>3. n <= last /\ Filmed(last)
      BY <3>1, <3>2 DEF LastInv, L
    <3>4. after = last /\ last \in 1 .. L
      BY <1>2, <1>5, <1>6, <2>2, <3>3
    <3> HIDE DEF after, last
    <3>5. last # L + 1
      BY <1>1, <3>4
    <3> QED BY <1>4, <1>5, <3>3, <3>4, <3>5
  <2> QED BY <2>1, <2>2
<1> HIDE DEF after
<1>8. \A n \in 1 .. Len(log') :
        Filmed(n)' => n <= Len(log') - m_FrameCount' + 1 + m_LastFilmFrame'
                      /\ \A k \in Int : k = Len(log') - m_FrameCount' + 1 + m_LastFilmFrame' => Filmed(k)'
  BY <1>1, <1>3, <1>7, Zenon
<1>9. Len(log') - m_FrameCount' + 1 + m_LastFilmFrame' \in Int
  BY <1>3, <1>5
<1> QED BY <1>8, <1>9, Zenon DEF LastInv

LEMMA FilmKept ==
  ASSUME TypeInv, LogInv, NowInv, FilmInv, NEW e, NEW flags, DisplayedAs(e, flags)
  PROVE  NowInv' /\ FilmInv'
<1> DEFINE L == Len(log)
<1>1. /\ L \in Nat /\ Len(log') = L + 1 /\ log'[L + 1] = e /\ DOMAIN log = 1 .. L
      /\ \A n \in 1 .. L : log'[n] = log[n]
  BY SameLog DEF LogInv, DisplayedAs
<1>2. /\ \A n \in Int : InSession(n)' <=> n = L + 1 \/ InSession(n)
      /\ \A n \in Int : Filmed(n)' <=> IF n = L + 1 THEN m_fFilm' ELSE Filmed(n)
  BY FilmedLater, Zenon DEF LogInv, DisplayedAs
<1>3. e.film = m_fFilm' /\ e.flags = flags /\ Flags' = flags /\ m_fFilm' = Film(flags)
  BY DEF DisplayedAs, SetTelecineMode
<1>4. m_fFilm' <=> FilmAfter(m_fFilm, Flags, flags)
  BY <1>3, Zenon DEF Film, FilmAfter
<1> HIDE DEF L
<1>5. NowInv'
  <2>1. Len(log') \in Int
    BY <1>1
  <2> QED BY <1>1, <1>2, <1>3, <2>1, Zenon DEF NowInv
<1>6. ASSUME NEW n \in 1 .. L + 1, InSession(n)', \A k \in Int : k = n - 1 => InSession(k)'
      PROVE  log'[n].film <=> FilmAfter(log'[n - 1].film, log'[n - 1].flags, log'[n].flags)
  <2>1. n - 1 \in 1 .. L /\ InSession(n - 1)
    <3>1. n - 1 # L + 1 /\ n - 1 \in Int
      BY <1>1, <1>6
    <3>2. InSession(n - 1)
      BY <1>2, <1>6, <3>1, Zenon
    <3> QED BY <1>1, <3>2 DEF InSession
  <2>2. CASE n = L + 1
    <3>1. n - 1 = L
      BY <1>1, <2>2
    <3>2. (m_fFilm <=> log[L].film) /\ Flags = log[L].flags
      BY <2>1, <3>1, Zenon DEF NowInv, Filmed, L
    <3>3. log'[n] = e /\ log'[n - 1] = log[L]
      BY <1>1, <2>1, <2>2, <3>1
    <3> QED BY <1>3, <1>4, <3>2, <3>3, Zenon DEF FilmAfter
  <2>3. CASE n \in 1 .. L
    <3>1. InSession(n)
      <4>1. n \in Int /\ n # L + 1
        BY <1>1, <2>3
      <4> QED BY <1>2, <1>6, <4>1, Zenon
    <3>2. log[n].film <=> FilmAfter(log[n - 1].film, log[n - 1].flags, log[n].flags)
      BY <2>1, <2>3, <3>1, Zenon DEF FilmInv, L
    <3> QED BY <1>1, <2>1, <2>3, <3>2, Zenon
  <2> QED BY <1>1, <2>2, <2>3
<1>7. \A n \in 1 .. L + 1 : n - 1 \in Int
  BY <1>1
<1>8. FilmInv'
  BY <1>1, <1>6, <1>7, Zenon DEF FilmInv
<1> QED BY <1>5, <1>8

\* The films of the window are as many as the film frames among the last.
LEMMA WindowCounts ==
  ASSUME NEW r, NEW F, NEW L \in Nat, \A i \in 1 .. Window : r[i] <=> L - Window + i \in F,
         F \subseteq L - Window + 1 .. L
  PROVE  Cardinality({i \in 1 .. Window : r[i]}) = Cardinality(F)
<1> DEFINE S == {i \in 1 .. Window : r[i]}
           d == L - Window
<1>1. Window \in Nat \ {0} /\ d \in Int
  BY OutputAssumption
<1>2. IsFiniteSet(1 .. Window)
  BY <1>1, FS_Interval
<1>3. S \in SUBSET Int /\ IsFiniteSet(S)
  BY <1>1, <1>2, FS_Subset
<1>4. F = {i + d : i \in S}
  <2>1. \A n \in F : n - d \in 1 .. Window /\ L - Window + (n - d) = n /\ (n - d) + d = n
    BY <1>1
  <2>2. \A n \in F : n - d \in S
    BY <2>1
  <2>3. \A i \in S : i + d = L - Window + i
    BY <1>1
  <2>4. \A i \in S : i + d \in F
    BY <2>3
  <2> HIDE DEF S, d
  <2> QED BY <2>1, <2>2, <2>4
<1> HIDE DEF S, d
<1>5. Cardinality({i + d : i \in S}) = Cardinality(S)
  BY <1>1, <1>3, Moved
<1> QED BY <1>4, <1>5 DEF S

LEMMA ModeKept ==
  ASSUME TypeInv, LogInv, ModeInv, LastInv', WindowInv', NEW e, NEW flags, DisplayedAs(e, flags)
  PROVE  ModeInv'
<1> DEFINE C == m_FrameCount
           found == m_fFilm' /\ Cardinality({i \in 1 .. Window : m_RecentFrameTypes'[i]}) >= FilmFrames
<1>1. PICK l \in Nat, h \in Nat : l = Len(log) /\ h = l + 1
  <2>1. Len(log) \in Nat
    BY DEF LogInv
  <2> QED BY <2>1
<1>2. /\ Len(log') = h
      /\ \A n \in Int : Filmed(n) => n \in 1 .. l
  <2>1. DOMAIN log = 1 .. l /\ Len(log') = h
    BY <1>1, SameLog DEF LogInv, DisplayedAs
  <2> QED BY <2>1 DEF Filmed, InSession
<1>3. /\ C \in Nat /\ m_FrameCount' = C + 1 /\ m_fTelecineMode \in BOOLEAN
      /\ m_LastFilmFrame' = IF m_fFilm' THEN C ELSE m_LastFilmFrame
      /\ m_LastFilmFrame' \in Nat
      /\ m_fTelecineMode' <=> (found \/ (m_fTelecineMode /\ C - m_LastFilmFrame' < ExitFrames))
  BY OutputAssumption DEF TypeInv, DisplayedAs, SetTelecineMode
<1>4. /\ \A n \in Int : Filmed(n)' <=> IF n = h THEN m_fFilm' ELSE Filmed(n)
      /\ \A a, b \in Int : b <= l => Films(a, b)' = Films(a, b)
  BY <1>1, FilmedLater, Zenon DEF LogInv, DisplayedAs
<1>5. Window \in Nat \ {0} /\ ExitFrames \in Nat \ {0}
  BY OutputAssumption
<1>6. PICK last \in Int : last = Len(log') - m_FrameCount' + 1 + m_LastFilmFrame'
  BY <1>1, <1>2, <1>3
<1>7. C - m_LastFilmFrame' < ExitFrames <=> last > h - ExitFrames
  BY <1>1, <1>2, <1>3, <1>5, <1>6
<1>8. \A n \in 1 .. h : Filmed(n)' => n <= last /\ Filmed(last)'
  BY <1>2, <1>6, Zenon DEF LastInv
<1>9. m_fTelecineMode <=> \E k \in Films(1, l) : Enough(k) /\ Lasting(k, l)
  BY <1>1 DEF ModeInv
<1>10. \A n \in Int : Filmed(n)' => n \in 1 .. h
  <2>1. \A n \in 1 .. l : n \in 1 .. h
    BY <1>1
  <2>2. h \in 1 .. h
    BY <1>1
  <2> QED BY <1>2, <1>4, <2>1, <2>2, Zenon
<1> HIDE DEF C, found
<1>11. ASSUME NEW k \in 1 .. l
       PROVE  /\ k \in Films(1, h)' <=> k \in Films(1, l)
              /\ Enough(k)' <=> Enough(k)
              /\ Lasting(k, l)' <=> Lasting(k, l)
  <2>1. Filmed(k)' <=> Filmed(k)
    BY <1>1, <1>4
  <2>2. Films(k - Window + 1, k)' = Films(k - Window + 1, k)
    BY <1>4, <1>5
  <2>3. \A j \in k .. l : Films(j - ExitFrames + 1, j)' = Films(j - ExitFrames + 1, j)
    BY <1>4, <1>5
  <2>4. k \in 1 .. h
    BY <1>1
  <2> QED BY <2>1, <2>2, <2>3, <2>4, Zenon DEF Films, Enough, Lasting
<1>12. h \in Films(1, h)' /\ Enough(h)' <=> found
  <2> DEFINE F == Films(h - Window + 1, h)'
  <2>1. h \in Films(1, h)' <=> m_fFilm'
    BY <1>1, <1>4 DEF Films
  <2>2. \A i \in 1 .. Window : m_RecentFrameTypes'[i] <=> Filmed(h - Window + i)'
    BY <1>2 DEF WindowInv
  <2>3. \A i \in 1 .. Window : h - Window + i \in h - Window + 1 .. h
    BY <1>1, <1>5
  <2>4. F \subseteq h - Window + 1 .. h
    BY DEF Films
  <2>5. \A i \in 1 .. Window : m_RecentFrameTypes'[i] <=> h - Window + i \in F
    BY <2>2, <2>3, Zenon DEF Films
  <2>6. Enough(h)' <=> Cardinality(F) >= FilmFrames
    BY Zenon DEF Enough
  <2> HIDE DEF F
  <2>7. Cardinality({i \in 1 .. Window : m_RecentFrameTypes'[i]}) = Cardinality(F)
    BY <2>4, <2>5, WindowCounts
  <2> QED BY <2>1, <2>6, <2>7, Zenon DEF found
<1>13. ASSUME NEW k \in 1 .. l, Filmed(k)'
       PROVE  Lasting(k, h)' <=> Lasting(k, l)' /\ C - m_LastFilmFrame' < ExitFrames
  <2>1. Filmed(last)' /\ last <= h /\ \A n \in Int : Filmed(n)' => n <= last
    BY <1>1, <1>6, <1>8, <1>10, <1>13
  <2>2. Films(h - ExitFrames + 1, h)' # {} <=> last > h - ExitFrames
    BY <1>1, <1>5, <1>6, <2>1 DEF Films
  <2>3. k .. h = (k .. l) \cup {h}
    BY <1>1
  <2> DEFINE G(j) == Films(j - ExitFrames + 1, j)' # {}
  <2>4. /\ Lasting(k, h)' <=> \A j \in k .. h : G(j)
        /\ Lasting(k, l)' <=> \A j \in k .. l : G(j)
    BY Zenon DEF Lasting
  <2>5. G(h) <=> last > h - ExitFrames
    BY <2>2, Zenon
  <2> HIDE DEF G
  <2> QED BY <1>7, <2>3, <2>4, <2>5, Zenon
<1>14. found => Lasting(h, h)'
  <2>1. found => h \in Films(h - ExitFrames + 1, h)'
    BY <1>1, <1>4, <1>5 DEF Films, found
  <2> DEFINE G(j) == Films(j - ExitFrames + 1, j)' # {}
  <2>2. Lasting(h, h)' <=> \A j \in h .. h : G(j)
    BY Zenon DEF Lasting
  <2>3. found => G(h)
    BY <2>1, Zenon
  <2> HIDE DEF G
  <2>4. \A j \in h .. h : j = h
    BY <1>1
  <2> QED BY <2>2, <2>3, <2>4, Zenon
<1>15. \A k \in Films(1, h)' : (k \in 1 .. l \/ k = h) /\ Filmed(k)'
  BY <1>1 DEF Films
<1>16. \A k \in Films(1, l) : k \in 1 .. l
  BY DEF Films
<1>17. m_fTelecineMode' <=> \E k \in Films(1, h)' : Enough(k)' /\ Lasting(k, h)'
  BY <1>3, <1>9, <1>11, <1>12, <1>13, <1>14, <1>15, <1>16, Zenon
<1> QED BY <1>2, <1>17, Zenon DEF ModeInv

LEMMA TelecineDisplayed ==
  ASSUME IInv, TelecineInv, client # "object", NEW e, NEW flags, DisplayedAs(e, flags)
  PROVE  TelecineInv'
<1>1. TypeInv /\ LogInv /\ client' # "object"
  BY DEF IInv, DisplayedAs
<1>2. LastInv /\ NowInv /\ WindowInv /\ FilmInv /\ ModeInv /\ CountInv
  BY DEF TelecineInv
<1>3. CountInv'
  BY <1>1, <1>2, CountKept DEF DisplayedAs, SetTelecineMode
<1>4. LastInv'
  BY <1>1, <1>2, LastKept, Zenon
<1>5. NowInv' /\ FilmInv'
  BY <1>1, <1>2, FilmKept, Zenon
<1>6. WindowInv'
  <2>1. m_RecentFrameTypes' = Recent(m_fFilm')
    BY DEF DisplayedAs, SetTelecineMode
  <2> QED BY <1>1, <1>2, <2>1, WindowShifted, Zenon DEF DisplayedAs
<1>7. ModeInv'
  BY <1>1, <1>2, <1>4, <1>6, ModeKept, Zenon
<1> QED BY <1>1, <1>3, <1>4, <1>5, <1>6, <1>7, Zenon DEF TelecineInv

\* InitDecode: the session is new, and no frame is of it.
LEMMA TelecineReset ==
  ASSUME IInv, TelecineInv, InitDecode
  PROVE  TelecineInv'
<1>1. /\ log' = log /\ session' = session + 1 /\ client' = client /\ client # "object"
      /\ m_FrameCount' = 0 /\ m_fTelecineMode' = FALSE /\ m_fFilm' = FALSE
      /\ m_RecentFrameTypes' = NoFilmTypes
  BY DEF InitDecode
<1>2. session \in Nat /\ Len(log) \in Nat
  BY DEF IInv, TypeInv, LogInv
<1>3. /\ \A n \in 1 .. Len(log) : log[n].session <= session /\ log[n].session \in Nat
      /\ DOMAIN log = 1 .. Len(log)
  <2>1. \A n \in 1 .. Len(log) : log[n] \in Entry
    BY Elements, Zenon DEF IInv, LogInv
  <2>2. DOMAIN log = 1 .. Len(log)
    BY DEF IInv, LogInv
  <2> QED BY <2>1, <2>2 DEF TelecineInv, CountInv, Entry
<1>4. CountInv'
  BY <1>1, <1>2, <1>3 DEF CountInv
<1>5. \A n : ~InSession(n)' /\ ~Filmed(n)'
  BY <1>1, <1>2, <1>3 DEF InSession, Filmed
<1>6. Films(1, Len(log))' = {}
  BY <1>5, Zenon DEF Films
<1>7. LastInv' /\ NowInv' /\ WindowInv' /\ FilmInv' /\ ModeInv'
  <2>1. LastInv'
    BY <1>5, Zenon DEF LastInv
  <2>2. NowInv'
    BY <1>1, <1>5, Zenon DEF NowInv
  <2>3. WindowInv'
    <3>1. \A i \in 1 .. Window : ~m_RecentFrameTypes'[i]
      BY <1>1 DEF NoFilmTypes
    <3> QED BY <1>5, <3>1, Zenon DEF WindowInv
  <2>4. FilmInv'
    BY <1>5, Zenon DEF FilmInv
  <2>5. ModeInv'
    BY <1>1, <1>6, Zenon DEF ModeInv
  <2> QED BY <2>1, <2>2, <2>3, <2>4, <2>5
<1> QED BY <1>1, <1>4, <1>7, Zenon DEF TelecineInv

\* The other actions of the filter leave the detection alone.
LEMMA TelecineSame ==
  ASSUME TelecineInv, UNCHANGED <<client, log, session, Flags, filmVars>>
  PROVE  TelecineInv'
<1>1. /\ client' = client /\ log' = log /\ session' = session /\ Flags' = Flags
      /\ m_fFilm' = m_fFilm /\ m_fTelecineMode' = m_fTelecineMode
      /\ m_RecentFrameTypes' = m_RecentFrameTypes /\ m_LastFilmFrame' = m_LastFilmFrame
      /\ m_FrameCount' = m_FrameCount
  BY DEF filmVars
<1>2. CountInv' <=> CountInv
  BY <1>1 DEF CountInv
<1>3. \A n : (InSession(n)' <=> InSession(n)) /\ (Filmed(n)' <=> Filmed(n))
  BY <1>1 DEF InSession, Filmed
<1>4. \A a, b : Films(a, b)' = Films(a, b)
  BY <1>3 DEF Films
<1>5. \A k, l : (Enough(k)' <=> Enough(k)) /\ (Lasting(k, l)' <=> Lasting(k, l))
  BY <1>4 DEF Enough, Lasting
<1>6. (LastInv' <=> LastInv) /\ (NowInv' <=> NowInv) /\ (WindowInv' <=> WindowInv)
  BY <1>1 DEF LastInv, NowInv, WindowInv, InSession, Filmed
<1>7. (FilmInv' <=> FilmInv) /\ (ModeInv' <=> ModeInv)
  BY <1>1 DEF FilmInv, ModeInv, InSession, Films, Filmed, Enough, Lasting
<1> QED BY <1>1, <1>2, <1>6, <1>7, Zenon DEF TelecineInv

LEMMA TelecineObject ==
  ASSUME IInv, TelecineInv, client = "object", UNCHANGED <<client, m_fTelecineMode>>,
         session' \in {session, session + 1},
         \/ log' = log
         \/ \E e \in Entry : log' = Append(log, e) /\ e.session = session /\ ~e.film
  PROVE  TelecineInv'
<1>1. session \in Nat /\ Len(log) \in Nat
  BY DEF IInv, TypeInv, LogInv
<1>2. \A n \in 1 .. Len(log) : log[n].session <= session /\ log[n].session \in Nat /\ ~log[n].film
  <2>1. \A n \in 1 .. Len(log) : log[n] \in Entry
    BY Elements, Zenon DEF IInv, LogInv
  <2>2. \A n \in 1 .. Len(log) : log[n].session \in Nat
    BY <2>1 DEF Entry
  <2> QED BY <2>2, Zenon DEF TelecineInv, CountInv
<1>3. ASSUME NEW n \in 1 .. Len(log')
      PROVE  log'[n].session <= session' /\ ~log'[n].film
  <2>1. CASE log' = log
    <3>1. log'[n].session <= session'
      BY <1>1, <1>2, <2>1
    <3> QED BY <1>2, <2>1, <3>1, Zenon
  <2>2. CASE \E e \in Entry : log' = Append(log, e) /\ e.session = session /\ ~e.film
    <3>1. PICK e \in Entry : log' = Append(log, e) /\ e.session = session /\ ~e.film
      BY <2>2
    <3>2. /\ Len(log') = Len(log) + 1 /\ log'[Len(log) + 1] = e
          /\ \A k \in 1 .. Len(log) : log'[k] = log[k]
      BY <3>1, SameLog DEF IInv, LogInv
    <3>3. n = Len(log) + 1 \/ n \in 1 .. Len(log)
      BY <1>1, <3>2
    <3>4. log'[n].session <= session'
      BY <1>1, <1>2, <3>1, <3>2, <3>3
    <3> QED BY <1>2, <3>1, <3>2, <3>3, <3>4, Zenon
  <2> QED BY <2>1, <2>2
<1>4. client' = "object" /\ m_fTelecineMode' = m_fTelecineMode
  OBVIOUS
<1>5. CountInv'
  BY <1>3, <1>4, Zenon DEF CountInv
<1>6. ~m_fTelecineMode'
  <2>1. ~m_fTelecineMode
    BY Zenon DEF TelecineInv
  <2> QED BY <1>4, <2>1
<1> QED BY <1>3, <1>4, <1>5, <1>6, Zenon DEF TelecineInv

LEMMA TelecineBegun ==
  ASSUME Init
  PROVE  TelecineInv
<1>1. /\ Len(log) = 0 /\ DOMAIN log = {} /\ 1 .. Len(log) = {} /\ m_fTelecineMode = FALSE
      /\ m_fFilm = FALSE /\ m_RecentFrameTypes = NoFilmTypes
  BY DEF Init
<1>2. \A n : ~Filmed(n) /\ ~InSession(n)
  BY <1>1 DEF Filmed, InSession
<1>3. CountInv /\ LastInv /\ FilmInv
  BY <1>1, Zenon DEF CountInv, LastInv, FilmInv
<1>4. NowInv
  BY <1>1, <1>2, Zenon DEF NowInv
<1>5. WindowInv
  <2>1. \A i \in 1 .. Window : ~m_RecentFrameTypes[i]
    BY <1>1 DEF NoFilmTypes
  <2> QED BY <1>2, <2>1, Zenon DEF WindowInv
<1>6. ModeInv
  BY <1>1, <1>2, Zenon DEF ModeInv, Films
<1> QED BY <1>1, <1>3, <1>4, <1>5, <1>6, Zenon DEF TelecineInv

LEMMA TelecineStep ==
  ASSUME IInv, TelecineInv, [Next]_vars
  PROVE  TelecineInv'
<1>1. ASSUME NEW flags \in FlagSets[client], NEW size \in Nat, NEW key \in BOOLEAN, NEW skip \in BOOLEAN,
             Display(flags, size, key, skip)
      PROVE  TelecineInv'
  <2> DEFINE e == [flags |-> flags, size |-> size, film |-> m_fFilm', method |-> Deinterlace',
                   seen |-> ~m_fWaitForKeyFrame', session |-> session]
  <2>1. /\ client # "object" /\ UNCHANGED <<client, session>> /\ log' = Append(log, e)
        /\ SetTelecineMode(flags) /\ Flags' = flags /\ Len(log) + 1 <= MaxFrames[client]
        /\ Deinterlace' = Choose(flags, m_fFilm', m_fTelecineMode')
        /\ m_fWaitForKeyFrame' = (m_fWaitForKeyFrame /\ ~key)
    BY <1>1 DEF Display, Record
  <2>2. m_fFilm' \in BOOLEAN
    BY <2>1, Telecined
  <2>3. m_fWaitForKeyFrame' \in BOOLEAN /\ Deinterlace' \in AllMethods
    BY <2>1, Chosen, Zenon DEF IInv
  <2>4. e \in Entry
    <3>1. flags \in SUBSET {"repeat", "frame", "sequence"} /\ session \in Nat
      BY OutputAssumption DEF IInv, TypeInv
    <3> QED BY <2>2, <2>3, <3>1 DEF Entry
  <2>5. DisplayedAs(e, flags)
    BY <2>1, <2>2, <2>4 DEF DisplayedAs
  <2> QED BY <2>1, <2>5, TelecineDisplayed, Zenon
<1>2. ASSUME NEW flags \in FlagSets[client], NEW size \in Nat, NEW key \in BOOLEAN, NEW skip \in BOOLEAN,
             InputFrame(flags, size, key, skip)
      PROVE  TelecineInv'
  <2> DEFINE e == [flags |-> flags, size |-> size, film |-> FALSE, method |-> Deinterlace',
                   seen |-> ~m_fWaitForKeyFrame', session |-> session]
  <2>1. /\ client = "object" /\ UNCHANGED <<client, session, Deinterlace>> /\ UNCHANGED filmVars
        /\ log' = Append(log, e) /\ m_fWaitForKeyFrame' = (m_fWaitForKeyFrame /\ ~key)
    BY <1>2 DEF InputFrame, Record
  <2>2. m_fWaitForKeyFrame' \in BOOLEAN /\ Deinterlace' \in AllMethods
    BY <2>1, Zenon DEF IInv, TypeInv
  <2>3. e \in Entry /\ e.session = session /\ e.film = FALSE
    <3>1. flags \in SUBSET {"repeat", "frame", "sequence"} /\ session \in Nat
      BY OutputAssumption DEF IInv, TypeInv
    <3> QED BY <2>2, <3>1 DEF Entry
  <2>4. m_fTelecineMode' = m_fTelecineMode
    BY <2>1 DEF filmVars
  <2> QED BY <2>1, <2>3, <2>4, TelecineObject, Zenon
<1>3. CASE Frame
  <2>1. PICK flags \in FlagSets[client], resized \in BOOLEAN, key \in BOOLEAN, skip \in BOOLEAN :
          LET size == IF log = <<>> THEN 0 ELSE log[Len(log)].size + (IF resized THEN 1 ELSE 0)
          IN  Display(flags, size, key, skip) \/ InputFrame(flags, size, key, skip)
    BY <1>3 DEF Frame
  <2> DEFINE size == IF log = <<>> THEN 0 ELSE log[Len(log)].size + (IF resized THEN 1 ELSE 0)
  <2>2. size \in Nat
    BY SizeOfNext DEF IInv
  <2>3. Display(flags, size, key, skip) \/ InputFrame(flags, size, key, skip)
    BY <2>1
  <2> HIDE DEF size
  <2> QED BY <1>1, <1>2, <2>2, <2>3
<1>4. CASE Change
  <2>1. CASE InitDecode
    BY <2>1, TelecineReset
  <2>2. CASE EndFlush \/ SetOutputType \/ SetWaitForKeyFrame
    BY <2>2, TelecineSame DEF EndFlush, SetOutputType, SetWaitForKeyFrame
  <2>3. CASE Open
    <3>1. client = "object" /\ UNCHANGED <<client, m_fTelecineMode, log>> /\ session' = session + 1
      BY <2>3 DEF Open, filmVars
    <3> QED BY <3>1, TelecineObject
  <2>4. ASSUME NEW method \in Methods[client], SetDeinterlaceMethod(method)
        PROVE  TelecineInv'
    <3>1. CASE client = "object" /\ session > 0
      <4>1. UNCHANGED <<client, m_fTelecineMode, log>> /\ session' = session + 1
        BY <2>4, <3>1 DEF SetDeinterlaceMethod, filmVars
      <4> QED BY <3>1, <4>1, TelecineObject
    <3>2. CASE ~(client = "object" /\ session > 0)
      BY <2>4, <3>2, TelecineSame DEF SetDeinterlaceMethod
    <3> QED BY <3>1, <3>2
  <2> QED BY <1>4, <2>1, <2>2, <2>3, <2>4 DEF Change
<1>5. CASE (Close /\ UNCHANGED changes) \/ UNCHANGED vars
  BY <1>5, TelecineSame DEF Close, vars
<1> QED BY <1>3, <1>4, <1>5 DEF Next

LEMMA ModeCorrect ==
  ASSUME IInv, TelecineInv
  PROVE  TelecineMode
<1> DEFINE films(a, b) == {i \in a .. b : InSession(i) /\ log[i].film}
           On == \E k \in films(1, Len(log)) :
                   /\ Cardinality(films(k - Window + 1, k)) >= FilmFrames
                   /\ \A j \in k .. Len(log) : films(j - ExitFrames + 1, j) # {}
<1>1. m_fTelecineMode \in BOOLEAN
  BY DEF IInv, TypeInv
<1>2. m_fTelecineMode <=> On
  <2>1. CASE client = "object"
    <3>1. ~m_fTelecineMode /\ films(1, Len(log)) = {}
      BY <2>1, Zenon DEF TelecineInv
    <3> QED BY <3>1, Zenon
  <2>2. CASE client # "object"
    BY <2>2, Zenon DEF TelecineInv, ModeInv, Films, Filmed, Enough, Lasting
  <2> QED BY <2>1, <2>2
<1>3. TelecineMode <=> m_fTelecineMode = On
  BY Zenon DEF TelecineMode
<1> HIDE DEF On
<1>4. m_fTelecineMode = On
  BY <1>1, <1>2
<1> QED BY <1>3, <1>4

LEMMA CadenceCorrect ==
  ASSUME IInv, TelecineInv
  PROVE  AdaptsToCadence
<1> SUFFICES ASSUME client # "object", log # <<>>
             PROVE  AdaptsToCadence
  BY DEF AdaptsToCadence
<1> DEFINE repeats(n) == "repeat" \in log[n].flags
           last == Len(log)
           pulldown == /\ last > FilmFrames + 1
                       /\ \A n \in last - FilmFrames - 1 .. last :
                            /\ InSession(n) /\ "sequence" \notin log[n].flags
                            /\ repeats(n) => "frame" \in log[n].flags
                            /\ n >= last - FilmFrames => repeats(n) # repeats(n - 1)
           video == /\ last > ExitFrames + 1
                    /\ \A n \in last - ExitFrames - 1 .. last :
                         InSession(n) /\ log[n].flags \cap {"repeat", "sequence"} = {}
<1>1. /\ last \in Nat /\ FilmFrames \in Nat \ {0} /\ ExitFrames \in Nat \ {0}
      /\ Window \in Nat /\ FilmFrames <= Window
  BY OutputAssumption DEF IInv, LogInv
<1>2. NowInv /\ FilmInv /\ ModeInv
  BY DEF TelecineInv
<1>3. ASSUME NEW n \in 2 .. last, InSession(n), InSession(n - 1)
      PROVE  log[n].film <=> FilmAfter(log[n - 1].film, log[n - 1].flags, log[n].flags)
  BY <1>1, <1>2, <1>3 DEF FilmInv
<1>4. m_fFilm <=> Filmed(last)
  BY <1>2 DEF NowInv
<1>5. m_fTelecineMode <=> \E k \in Films(1, last) : Enough(k) /\ Lasting(k, last)
  BY <1>2 DEF ModeInv
<1> HIDE DEF last, repeats
<1>6. ASSUME pulldown
      PROVE  m_fTelecineMode /\ m_fFilm
  <2>1. \A n \in last - FilmFrames - 1 .. last :
          /\ InSession(n) /\ "sequence" \notin log[n].flags
          /\ repeats(n) => "frame" \in log[n].flags
          /\ n >= last - FilmFrames => repeats(n) # repeats(n - 1)
    BY <1>6
  <2>2. ASSUME NEW n \in last - FilmFrames .. last
        PROVE  /\ InSession(n) /\ InSession(n - 1) /\ "sequence" \notin log[n].flags /\ n \in 2 .. last
               /\ repeats(n) => "frame" \in log[n].flags
               /\ ~(repeats(n) <=> repeats(n - 1))
    <3>1. /\ n \in last - FilmFrames - 1 .. last /\ n - 1 \in last - FilmFrames - 1 .. last
          /\ n >= last - FilmFrames /\ n \in 2 .. last
      BY <1>1, <1>6
    <3>2. repeats(n) # repeats(n - 1)
      BY <2>1, <3>1, Zenon
    <3>3. ~(repeats(n) <=> repeats(n - 1))
      BY <3>2 DEF repeats
    <3> QED BY <2>1, <3>1, <3>3, Zenon
  <2>3. ASSUME NEW n \in last - FilmFrames .. last, repeats(n)
        PROVE  log[n].film
    <3>1. /\ {"repeat", "frame"} \subseteq log[n].flags /\ "sequence" \notin log[n].flags
          /\ "repeat" \notin log[n - 1].flags /\ "repeat" \in log[n].flags
      BY <2>2, <2>3 DEF repeats
    <3>2. log[n].film <=> FilmAfter(log[n - 1].film, log[n - 1].flags, log[n].flags)
      BY <1>3, <2>2, Zenon
    <3> QED BY <3>1, <3>2, Zenon DEF FilmAfter
  <2>4. ASSUME NEW n \in last - FilmFrames + 1 .. last, ~repeats(n)
        PROVE  log[n].film
    <3>1. n \in last - FilmFrames .. last /\ n - 1 \in last - FilmFrames .. last
      BY <1>1
    <3>2. repeats(n - 1) /\ log[n - 1].film
      BY <2>2, <2>3, <2>4, <3>1, Zenon
    <3>3. log[n].film <=> FilmAfter(log[n - 1].film, log[n - 1].flags, log[n].flags)
      BY <1>3, <2>2, <3>1, Zenon
    <3> QED BY <3>2, <3>3, Zenon DEF FilmAfter, repeats
  <2>5. \A n \in last - FilmFrames + 1 .. last : Filmed(n)
    <3>1. \A n \in last - FilmFrames + 1 .. last : n \in last - FilmFrames .. last
      BY <1>1
    <3> QED BY <2>2, <2>3, <2>4, <3>1, Zenon DEF Filmed
  <2>6. Filmed(last) /\ last \in Films(1, last) /\ last \in Films(last - ExitFrames + 1, last)
    <3>1. /\ last \in last - FilmFrames + 1 .. last /\ last \in 1 .. last
          /\ last \in last - ExitFrames + 1 .. last
      BY <1>1, <1>6
    <3> QED BY <2>5, <3>1 DEF Films
  <2>7. Enough(last)
    <3> DEFINE R == last - FilmFrames + 1 .. last
               F == Films(last - Window + 1, last)
    <3>1. last - Window + 1 \in Int /\ last - FilmFrames + 1 \in Int /\ last \in Int
      BY <1>1
    <3>2. IsFiniteSet(last - Window + 1 .. last)
      BY <3>1, FS_Interval
    <3>3. F \subseteq last - Window + 1 .. last
      BY DEF Films
    <3>4. IsFiniteSet(F)
      BY <3>2, <3>3, FS_Subset
    <3>5. R \subseteq F
      BY <1>1, <2>5 DEF Films
    <3>6. Cardinality(R) = FilmFrames
      BY <1>1, <3>1, FS_Interval
    <3>7. Cardinality(F) \in Nat /\ Cardinality(R) <= Cardinality(F)
      BY <3>4, <3>5, FS_Subset, FS_CardinalityType
    <3> QED BY <1>1, <3>6, <3>7 DEF Enough
  <2>8. Lasting(last, last)
    <3>1. \A j \in last .. last : j = last
      BY <1>1
    <3> QED BY <2>6, <3>1, Zenon DEF Lasting
  <2> QED BY <1>4, <1>5, <2>6, <2>7, <2>8, Zenon
<1>7. ASSUME video
      PROVE  ~m_fTelecineMode /\ ~m_fFilm
  <2>1. ASSUME NEW n \in last - ExitFrames .. last
        PROVE  ~log[n].film
    <3>1. /\ n \in last - ExitFrames - 1 .. last /\ n - 1 \in last - ExitFrames - 1 .. last
          /\ n \in 2 .. last
      BY <1>1, <1>7
    <3>2. /\ InSession(n) /\ InSession(n - 1)
          /\ log[n].flags \cap {"repeat", "sequence"} = {}
          /\ log[n - 1].flags \cap {"repeat", "sequence"} = {}
      BY <1>7, <3>1, Zenon
    <3>3. "repeat" \notin log[n].flags /\ "sequence" \notin log[n].flags /\ "repeat" \notin log[n - 1].flags
      BY <3>2
    <3>4. log[n].film <=> FilmAfter(log[n - 1].film, log[n - 1].flags, log[n].flags)
      BY <1>3, <3>1, <3>2, Zenon
    <3>5. ~({"repeat", "frame"} \subseteq log[n].flags)
      BY <3>3
    <3> QED BY <3>3, <3>4, <3>5, Zenon DEF FilmAfter
  <2>2. /\ last \in last - ExitFrames .. last
        /\ last - ExitFrames + 1 .. last \subseteq last - ExitFrames .. last
    BY <1>1
  <2>3. ~Filmed(last)
    BY <2>1, <2>2, Zenon DEF Filmed
  <2>4. Films(last - ExitFrames + 1, last) = {}
    BY <2>1, <2>2 DEF Films, Filmed
  <2>5. ASSUME NEW k \in Films(1, last)
        PROVE  ~Lasting(k, last)
    <3>1. last \in k .. last
      BY <1>1 DEF Films
    <3> QED BY <2>4, <3>1, Zenon DEF Lasting
  <2> QED BY <1>4, <1>5, <2>3, <2>5, Zenon
<1> QED BY <1>6, <1>7, Zenon DEF AdaptsToCadence, last, repeats

\* The telecine detection, for every stream, whatever its flags, and any length of
\* the window: CTVTestVideoDecoder::SetFrameStatus is in the telecine mode
\* exactly as long as the last frames say, 3:2 pulldown starts it, and
\* video without repeated fields ends it.
THEOREM TelecineAdaptsCorrect == Spec => []TelecineAdapts
<1>1. Init => IInv /\ TelecineInv
  BY Begun, TelecineBegun
<1>2. IInv /\ TelecineInv /\ [Next]_vars => (IInv /\ TelecineInv)'
  BY Step, TelecineStep
<1>3. IInv /\ TelecineInv => TelecineAdapts
  BY ModeCorrect, CadenceCorrect DEF TelecineAdapts
<1> QED BY <1>1, <1>2, <1>3, PTL DEF Spec

-----------------------------------------------------------------------------
(* What is sent *)

SampleType == [frame : Nat, start : Int, stop : Int]

\* A sample lies within the time of its frame; the object sets no times.
TimesRight(t, l, c) ==
  IF c = "object" THEN t.start = NoTime /\ t.stop = NoTime
  ELSE l[t.frame].method # "YADIF_BOB" => 2 * t.frame <= t.start /\ t.stop <= 2 * t.frame + 2

Fits(a, b, l) ==
  /\ a.frame <= b.frame
  /\ "YADIF_BOB" \notin {l[a.frame].method, l[b.frame].method} => a.stop <= b.start

\* A sample of frame n within its time.
Shows(t, n, l, c) == t \in SampleType /\ t.frame = n /\ TimesRight(t, l, c)

\* The samples s are of frames in P, and in order.
Delivered(s, P, l, c) ==
  /\ s \in Seq(SampleType)
  /\ \A i \in 1 .. Len(s) : s[i].frame \in P /\ TimesRight(s[i], l, c)
Forward(s, l) == \A i \in 1 .. Len(s) - 1 : Fits(s[i], s[i + 1], l)

FramesOf(s) == {s[i].frame : i \in DOMAIN s}

\* r is s with a sample t of frame n.
Adds(r, s, t, n) ==
  r # <<>> /\ r[Len(r)] = t /\ FramesOf(r) = FramesOf(s) \cup {n}

LEMMA OneMore ==
  ASSUME NEW s, NEW P, NEW l, NEW c, Delivered(s, P, l, c), NEW k, NEW t, Shows(t, k, l, c), NEW r, r = Append(s, t)
  PROVE  /\ Delivered(r, P \cup {k}, l, c) /\ Adds(r, s, t, k)
         /\ Forward(s, l) /\ (s # <<>> => Fits(s[Len(s)], t, l)) => Forward(r, l)
<1> DEFINE n == Len(s)
           Q == P \cup {k}
<1>1. s \in Seq(SampleType) /\ t \in SampleType /\ t.frame = k /\ t.frame \in Q /\ TimesRight(t, l, c)
  BY DEF Delivered, Shows
<1> HIDE DEF SampleType
<1>2. /\ r \in Seq(SampleType) /\ r # <<>> /\ n \in Nat /\ Len(r) = n + 1
      /\ DOMAIN s = 1 .. n /\ DOMAIN r = 1 .. n + 1 /\ (n > 0 => s # <<>>)
      /\ r[n + 1] = t /\ \A i \in 1 .. n : r[i] = s[i]
  BY <1>1
<1> HIDE DEF n, Q
<1>3. ASSUME NEW i \in 1 .. n + 1
      PROVE  r[i].frame \in Q /\ TimesRight(r[i], l, c)
  <2>1. CASE i = n + 1
    BY <1>1, <1>2, <2>1
  <2>2. CASE i \in 1 .. n
    BY <1>2, <2>2 DEF Delivered, n, Q
  <2> QED BY <1>2, <2>1, <2>2
<1>4. ASSUME Forward(s, l), s # <<>> => Fits(s[Len(s)], t, l), NEW i \in 1 .. n
      PROVE  Fits(r[i], r[i + 1], l)
  <2>1. CASE i = n
    <3>1. r[i] = s[n] /\ r[i + 1] = t /\ s # <<>>
      BY <1>2, <2>1
    <3> QED BY <1>4, <3>1, Zenon DEF n
  <2>2. CASE i \in 1 .. n - 1
    <3>1. r[i] = s[i] /\ r[i + 1] = s[i + 1]
      BY <1>2, <2>2
    <3> QED BY <1>4, <2>2, <3>1, Zenon DEF Forward, n
  <2> QED BY <1>2, <2>1, <2>2
<1>5. /\ Delivered(r, Q, l, c)
      /\ Forward(s, l) /\ (s # <<>> => Fits(s[Len(s)], t, l)) => Forward(r, l)
  <2>1. Len(r) = n + 1 /\ Len(r) - 1 = n
    BY <1>2
  <2> QED BY <1>2, <1>3, <1>4, <2>1, Zenon DEF Delivered, Forward
<1>6. FramesOf(r) = FramesOf(s) \cup {t.frame}
  <2>1. 1 .. n + 1 = (1 .. n) \cup {n + 1}
    BY <1>2
  <2>2. FramesOf(r) = {r[i].frame : i \in 1 .. n} \cup {r[n + 1].frame}
    BY <1>2, <2>1 DEF FramesOf
  <2>3. {r[i].frame : i \in 1 .. n} = FramesOf(s)
    BY <1>2 DEF FramesOf
  <2> QED BY <1>2, <2>2, <2>3
<1> QED BY <1>1, <1>2, <1>5, <1>6, Zenon DEF n, Q, Adds

LEMMA Joined ==
  ASSUME NEW s \in Seq(SampleType)
  PROVE  /\ s \o <<>> = s /\ s \o (<<>> \o <<>>) = s
         /\ \A t \in SampleType : s \o (<<t>> \o <<>>) = Append(s, t) /\ s \o (<<>> \o <<t>>) = Append(s, t)
         /\ \A t, u \in SampleType : s \o (<<t>> \o <<u>>) = Append(Append(s, t), u)
<1> HIDE DEF SampleType
<1>1. s \o <<>> = s /\ <<>> \o <<>> = <<>>
  OBVIOUS
<1>2. ASSUME NEW t \in SampleType
      PROVE  <<t>> \o <<>> = <<t>> /\ <<>> \o <<t>> = <<t>> /\ s \o <<t>> = Append(s, t)
  OBVIOUS
<1>3. ASSUME NEW t \in SampleType, NEW u \in SampleType
      PROVE  s \o (<<t>> \o <<u>>) = Append(Append(s, t), u)
  <2>1. <<t>> \in Seq(SampleType) /\ <<u>> \in Seq(SampleType) /\ Append(s, t) \in Seq(SampleType)
    OBVIOUS
  <2>2. s \o (<<t>> \o <<u>>) = (s \o <<t>>) \o <<u>>
    BY <2>1, ConcatAssociative
  <2>3. Append(s, t) \o <<u>> = Append(Append(s, t), u)
    BY <2>1
  <2> QED BY <1>2, <2>2, <2>3
<1> QED BY <1>1, <1>2, <1>3

\* What GetFrame of a Yadif deinterlacer returns.
LEMMA YadifGot ==
  ASSUME NEW P, \A n \in P : n \in Nat, NEW f \in P, NEW kept, Kept(kept, P), NEW method \in Yadifs
  PROVE  LET g == GetFrame(method, kept, f)
             h == History(kept, f)
         IN  /\ g.kept = h /\ h[Len(h)] = f /\ Kept(h, P) /\ Extended(h, kept, f, P, log')
             /\ \/ Len(h) = 1 /\ h = <<f>> /\ g.status = "FRAME_SKIP"
                \/ Len(h) = 2 /\ g.status = "FRAME_PENDING"
                \/ /\ Len(h) = 3 /\ g.status = "FRAME_OK"
                   /\ Len(kept) >= 2 /\ g.frame = kept[Len(kept)]
<1> DEFINE g == GetFrame(method, kept, f)
           h == History(kept, f)
           n == Len(kept)
<1>1. Extended(h, kept, f, P, log')
  BY HistoryKept
<1>2. /\ g.kept = h /\ g.status = Status(h) /\ g.frame = h[Min({2, Len(h)})]
  BY DEF GetFrame
<1> HIDE DEF g, h
<1>3. Len(h) = 3 => Min({2, Len(h)}) = 2
  BY DEF Min
<1>4. n \in Nat /\ (n > 0 <=> kept # <<>>)
  BY DEF Kept
<1>5. Kept(h, P) /\ h # <<>> /\ h[Len(h)] = f
  BY <1>1 DEF Extended
<1>6. Len(h) \in {1, 2, 3}
  <2>1. h \in Seq(Nat) /\ h # <<>> /\ Len(h) <= 3
    BY <1>5 DEF Kept
  <2>2. Len(h) \in Nat /\ Len(h) > 0
    BY <2>1, Elements
  <2>3. \A k \in Nat : k > 0 /\ k <= 3 => k \in {1, 2, 3}
    OBVIOUS
  <2> QED BY <2>1, <2>2, <2>3, Zenon
<1>7. Len(h) = 1 => h = <<f>>
  <2> HIDE DEF n
  <2>1. (\A k \in Nat : k > 0 => k + 1 # 1) /\ 3 # 1
    OBVIOUS
  <2> QED BY <1>1, <1>4, <2>1, Zenon DEF Extended, n
<1>8. Len(h) = 3 => n >= 2 /\ h[2] = kept[n]
  <2>1. CASE h = <<f>>
    BY <2>1
  <2>2. CASE Len(h) = n + 1 /\ \A i \in 1 .. n : h[i] = kept[i]
    <3> HIDE DEF n
    <3>1. Len(h) = 3 => n = 2
      <4>1. Len(h) = n + 1
        BY <2>2
      <4>2. \A k \in Nat : 3 = k + 1 => k = 2
        OBVIOUS
      <4> QED BY <1>4, <4>1, <4>2, Zenon
    <3>2. n = 2 => h[2] = kept[2]
      BY <2>2
    <3> QED BY <3>1, <3>2
  <2>3. CASE n = 3 /\ h[2] = kept[3]
    BY <2>3
  <2> HIDE DEF n
  <2> QED BY <1>1, <2>1, <2>2, <2>3, Zenon DEF Extended, n
<1>9. /\ Len(h) = 1 => Status(h) = "FRAME_SKIP"
      /\ Len(h) = 2 => Status(h) = "FRAME_PENDING"
      /\ Len(h) = 3 => Status(h) = "FRAME_OK"
  BY DEF Status
<1> HIDE DEF n
<1>10. \/ Len(h) = 1 /\ h = <<f>> /\ g.status = "FRAME_SKIP"
       \/ Len(h) = 2 /\ g.status = "FRAME_PENDING"
       \/ Len(h) = 3 /\ g.status = "FRAME_OK" /\ n >= 2 /\ g.frame = kept[n]
  BY <1>2, <1>3, <1>6, <1>7, <1>8, <1>9
<1> QED BY <1>1, <1>2, <1>5, <1>10, Zenon DEF g, h, n

\* The times of one sample, and of two halves.
Time == [start : Int, stop : Int]
Untimed(t) == t.start = NoTime /\ t.stop = NoTime

LEMMA TimesOf ==
  ASSUME NEW n \in Nat, NEW k \in Nat
  PROVE  LET d == Times(n)
             h == FirstHalf(d)
             r == SecondHalf(h, d.stop)
             s == SecondHalf(d, Times(k).stop)
         IN  /\ d \in Time /\ h \in Time /\ r \in Time /\ s \in Time /\ SecondHalf(d, NoTime) = d
             /\ client = "object" => Untimed(d) /\ Untimed(h) /\ Untimed(r) /\ Untimed(s)
             /\ client # "object" =>
                  /\ d.start = 2 * n /\ d.stop = 2 * n + 2
                  /\ 2 * n <= h.start /\ h.stop <= r.start /\ r.stop <= 2 * n + 2
                  /\ h.stop <= 2 * n + 2 /\ 2 * n <= r.start
<1>1. CASE client = "object"
  <2>1. \A m : Times(m) = [start |-> -1, stop |-> -1]
    BY <1>1 DEF Times, NoTime
  <2> DEFINE d == [start |-> -1, stop |-> -1]
  <2>2. d \in Time /\ d.start = -1 /\ d.stop = -1 /\ ~(-1 >= 0)
    BY DEF Time
  <2> HIDE DEF d
  <2>3. FirstHalf(d) = d /\ SecondHalf(d, -1) = d
    BY <2>2 DEF FirstHalf, SecondHalf
  <2>4. Times(n) = d /\ Times(k) = d
    BY <2>1 DEF d
  <2> QED BY <1>1, <2>2, <2>3, <2>4 DEF NoTime, Untimed
<1>2. CASE client # "object"
  <2> DEFINE d == [start |-> 2 * n, stop |-> 2 * n + 2]
             h == [start |-> 2 * n, stop |-> 2 * n + 1]
             r == [start |-> 2 * n + 1, stop |-> 2 * n + 2]
             s == [start |-> 2 * n + 2, stop |-> 2 * k + 2]
  <2>1. Times(n) = d /\ Times(k).stop = 2 * k + 2
    BY <1>2 DEF Times
  <2>2. FirstHalf(d) = h
    <3>1. d.start = 2 * n /\ d.stop = 2 * n + 2 /\ 2 * n >= 0 /\ 2 * n + 2 >= 0
      OBVIOUS
    <3>2. (2 * n + (2 * n + 2)) \div 2 = 2 * n + 1
      OBVIOUS
    <3>3. [d EXCEPT !.stop = 2 * n + 1] = h
      OBVIOUS
    <3> HIDE DEF d, h
    <3> QED BY <3>1, <3>2, <3>3 DEF FirstHalf
  <2>3. SecondHalf(h, d.stop) = r /\ SecondHalf(d, 2 * k + 2) = s /\ SecondHalf(d, NoTime) = d
    BY DEF SecondHalf, NoTime
  <2>4. d \in Time /\ h \in Time /\ r \in Time /\ s \in Time
    BY DEF Time
  <2>5. /\ d.start = 2 * n /\ d.stop = 2 * n + 2
        /\ 2 * n <= h.start /\ h.stop <= r.start /\ r.stop <= 2 * n + 2
        /\ h.stop <= 2 * n + 2 /\ 2 * n <= r.start
    OBVIOUS
  <2> HIDE DEF d, h, r, s
  <2> QED BY <1>2, <2>1, <2>2, <2>3, <2>4, <2>5
<1> QED BY <1>1, <1>2

LEMMA Sampled ==
  ASSUME NEW n \in Nat, NEW times \in Time
  PROVE  /\ Sample(n, times) \in SampleType /\ Sample(n, times).frame = n
         /\ Sample(n, times).start = times.start /\ Sample(n, times).stop = times.stop
  BY DEF Sample, SampleType, Time

\* A deinterlacer without a history shows the frame once, or in two halves.
LEMMA PlainSent ==
  ASSUME NEW f \in Nat, NEW method, method \notin Yadifs, log'[f].method = method, NEW frames, NEW one,
         Output(f, method, frames, FALSE, one), sent \in Seq(SampleType)
  PROVE  \E t \in SampleType :
           /\ Shows(t, f, log', client)
           /\ \/ sent' = Append(sent, t)
              \/ \E u \in SampleType :
                   /\ Shows(u, f, log', client) /\ t.stop <= u.start
                   /\ sent' = Append(Append(sent, t), u)
<1> DEFINE double == method \in Doubles
           dst == IF double THEN FirstHalf(Times(f)) ELSE Times(f)
           t == Sample(f, dst)
           u == Sample(f, SecondHalf(dst, Times(f).stop))
           both == double /\ ~one
<1>1. GetFrame(method, <<>>, f) = [status |-> "FRAME_OK", frame |-> f, kept |-> <<>>]
  BY DEF GetFrame
<1>2. sent' = sent \o (<<t>> \o (IF both THEN <<u>> ELSE <<>>))
  BY <1>1 DEF Output, Deliver
<1>3. method # "YADIF_BOB"
  BY DEF Yadifs
<1>4. /\ t \in SampleType /\ t.frame = f /\ t.start = dst.start /\ t.stop = dst.stop
      /\ TimesRight(t, log', client)
  <2>1. dst \in Time /\ IF client = "object" THEN Untimed(dst) ELSE 2 * f <= dst.start /\ dst.stop <= 2 * f + 2
    <3> DEFINE d == Times(f)
               h == FirstHalf(d)
    <3>1. /\ d \in Time /\ h \in Time
          /\ client = "object" => Untimed(d) /\ Untimed(h)
          /\ client # "object" => d.start = 2 * f /\ d.stop = 2 * f + 2 /\ 2 * f <= h.start /\ h.stop <= 2 * f + 2
      BY TimesOf
    <3>2. dst = d \/ dst = h
      OBVIOUS
    <3> HIDE DEF d, h, dst
    <3> QED BY <3>1, <3>2
  <2> HIDE DEF dst
  <2>2. t \in SampleType /\ t.frame = f /\ t.start = dst.start /\ t.stop = dst.stop
    BY <2>1, Sampled
  <2> HIDE DEF t
  <2> QED BY <1>3, <2>1, <2>2 DEF TimesRight, Untimed
<1>5. ASSUME both
      PROVE  /\ u \in SampleType /\ u.frame = f /\ TimesRight(u, log', client) /\ t.stop <= u.start
  <2> DEFINE h == FirstHalf(Times(f))
             r == SecondHalf(h, Times(f).stop)
  <2>1. /\ r \in Time /\ h \in Time
        /\ IF client = "object" THEN Untimed(r) /\ Untimed(h)
           ELSE 2 * f <= r.start /\ r.stop <= 2 * f + 2 /\ h.stop <= r.start
    BY TimesOf
  <2>2. u = Sample(f, r) /\ dst = h
    BY <1>5
  <2> HIDE DEF h, r, u, dst, t
  <2>3. u \in SampleType /\ u.frame = f /\ u.start = r.start /\ u.stop = r.stop
    BY <2>1, <2>2, Sampled
  <2> QED BY <1>3, <1>4, <2>1, <2>2, <2>3 DEF TimesRight, Untimed, NoTime
<1> HIDE DEF t, u, both
<1>6. IF both THEN sent' = Append(Append(sent, t), u) ELSE sent' = Append(sent, t)
  BY <1>2, <1>4, <1>5, Joined
<1> QED BY <1>4, <1>5, <1>6, Zenon DEF Shows

\* What Yadif sends: the first frame of a history itself, with the third the
\* second, and with the double rate from the second on the new one too.
YadifSends(f, kept, method) ==
  LET h == History(kept, f)
  IN  /\ Len(h) = 1 => \E t \in SampleType : Shows(t, f, log', client) /\ sent' = Append(sent, t)
      /\ Len(h) = 2 =>
           \/ sent' = sent
           \/ /\ method = "YADIF_BOB"
              /\ \E t \in SampleType : Shows(t, f, log', client) /\ sent' = Append(sent, t)
      /\ Len(h) = 3 =>
           /\ Len(kept) >= 2
           /\ \E t \in SampleType :
                /\ Shows(t, kept[Len(kept)], log', client)
                /\ \/ sent' = Append(sent, t)
                   \/ /\ method = "YADIF_BOB"
                      /\ \E u \in SampleType :
                           Shows(u, f, log', client) /\ sent' = Append(Append(sent, t), u)

LEMMA YadifOK ==
  ASSUME NEW P, \A n \in P : n \in Nat, NEW f \in P, NEW kept, Kept(kept, P), NEW method \in Yadifs,
         GetFrame(method, kept, f).status = "FRAME_OK"
  PROVE  Len(kept) >= 2 /\ GetFrame(method, kept, f).frame = kept[Len(kept)]
<1> DEFINE g == GetFrame(method, kept, f)
           h == History(kept, f)
<1>1. /\ h[Len(h)] = f /\ Kept(h, P)
      /\ \/ Len(h) = 1 /\ g.status = "FRAME_SKIP"
         \/ Len(h) = 2 /\ g.status = "FRAME_PENDING"
         \/ /\ Len(h) = 3 /\ g.status = "FRAME_OK"
            /\ Len(kept) >= 2 /\ g.frame = kept[Len(kept)]
  BY YadifGot
<1> QED BY <1>1

LEMMA YadifSent ==
  ASSUME NEW P, \A n \in P : n \in Nat, NEW f \in P, NEW frames, NEW method \in Yadifs,
         Kept(frames[method], P), \A i \in 1 .. Len(frames[method]) : log'[frames[method][i]].method = method,
         log'[f].method = method, NEW one, Output(f, method, frames, FALSE, one), sent \in Seq(SampleType)
  PROVE  /\ YadifSends(f, frames[method], method)
         /\ Len(History(frames[method], f)) \in {1, 2, 3}
<1> DEFINE kept == frames[method]
           h == History(kept, f)
           got == GetFrame(method, kept, f)
           again == GetFrame(method, h, f)
           double == method \in Doubles
           shown == got.status # "FRAME_PENDING"
           written == IF got.status = "FRAME_OK" THEN got.frame ELSE f
           dst == IF shown /\ double THEN FirstHalf(Times(written)) ELSE Times(written)
           rtStop == IF shown THEN Times(written).stop ELSE NoTime
           late == SecondHalf(Times(again.frame), rtStop)
           t == Sample(written, dst)
           u == Sample(again.frame, late)
           last == kept[Len(kept)]
           both == double /\ ~one
           first == IF shown THEN <<t>> ELSE <<>>
           second == IF again.status = "FRAME_OK" THEN <<u>> ELSE <<>>
<1>1. got.kept = h
  BY DEF GetFrame
<1>2. sent' = sent \o (first \o (IF both THEN second ELSE <<>>))
  BY <1>1 DEF Output, Deliver
<1>3. /\ h[Len(h)] = f /\ Kept(h, P)
      /\ \/ Len(h) = 1 /\ got.status = "FRAME_SKIP"
         \/ Len(h) = 2 /\ got.status = "FRAME_PENDING"
         \/ Len(h) = 3 /\ got.status = "FRAME_OK" /\ Len(kept) >= 2 /\ got.frame = last
  BY YadifGot
<1>4. again.status = "FRAME_OK" => Len(h) >= 2 /\ again.frame = f
  <2> HIDE DEF h
  <2>1. again.status = "FRAME_OK" => Len(h) >= 2 /\ again.frame = h[Len(h)]
    BY <1>3, YadifOK
  <2> HIDE DEF again
  <2> QED BY <1>3, <2>1
<1>5. Len(kept) >= 2 => last \in P /\ last \in Nat /\ log'[last].method = method
  <2>1. kept \in Seq(Nat) /\ Len(kept) \in Nat
    BY DEF Kept
  <2> HIDE DEF kept
  <2>2. Len(kept) >= 2 => Len(kept) \in 1 .. Len(kept)
    BY <2>1
  <2> QED BY <2>2 DEF Kept, kept
<1>6. both <=> method = "YADIF_BOB" /\ ~one
  BY DEF Doubles, Yadifs
<1>7. ASSUME NEW n \in Nat, NEW s, NEW times \in Time, s = Sample(n, times), log'[n].method = method,
             client = "object" => Untimed(times),
             client # "object" /\ method # "YADIF_BOB" => 2 * n <= times.start /\ times.stop <= 2 * n + 2
      PROVE  Shows(s, n, log', client)
  <2>1. s \in SampleType /\ s.frame = n /\ s.start = times.start /\ s.stop = times.stop
    BY <1>7, Sampled
  <2> QED BY <1>7, <2>1 DEF Shows, TimesRight, Untimed
<1>8. ASSUME shown, written \in Nat, log'[written].method = method
      PROVE  Shows(t, written, log', client)
  <2> DEFINE d == Times(written)
             e == FirstHalf(d)
  <2>1. /\ d \in Time /\ e \in Time
        /\ client = "object" => Untimed(d) /\ Untimed(e)
        /\ client # "object" => 2 * written <= d.start /\ d.stop <= 2 * written + 2
    <3> HIDE DEF written
    <3>1. /\ d \in Time /\ e \in Time
          /\ client = "object" => Untimed(d) /\ Untimed(e)
          /\ client # "object" => d.start = 2 * written /\ d.stop = 2 * written + 2
      BY <1>8, TimesOf
    <3> HIDE DEF d, e
    <3> QED BY <1>8, <3>1
  <2>2. dst = IF method = "YADIF_BOB" THEN e ELSE d
    BY <1>8 DEF Doubles, Yadifs
  <2> HIDE DEF d, e, written, dst
  <2>3. /\ dst \in Time /\ (client = "object" => Untimed(dst))
        /\ client # "object" /\ method # "YADIF_BOB" => 2 * written <= dst.start /\ dst.stop <= 2 * written + 2
    BY <2>1, <2>2, Zenon
  <2> QED BY <1>7, <1>8, <2>3, Zenon
<1>9. ASSUME again.status = "FRAME_OK", method = "YADIF_BOB", written \in Nat
      PROVE  Shows(u, f, log', client)
  <2>1. again.frame = f /\ f \in Nat
    BY <1>4, <1>9
  <2>2. /\ SecondHalf(Times(f), Times(written).stop) \in Time /\ SecondHalf(Times(f), NoTime) \in Time
        /\ client = "object" =>
             Untimed(SecondHalf(Times(f), Times(written).stop)) /\ Untimed(SecondHalf(Times(f), NoTime))
    <3> HIDE DEF written
    <3> QED BY <1>9, <2>1, TimesOf
  <2> HIDE DEF again, written
  <2>3. late \in Time /\ (client = "object" => Untimed(late)) /\ u = Sample(f, late)
    BY <2>1, <2>2
  <2> HIDE DEF late, u
  <2> QED BY <1>7, <1>9, <2>1, <2>3
<1>10. f \in Nat
  OBVIOUS
<1> HIDE DEF t, u, h, both, last, got, again
<1>11. CASE Len(h) = 1 /\ got.status = "FRAME_SKIP"
  <2>1. written = f /\ shown /\ again.status # "FRAME_OK"
    BY <1>4, <1>11
  <2>2. Shows(t, f, log', client)
    BY <1>8, <1>10, <2>1
  <2>3. sent' = Append(sent, t)
    <3>1. sent' = sent \o (<<t>> \o <<>>)
      BY <1>2, <2>1
    <3> QED BY <2>2, <3>1, Joined DEF Shows
  <2> QED BY <1>11, <2>2, <2>3 DEF YadifSends, h, Shows
<1>12. CASE Len(h) = 2 /\ got.status = "FRAME_PENDING"
  <2>1. written = f /\ ~shown
    BY <1>12
  <2>2. CASE both /\ again.status = "FRAME_OK"
    <3>1. Shows(u, f, log', client) /\ method = "YADIF_BOB"
      BY <1>6, <1>9, <1>10, <2>1, <2>2
    <3>2. sent' = Append(sent, u)
      <4>1. sent' = sent \o (<<>> \o <<u>>)
        BY <1>2, <2>1, <2>2
      <4> QED BY <3>1, <4>1, Joined DEF Shows
    <3> QED BY <1>12, <3>1, <3>2 DEF YadifSends, h, Shows
  <2>3. CASE ~(both /\ again.status = "FRAME_OK")
    <3>1. sent' = sent \o (<<>> \o <<>>)
      BY <1>2, <2>1, <2>3
    <3>2. sent' = sent
      BY <3>1, Joined
    <3> QED BY <1>12, <3>2 DEF YadifSends, h
  <2> QED BY <2>2, <2>3
<1>13. CASE Len(h) = 3 /\ got.status = "FRAME_OK" /\ Len(kept) >= 2 /\ got.frame = last
  <2>1. written = last /\ shown
    BY <1>13
  <2>2. Shows(t, last, log', client)
    BY <1>5, <1>8, <1>13, <2>1
  <2>3. CASE both /\ again.status = "FRAME_OK"
    <3>1. Shows(u, f, log', client) /\ method = "YADIF_BOB"
      BY <1>5, <1>6, <1>9, <1>13, <2>1, <2>3
    <3>2. sent' = Append(Append(sent, t), u)
      <4>1. sent' = sent \o (<<t>> \o <<u>>)
        BY <1>2, <2>1, <2>3
      <4> QED BY <2>2, <3>1, <4>1, Joined DEF Shows
    <3> QED BY <1>13, <2>2, <3>1, <3>2 DEF YadifSends, h, last, Shows
  <2>4. CASE ~(both /\ again.status = "FRAME_OK")
    <3>1. sent' = sent \o (<<t>> \o <<>>)
      BY <1>2, <2>1, <2>4
    <3>2. sent' = Append(sent, t)
      BY <2>2, <3>1, Joined DEF Shows
    <3> QED BY <1>13, <2>2, <3>2 DEF YadifSends, h, last, Shows
  <2> QED BY <2>3, <2>4
<1> QED BY <1>3, <1>11, <1>12, <1>13 DEF h

LEMMA DeliveredFrames ==
  ASSUME NEW s, NEW P, NEW l, NEW c, Delivered(s, P, l, c)
  PROVE  /\ FramesOf(s) \subseteq P
         /\ s # <<>> => s[Len(s)] \in SampleType /\ s[Len(s)].frame \in FramesOf(s) /\ TimesRight(s[Len(s)], l, c)
         /\ \A Q : P \subseteq Q => Delivered(s, Q, l, c)
<1>1. s \in Seq(SampleType) /\ \A i \in 1 .. Len(s) : s[i].frame \in P /\ TimesRight(s[i], l, c)
  BY DEF Delivered
<1> HIDE DEF SampleType
<1>2. DOMAIN s = 1 .. Len(s) /\ (s # <<>> => Len(s) \in DOMAIN s /\ s[Len(s)] \in SampleType)
  BY <1>1
<1>3. FramesOf(s) \subseteq P
  BY <1>1, <1>2 DEF FramesOf
<1>4. \A Q : P \subseteq Q => Delivered(s, Q, l, c)
  BY Zenon DEF Delivered
<1> QED BY <1>1, <1>2, <1>3, <1>4 DEF FramesOf

\* A sample may follow those of earlier frames, and one of the same frame for Yadif's second.
LEMMA OneSent ==
  ASSUME NEW s, NEW P, NEW l, NEW c, Delivered(s, P, l, c),
         \A k \in P : k \in Nat, NEW n \in Nat, NEW t, Shows(t, n, l, c),
         NEW r, r = Append(s, t)
  PROVE  /\ Delivered(r, P \cup {n}, l, c) /\ Adds(r, s, t, n)
         /\ Forward(s, l) /\ (\A k \in FramesOf(s) : k < n \/ (k = n /\ l[n].method = "YADIF_BOB"))
              => Forward(r, l)
<1>1. t.frame = n /\ TimesRight(t, l, c) /\ t \in SampleType
  BY DEF Shows
<1>2. ASSUME s # <<>>, \A k \in FramesOf(s) : k < n \/ (k = n /\ l[n].method = "YADIF_BOB")
      PROVE  Fits(s[Len(s)], t, l)
  <2> DEFINE a == s[Len(s)]
  <2>1. a.frame \in FramesOf(s) /\ TimesRight(a, l, c) /\ FramesOf(s) \subseteq P /\ a \in SampleType
    BY <1>2, DeliveredFrames
  <2> HIDE DEF a
  <2>2. a.frame \in Nat /\ a.stop \in Int /\ t.start \in Int
    BY <1>1, <2>1 DEF SampleType
  <2>3. a.frame < n \/ (a.frame = n /\ l[n].method = "YADIF_BOB")
    BY <1>2, <2>1
  <2>4. CASE a.frame < n
    <3>1. c = "object" => a.stop = NoTime /\ t.start = NoTime
      BY <1>1, <2>1 DEF TimesRight
    <3>2. c # "object" /\ "YADIF_BOB" \notin {l[a.frame].method, l[n].method} =>
            a.stop <= 2 * a.frame + 2 /\ 2 * n <= t.start
      BY <1>1, <2>1 DEF TimesRight
    <3>3. "YADIF_BOB" \notin {l[a.frame].method, l[n].method} => a.stop <= t.start
      <4>1. CASE c = "object"
        BY <3>1, <4>1 DEF NoTime
      <4>2. CASE c # "object"
        BY <2>2, <2>4, <3>2, <4>2
      <4> QED BY <4>1, <4>2
    <3>4. a.frame <= t.frame /\ t.frame = n
      BY <1>1, <2>2, <2>4
    <3> QED BY <3>3, <3>4 DEF Fits, a
  <2>5. CASE a.frame = n /\ l[n].method = "YADIF_BOB"
    <3>1. a.frame <= t.frame /\ l[a.frame].method = "YADIF_BOB"
      BY <1>1, <2>2, <2>5
    <3> QED BY <3>1 DEF Fits, a
  <2> QED BY <2>3, <2>4, <2>5 DEF a
<1>3. /\ Delivered(r, P \cup {n}, l, c) /\ Adds(r, s, t, n)
      /\ Forward(s, l) /\ (s # <<>> => Fits(s[Len(s)], t, l)) => Forward(r, l)
  BY OneMore, Zenon
<1> QED BY <1>2, <1>3

\* Yadif was given the last frame, and its second frame still has to be sent.
Ready(kept, method, P, S) ==
  /\ kept # <<>> => \A n \in P : n <= kept[Len(kept)]
  /\ method = "YADIF" /\ Len(kept) >= 2 => kept[Len(kept)] \notin S

\* T are the frames sent when frame f was given to a deinterlacer, S those before.
SentFor(f, kept, method, waits, S, T) ==
  LET h == History(kept, f)
      last == kept[Len(kept)]
  IN  /\ S \subseteq T
      /\ waits => T = S
      /\ \A n \in T \ S : n = f \/ (method \in Yadifs /\ kept # <<>> /\ n = last)
      /\ ~waits /\ (method \notin Yadifs \/ Len(h) = 1) => f \in T
      /\ ~waits /\ method \in Yadifs /\ Len(h) = 3 => Len(kept) >= 2 /\ last \in T
      /\ method = "YADIF" /\ Len(h) >= 2 => f \notin T

LEMMA PlainSamples ==
  ASSUME NEW P, NEW f \in Nat, \A n \in P : n \in Nat /\ n < f, Delivered(sent, P, log', client),
         NEW method, method \notin Yadifs, log'[f].method = method, NEW frames, NEW one,
         Output(f, method, frames, FALSE, one)
  PROVE  /\ Delivered(sent', P \cup {f}, log', client)
         /\ Forward(sent, log') => Forward(sent', log')
         /\ FramesOf(sent') = FramesOf(sent) \cup {f}
<1> DEFINE Q == P \cup {f}
<1>1. sent \in Seq(SampleType) /\ FramesOf(sent) \subseteq P /\ \A n \in Q : n \in Nat
  BY DeliveredFrames DEF Delivered
<1>2. PICK t \in SampleType :
           /\ Shows(t, f, log', client)
           /\ \/ sent' = Append(sent, t)
              \/ \E u \in SampleType :
                   /\ Shows(u, f, log', client) /\ t.stop <= u.start
                   /\ sent' = Append(Append(sent, t), u)
  BY <1>1, PlainSent, Zenon
<1> DEFINE r == Append(sent, t)
<1>3. /\ Delivered(r, Q, log', client) /\ FramesOf(r) = FramesOf(sent) \cup {f}
      /\ r # <<>> /\ r[Len(r)] = t
      /\ Forward(sent, log') => Forward(r, log')
  <2>1. \A k \in FramesOf(sent) : k < f
    BY <1>1
  <2>2. \A k \in P : k \in Nat
    OBVIOUS
  <2>3. t \in SampleType /\ Shows(t, f, log', client) /\ f \in Nat /\ r = Append(sent, t)
    BY <1>2
  <2> HIDE DEF Q, r
  <2>4. Delivered(r, Q, log', client) /\ Adds(r, sent, t, f)
    BY <2>2, <2>3, OneSent, Zenon DEF Q
  <2>5. ASSUME Forward(sent, log')
        PROVE  Forward(r, log')
    BY <2>1, <2>2, <2>3, <2>5, OneSent, Zenon
  <2> QED BY <2>4, <2>5 DEF Adds
<1> HIDE DEF r
<1>4. CASE sent' = r
  BY <1>3, <1>4, Zenon
<1>5. CASE \E u \in SampleType :
             Shows(u, f, log', client) /\ t.stop <= u.start /\ sent' = Append(r, u)
  <2>1. PICK u \in SampleType :
             Shows(u, f, log', client) /\ t.stop <= u.start /\ sent' = Append(r, u)
    BY <1>5
  <2> DEFINE w == Append(r, u)
  <2>2. t.frame = f /\ u.frame = f /\ f \in Q /\ Shows(u, f, log', client)
    BY <1>2, <2>1 DEF Shows
  <2>3. Fits(r[Len(r)], u, log')
    BY <1>3, <2>1, <2>2 DEF Fits
  <2>4. Q \cup {f} = Q /\ w = Append(r, u)
    OBVIOUS
  <2> HIDE DEF Q, w
  <2>5. /\ Delivered(w, Q \cup {f}, log', client) /\ Adds(w, r, u, f)
        /\ Forward(r, log') => Forward(w, log')
    BY <1>3, <2>1, <2>2, <2>3, <2>4, OneMore, Zenon
  <2>6. sent' = w
    BY <2>1 DEF w
  <2>7. FramesOf(w) = FramesOf(sent) \cup {f}
    BY <1>3, <2>2, <2>5 DEF Adds
  <2> QED BY <1>3, <2>4, <2>5, <2>6, <2>7, Zenon DEF Q
<1> QED BY <1>2, <1>4, <1>5, Zenon DEF r

LEMMA YadifSamples ==
  ASSUME NEW P, NEW f \in Nat, \A n \in P : n \in Nat /\ n < f, Delivered(sent, P, log', client),
         NEW frames, NEW method \in Yadifs, Kept(frames[method], P),
         \A i \in 1 .. Len(frames[method]) : log'[frames[method][i]].method = method,
         log'[f].method = method, NEW one, Output(f, method, frames, FALSE, one)
  PROVE  /\ Delivered(sent', P \cup {f}, log', client)
         /\ Forward(sent, log') /\ Ready(frames[method], method, P, FramesOf(sent)) => Forward(sent', log')
         /\ SentFor(f, frames[method], method, FALSE, FramesOf(sent), FramesOf(sent'))
<1> DEFINE kept == frames[method]
           h == History(kept, f)
           last == kept[Len(kept)]
           Q == P \cup {f}
           S == FramesOf(sent)
           T == FramesOf(sent')
<1>1. sent \in Seq(SampleType) /\ S \subseteq P /\ Delivered(sent, Q, log', client)
  BY DeliveredFrames DEF Delivered
<1>2. /\ f \in Q /\ Kept(kept, Q)
      /\ \A n \in Q : n \in Nat
      /\ \A n \in P : n \in Nat
  BY DEF Kept
<1>3. YadifSends(f, kept, method) /\ Len(h) \in {1, 2, 3}
  <2> HIDE DEF Q
  <2>1. /\ \A n \in Q : n \in Nat
        /\ f \in Q /\ Kept(frames[method], Q) /\ sent \in Seq(SampleType)
    BY <1>1, <1>2, Zenon
  <2> QED BY <2>1, YadifSent
<1>4. \A k \in S : k \in Nat /\ k < f
  BY <1>1
<1>5. Len(kept) >= 2 => last \in P /\ kept # <<>>
  <2>1. kept \in Seq(Nat) /\ Len(kept) \in Nat
    BY DEF Kept
  <2> HIDE DEF kept
  <2>2. Len(kept) >= 2 => Len(kept) \in 1 .. Len(kept) /\ kept # <<>>
    BY <2>1
  <2> QED BY <2>2 DEF Kept, kept
\* The new frame as the next sample.
<1>6. ASSUME NEW r, NEW R, Delivered(r, R, log', client), R \subseteq Q, FramesOf(r) \subseteq P,
             NEW t, Shows(t, f, log', client), NEW w, w = Append(r, t)
      PROVE  /\ Delivered(w, Q, log', client) /\ FramesOf(w) = FramesOf(r) \cup {f}
             /\ Forward(r, log') => Forward(w, log')
  <2>1. \A k \in R : k \in Nat
    BY <1>2, <1>6
  <2>2. /\ Delivered(w, R \cup {f}, log', client) /\ Adds(w, r, t, f)
        /\ Forward(r, log') /\ (\A k \in FramesOf(r) : k < f \/ (k = f /\ log'[f].method = "YADIF_BOB"))
             => Forward(w, log')
    BY <1>6, <2>1, OneSent, Zenon
  <2>3. \A k \in FramesOf(r) : k < f
    BY <1>6
  <2>4. R \cup {f} \subseteq Q
    BY <1>6
  <2>5. Delivered(w, Q, log', client)
    BY <2>2, <2>4, DeliveredFrames, Zenon
  <2> QED BY <2>2, <2>3, <2>5 DEF Adds
<1> HIDE DEF h, last, S, T, Q
<1>7. CASE Len(h) = 1
  <2>1. PICK t \in SampleType : Shows(t, f, log', client) /\ sent' = Append(sent, t)
    BY <1>3, <1>7 DEF YadifSends, h
  <2>2. P \subseteq Q
    BY DEF Q
  <2>3. /\ Delivered(sent', Q, log', client) /\ T = S \cup {f}
        /\ Forward(sent, log') => Forward(sent', log')
    BY <1>1, <1>6, <2>1, <2>2, Zenon DEF S, T
  <2>4. SentFor(f, kept, method, FALSE, S, T)
    BY <1>7, <2>3 DEF SentFor, h
  <2> QED BY <2>3, <2>4 DEF S, T, Q
<1>8. CASE Len(h) = 2
  <2>1. CASE sent' = sent
    <3>1. T = S /\ f \notin S
      BY <1>4, <2>1 DEF S, T
    <3>2. SentFor(f, kept, method, FALSE, S, T)
      BY <1>8, <3>1 DEF SentFor, h
    <3>3. Delivered(sent', Q, log', client) /\ (Forward(sent, log') => Forward(sent', log'))
      BY <1>1, <2>1
    <3> QED BY <3>2, <3>3 DEF S, T, Q
  <2>2. CASE /\ method = "YADIF_BOB"
             /\ \E t \in SampleType : Shows(t, f, log', client) /\ sent' = Append(sent, t)
    <3>1. PICK t \in SampleType : Shows(t, f, log', client) /\ sent' = Append(sent, t)
      BY <2>2
    <3>2. P \subseteq Q
      BY DEF Q
    <3>3. /\ Delivered(sent', Q, log', client) /\ T = S \cup {f}
          /\ Forward(sent, log') => Forward(sent', log')
      BY <1>1, <1>6, <3>1, <3>2, Zenon DEF S, T
    <3>4. SentFor(f, kept, method, FALSE, S, T)
      BY <1>8, <2>2, <3>3 DEF SentFor, h
    <3> QED BY <3>3, <3>4 DEF S, T, Q
  <2> QED BY <1>3, <1>8, <2>1, <2>2 DEF YadifSends, h
<1>9. CASE Len(h) = 3
  <2>1. Len(kept) >= 2 /\ last \in P /\ last \in Nat /\ last < f /\ kept # <<>>
    BY <1>3, <1>5, <1>9 DEF YadifSends, h
  <2>2. PICK t \in SampleType :
             /\ Shows(t, last, log', client)
             /\ \/ sent' = Append(sent, t)
                \/ /\ method = "YADIF_BOB"
                   /\ \E u \in SampleType : Shows(u, f, log', client) /\ sent' = Append(Append(sent, t), u)
    BY <1>3, <1>9 DEF YadifSends, h, last
  <2> DEFINE r == Append(sent, t)
  <2>3. r = Append(sent, t)
    OBVIOUS
  <2> HIDE DEF r
  <2>4. /\ Delivered(r, P \cup {last}, log', client) /\ Adds(r, sent, t, last)
        /\ Forward(sent, log') /\ (\A k \in FramesOf(sent) : k < last \/ (k = last /\ log'[last].method = "YADIF_BOB"))
             => Forward(r, log')
    BY <1>2, <2>1, <2>2, <2>3, OneSent, Zenon
  <2>5. P \cup {last} = P /\ FramesOf(r) = S \cup {last} /\ FramesOf(r) \subseteq P
    BY <1>1, <2>1, <2>4 DEF Adds, S
  <2>6. ASSUME Ready(kept, method, P, S)
        PROVE  \A k \in FramesOf(sent) : k < last \/ (k = last /\ log'[last].method = "YADIF_BOB")
    <3> TAKE k \in FramesOf(sent)
    <3>1. k \in S /\ k \in P /\ k \in Nat
      BY <1>1, <1>2 DEF S
    <3>2. k <= last /\ (method = "YADIF" => last \notin S)
      BY <2>1, <2>6, <3>1 DEF Ready, last
    <3>3. log'[last].method = method
      <4>1. Len(kept) \in 1 .. Len(kept)
        <5>1. Len(kept) \in Nat
          BY DEF Kept
        <5> HIDE DEF kept
        <5> QED BY <2>1, <5>1
      <4> QED BY <4>1 DEF last
    <3>4. k < last \/ k = last
      BY <2>1, <3>1, <3>2
    <3>5. k = last => method = "YADIF_BOB"
      BY <3>1, <3>2 DEF Yadifs
    <3> QED BY <3>3, <3>4, <3>5
  <2>7. Forward(sent, log') /\ Ready(kept, method, P, S) => Forward(r, log')
    BY <2>4, <2>6, Zenon
  <2>8. P \subseteq Q /\ f \notin S /\ f # last
    BY <1>4, <2>1 DEF Q
  <2>9. Delivered(r, P, log', client)
    BY <2>4, <2>5
  <2>10. CASE sent' = r
    <3>1. Delivered(sent', Q, log', client)
      BY <2>8, <2>9, <2>10, DeliveredFrames, Zenon
    <3>2. T = S \cup {last}
      BY <2>5, <2>10 DEF T
    <3>3. SentFor(f, kept, method, FALSE, S, T)
      BY <1>9, <2>1, <2>8, <3>2 DEF SentFor, h, last
    <3> QED BY <2>7, <2>10, <3>1, <3>3 DEF S, T, Q
  <2>11. CASE /\ method = "YADIF_BOB"
              /\ \E u \in SampleType : Shows(u, f, log', client) /\ sent' = Append(r, u)
    <3>1. PICK u \in SampleType : Shows(u, f, log', client) /\ sent' = Append(r, u)
      BY <2>11
    <3>2. /\ Delivered(sent', Q, log', client) /\ T = FramesOf(r) \cup {f}
          /\ Forward(r, log') => Forward(sent', log')
      BY <1>6, <2>5, <2>8, <2>9, <3>1, Zenon DEF T
    <3>3. SentFor(f, kept, method, FALSE, S, T)
      BY <1>9, <2>1, <2>5, <2>11, <3>2 DEF SentFor, h, last
    <3> QED BY <2>7, <3>2, <3>3 DEF S, T, Q
  <2> QED BY <2>2, <2>3, <2>10, <2>11
<1> QED BY <1>3, <1>7, <1>8, <1>9

LEMMA SamplesSent ==
  ASSUME NEW P, NEW f \in Nat, \A n \in P : n \in Nat /\ n < f, Delivered(sent, P, log', client),
         NEW frames, \A m \in Yadifs : Kept(frames[m], P),
         \A m \in Yadifs : \A i \in 1 .. Len(frames[m]) : log'[frames[m][i]].method = m,
         NEW method, log'[f].method = method, NEW waits \in BOOLEAN, NEW one,
         Output(f, method, frames, waits, one)
  PROVE  /\ Delivered(sent', P \cup {f}, log', client)
         /\ /\ Forward(sent, log')
            /\ method \in Yadifs => Ready(frames[method], method, P, FramesOf(sent))
            => Forward(sent', log')
         /\ SentFor(f, frames[method], method, waits, FramesOf(sent), FramesOf(sent'))
<1> DEFINE S == FramesOf(sent)
           T == FramesOf(sent')
<1>1. S \subseteq P /\ f \notin S /\ Delivered(sent, P \cup {f}, log', client) /\ sent \in Seq(SampleType)
  <2>1. S \subseteq P /\ \A Q : P \subseteq Q => Delivered(sent, Q, log', client)
    BY DeliveredFrames
  <2>2. P \subseteq P \cup {f}
    OBVIOUS
  <2>3. S \subseteq P /\ f \notin S
    BY <2>1
  <2> QED BY <2>1, <2>2, <2>3, Zenon DEF Delivered
<1>2. CASE waits
  <2>1. Deliver(waits, <<>>) = <<>> /\ \A x : Deliver(waits, x) = <<>>
    BY <1>2 DEF Deliver
  <2>2. \E x : sent' = sent \o Deliver(waits, x)
    BY Zenon DEF Output
  <2>3. sent' = sent
    BY <1>1, <2>1, <2>2, Joined
  <2>4. SentFor(f, frames[method], method, waits, S, T)
    BY <1>1, <1>2, <2>3 DEF SentFor
  <2> QED BY <1>1, <2>3, <2>4
<1>3. CASE ~waits
  <2>1. Output(f, method, frames, FALSE, one) /\ waits = FALSE
    <3>1. waits = FALSE
      BY <1>3
    <3> QED BY <3>1, Zenon
  <2>2. CASE method \notin Yadifs
    <3>1. /\ Delivered(sent', P \cup {f}, log', client)
          /\ Forward(sent, log') => Forward(sent', log')
          /\ T = S \cup {f}
      BY <2>1, <2>2, PlainSamples
    <3>2. SentFor(f, frames[method], method, waits, S, T)
      BY <1>3, <2>2, <3>1 DEF SentFor, Yadifs
    <3> QED BY <3>1, <3>2
  <2>3. CASE method \in Yadifs
    <3>1. Kept(frames[method], P) /\ \A i \in 1 .. Len(frames[method]) : log'[frames[method][i]].method = method
      BY <2>3
    <3>2. /\ Delivered(sent', P \cup {f}, log', client)
          /\ Forward(sent, log') /\ Ready(frames[method], method, P, S) => Forward(sent', log')
          /\ SentFor(f, frames[method], method, FALSE, S, T)
      BY <2>1, <2>3, <3>1, YadifSamples, Zenon
    <3>3. SentFor(f, frames[method], method, waits, S, T)
      BY <2>1, <3>2, Zenon
    <3> QED BY <2>3, <3>2, <3>3
  <2> QED BY <2>2, <2>3
<1> QED BY <1>2, <1>3

-----------------------------------------------------------------------------
(* The invariant of what is sent *)

SentInv ==
  /\ Delivered(sent, Past, log, client)
  /\ ~stale => Forward(sent, log)

\* Yadif keeps frames of its own method.
OwnFrames(frames, l) == \A m \in Yadifs : \A i \in 1 .. Len(frames[m]) : l[frames[m][i]].method = m

\* The last frame of the session had the method that is set.
MethodInv ==
  /\ OwnFrames(m_Frames, log)
  /\ InSession(Len(log)) => log[Len(log)].method = Deinterlace

SessionInv ==
  /\ \A j \in 1 .. Len(log) : \A i \in 1 .. j : log[i].session <= log[j].session
  /\ \A i \in 1 .. Len(log) : log[i].session <= session

\* Only the software decoder gives a deinterlacer a frame before the key
\* frame.  S are the frames shown, P those given; w: a key frame is waited for.
KeyAt(S, P, queue, l, s, c, w) ==
  /\ \A n \in 1 .. Len(l) : l[n].session = s /\ l[n].seen => ~w
  /\ \A n \in S : l[n].session = s => ~w
  /\ c # "software" =>
       /\ \A n \in P : l[n].seen
       /\ \A i \in 1 .. Len(queue) : l[queue[i]].seen
  /\ \A n \in S : l[n].seen
                   \/ /\ c = "software" /\ l[n].method \in Yadifs
                      /\ \A k \in P : k > n /\ l[k].session = l[n].session => l[k].seen
KeyInv ==
  /\ KeyAt(Shown, Past, m_FrameQueue, log, session, client, m_fWaitForKeyFrame)
  /\ client # "d3d11" => ~stale /\ m_FrameQueueSize = 0

Differs(n, f, l) == l[n].method # l[f].method \/ l[n].size # l[f].size

\* No change between f and the frame g that was given next.
SameUntil(f, g, l) == \A n \in f + 1 .. g : ~Differs(n, f, l)

\* Of the frames P that were given, those S were shown, and others for a reason.
OnlyLast(P, l, S) ==
  \A i \in 1 .. Len(P) - 1 :
    LET f == P[i]
        g == P[i + 1]
    IN  f \in S \/ ~l[f].seen \/ l[f].session # l[g].session \/ ~SameUntil(f, g, l)

\* The frame that is given next, if it is displayed already.
Upcoming(queue, l) == IF queue = <<>> THEN Len(l) ELSE queue[1]

\* The last frame given was shown, or will be with the next, or something has
\* changed before the next.
Withheld(frames, queue, P, l, s, S) ==
  P # <<>> =>
    LET f == P[Len(P)]
        kept == frames[l[f].method]
    IN  \/ f \in S
        \/ ~l[f].seen
        \/ l[f].session # s
        \/ l[f].method \in Yadifs /\ Len(kept) >= 2 /\ kept[Len(kept)] = f
        \/ ~SameUntil(f, Upcoming(queue, l), l)

\* Of two frames or three that Yadif keeps the last was not shown.
Unshown(frames, queue, D, l, S) ==
  LET kept == frames["YADIF"]
  IN  Len(kept) >= 2 /\ (\E i \in Waiting(queue) : Due(i, queue, D, l) = "YADIF") =>
        kept[Len(kept)] \notin S

Withholds(frames, queue, D, P, l, s, S) ==
  OnlyLast(P, l, S) /\ Withheld(frames, queue, P, l, s, S) /\ Unshown(frames, queue, D, l, S)
WithheldInv == ~stale => Withholds(m_Frames, m_FrameQueue, Deinterlace, passed, log, session, Shown)

DeliveryInv == SentInv /\ MethodInv /\ SessionInv /\ KeyInv /\ WithheldInv

\* What was given and what waits does not change when a frame is recorded.
LEMMA Unaltered ==
  ASSUME OrderInv, log \in Seq(Entry), NEW e \in Entry, log' = Append(log, e)
  PROVE  /\ Len(log) \in Nat /\ Len(log') = Len(log) + 1 /\ log'[Len(log) + 1] = e
         /\ \A n \in 1 .. Len(log) : n \in Nat /\ log'[n] = log[n]
         /\ \A n \in Past : n \in 1 .. Len(log) /\ n \in Nat /\ log'[n] = log[n]
         /\ passed \in Seq(Nat) /\ Len(passed) \in Nat /\ (passed # <<>> => Len(passed) \in 1 .. Len(passed))
         /\ \A i \in 1 .. Len(passed) : passed[i] \in Past
         /\ m_FrameQueue \in Seq(Nat) /\ Len(m_FrameQueue) \in Nat
         /\ \A i \in 1 .. Len(m_FrameQueue) : m_FrameQueue[i] \in 1 .. Len(log) /\ m_FrameQueue[i] \in Nat
<1>1. /\ Len(log) \in Nat /\ Len(log') = Len(log) + 1 /\ log'[Len(log) + 1] = e
      /\ \A n \in 1 .. Len(log) : log'[n] = log[n]
  BY SameLog
<1>2. passed \in Seq(Nat) /\ (\A n \in Past : n \in 1 .. Len(log))
      /\ m_FrameQueue \in Seq(Nat) /\ \A i \in 1 .. Len(m_FrameQueue) : m_FrameQueue[i] \in 1 .. Len(log)
  BY DEF OrderInv, Ordered
<1>3. \A i \in 1 .. Len(passed) : passed[i] \in Past
  BY <1>2 DEF Past, ToSet
<1>4. Len(passed) \in Nat /\ Len(m_FrameQueue) \in Nat /\ (passed # <<>> => Len(passed) \in 1 .. Len(passed))
  BY <1>2
<1>5. \A n \in 1 .. Len(log) : n \in Nat
  BY <1>1
<1> QED BY <1>1, <1>2, <1>3, <1>4, <1>5

LEMMA SentLater ==
  ASSUME OrderInv, log \in Seq(Entry), NEW e \in Entry, log' = Append(log, e),
         Delivered(sent, Past, log, client)
  PROVE  /\ Delivered(sent, Past, log', client) /\ (Forward(sent, log) => Forward(sent, log'))
<1>1. \A n \in Past : log'[n] = log[n]
  BY Unaltered
<1>2. sent \in Seq(SampleType) /\ \A i \in 1 .. Len(sent) : sent[i].frame \in Past /\ TimesRight(sent[i], log, client)
  BY DEF Delivered
<1>3. \A i \in 1 .. Len(sent) : TimesRight(sent[i], log', client)
  BY <1>1, <1>2 DEF TimesRight
<1>4. \A i \in 1 .. Len(sent) - 1 : i \in 1 .. Len(sent) /\ i + 1 \in 1 .. Len(sent)
  <2> HIDE DEF SampleType
  <2>1. Len(sent) \in Nat
    BY <1>2
  <2> QED BY <2>1
<1>5. ASSUME NEW i \in 1 .. Len(sent) - 1, Fits(sent[i], sent[i + 1], log)
      PROVE  Fits(sent[i], sent[i + 1], log')
  <2>1. log'[sent[i].frame] = log[sent[i].frame] /\ log'[sent[i + 1].frame] = log[sent[i + 1].frame]
    BY <1>1, <1>2, <1>4, Zenon
  <2> QED BY <1>5, <2>1, Zenon DEF Fits
<1> QED BY <1>2, <1>3, <1>5, Zenon DEF Delivered, Forward

LEMMA OwnLater ==
  ASSUME OrderInv, log \in Seq(Entry), NEW e \in Entry, log' = Append(log, e),
         NEW frames, OwnFrames(frames, log), \A m \in Yadifs : Kept(frames[m], Past), NEW D, NEW E
  PROVE  OwnFrames(Restarted(frames, D, E), log')
<1> DEFINE F == Restarted(frames, D, E)
<1>1. \A m \in Yadifs : F[m] = <<>> \/ F[m] = frames[m]
  BY DEF Restarted
<1> HIDE DEF F
<1>2. ASSUME NEW m \in Yadifs, NEW i \in 1 .. Len(F[m])
      PROVE  log'[F[m][i]].method = m
  <2>1. F[m] = frames[m]
    <3>1. \A i1 \in 1 .. Len(<<>>) : FALSE
      OBVIOUS
    <3> QED BY <1>1, <1>2, <3>1
  <2>2. frames[m][i] \in Past
    BY <1>2, <2>1 DEF Kept
  <2>3. log[frames[m][i]].method = m
    BY <1>2, <2>1 DEF OwnFrames
  <2> QED BY <2>1, <2>2, <2>3, Unaltered
<1> QED BY <1>2, Zenon DEF OwnFrames, F

LEMMA SameUntilLater ==
  ASSUME NEW L \in Nat, NEW l, NEW r, \A n \in 1 .. L : r[n] = l[n], NEW f \in 1 .. L, NEW g \in Nat, g <= L
  PROVE  SameUntil(f, g, r) <=> SameUntil(f, g, l)
<1>1. \A n \in f + 1 .. g : n \in 1 .. L
  OBVIOUS
<1>2. \A n \in f + 1 .. g : Differs(n, f, r) <=> Differs(n, f, l)
  BY <1>1, Zenon DEF Differs
<1> QED BY <1>2, Zenon DEF SameUntil

LEMMA OnlyLastLater ==
  ASSUME OrderInv, log \in Seq(Entry), NEW e \in Entry, log' = Append(log, e), NEW S, OnlyLast(passed, log, S)
  PROVE  OnlyLast(passed, log', S)
<1>1. /\ Len(log) \in Nat /\ Len(passed) \in Nat /\ \A n \in 1 .. Len(log) : log'[n] = log[n]
      /\ \A i \in 1 .. Len(passed) : passed[i] \in Past
      /\ \A n \in Past : n \in 1 .. Len(log) /\ n \in Nat /\ log'[n] = log[n]
  BY Unaltered
<1>2. ASSUME NEW i \in 1 .. Len(passed) - 1
      PROVE  LET f == passed[i]
                 g == passed[i + 1]
             IN  f \in S \/ ~log'[f].seen \/ log'[f].session # log'[g].session \/ ~SameUntil(f, g, log')
  <2> DEFINE f == passed[i]
             g == passed[i + 1]
  <2>1. i \in 1 .. Len(passed) /\ i + 1 \in 1 .. Len(passed)
    BY <1>1
  <2>2. f \in Past /\ g \in Past
    BY <1>1, <2>1
  <2>3. f \in S \/ ~log[f].seen \/ log[f].session # log[g].session \/ ~SameUntil(f, g, log)
    BY Zenon DEF OnlyLast
  <2> HIDE DEF f, g
  <2>4. f \in 1 .. Len(log) /\ g \in Nat /\ g <= Len(log)
    BY <1>1, <2>2
  <2>5. SameUntil(f, g, log') <=> SameUntil(f, g, log)
    BY <1>1, <2>4, SameUntilLater, Zenon
  <2>6. log'[f] = log[f] /\ log'[g] = log[g]
    BY <1>1, <2>2
  <2> QED BY <2>3, <2>5, <2>6, Zenon DEF f, g
<1> QED BY <1>2, Zenon DEF OnlyLast

\* What Yadif goes on with when frame e of method E was displayed.
LEMMA RestartedKept ==
  ASSUME NEW frames, NEW D, NEW E, NEW m \in Yadifs
  PROVE  LET F == Restarted(frames, D, E)
         IN  \/ F[m] = <<>> /\ m = E /\ E # D
             \/ F[m] = frames[m] /\ (m = E => E = D)
  BY DEF Restarted

LEMMA UnshownLater ==
  ASSUME OrderInv, log \in Seq(Entry), NEW e \in Entry, log' = Append(log, e),
         NEW E, e.method = E, NEW D, NEW frames, NEW S, Unshown(frames, m_FrameQueue, D, log, S),
         NEW q, q = m_FrameQueue \/ q = Append(m_FrameQueue, Len(log) + 1)
  PROVE  Unshown(Restarted(frames, D, E), q, E, log', S)
<1> DEFINE F == Restarted(frames, D, E)
           queue == m_FrameQueue
           n == Len(queue)
<1>1. DueThen(q, m_FrameQueue, D, E, log, log')
  BY DueDisplayed, Zenon
<1>2. /\ \A i \in Waiting(q) : i \in Nat \ {0} /\ (i <= n => i \in Waiting(queue))
      /\ n + 1 \in Waiting(queue) /\ Due(n + 1, queue, D, log) = D
  BY DueDisplayed, Zenon
<1> SUFFICES ASSUME Len(F["YADIF"]) >= 2, NEW i \in Waiting(q), Due(i, q, E, log') = "YADIF"
             PROVE  F["YADIF"][Len(F["YADIF"])] \notin S
  BY Zenon DEF Unshown
<1>3. F["YADIF"] # <<>>
  BY Len(<<>>) = 0
<1>4. F["YADIF"] = frames["YADIF"] /\ ("YADIF" = E => E = D)
  BY <1>3, RestartedKept DEF Yadifs
<1>5. \E j \in Waiting(queue) : Due(j, queue, D, log) = "YADIF"
  <2>1. Due(i, q, E, log') = IF i <= n THEN Due(i, queue, D, log) ELSE E
    BY <1>1, Zenon DEF DueThen
  <2>2. CASE i <= n
    BY <1>2, <2>1, <2>2
  <2>3. CASE ~(i <= n)
    BY <1>2, <1>4, <2>1, <2>3
  <2> QED BY <2>2, <2>3
<1> HIDE DEF F
<1>6. Len(frames["YADIF"]) >= 2
  BY <1>4
<1>7. frames["YADIF"][Len(frames["YADIF"])] \notin S
  BY <1>5, <1>6, Zenon DEF Unshown
<1> QED BY <1>4, <1>7

\* A frame that is given was displayed after those given before.
LEMMA UpcomingLater ==
  ASSUME OrderInv, log \in Seq(Entry), NEW e \in Entry, log' = Append(log, e),
         NEW q, q = m_FrameQueue \/ q = Append(m_FrameQueue, Len(log) + 1)
  PROVE  /\ Upcoming(m_FrameQueue, log) \in Nat /\ Upcoming(m_FrameQueue, log) <= Len(log)
         /\ Upcoming(q, log') \in Nat /\ Upcoming(m_FrameQueue, log) <= Upcoming(q, log')
         /\ m_FrameQueue = <<>> => Upcoming(q, log') = Len(log) + 1
         /\ m_FrameQueue # <<>> => /\ Upcoming(q, log') = m_FrameQueue[1]
                                   /\ 1 \in 1 .. Len(m_FrameQueue)
<1> DEFINE queue == m_FrameQueue
           L == Len(log)
<1>1. /\ L \in Nat /\ Len(log') = L + 1 /\ queue \in Seq(Nat) /\ Len(queue) \in Nat
      /\ \A i \in 1 .. Len(queue) : queue[i] \in 1 .. L
  BY Unaltered
<1> HIDE DEF L
<1>2. queue # <<>> => 1 \in 1 .. Len(queue) /\ queue[1] \in 1 .. L
  <2>1. queue # <<>> => Len(queue) > 0
    BY <1>1
  <2> QED BY <1>1, <2>1
<1>3. q = queue \/ q = Append(queue, L + 1)
  BY DEF L
<1>4. /\ q # <<>> /\ queue = <<>> => q[1] = L + 1
      /\ queue # <<>> => q # <<>> /\ q[1] = queue[1]
  <2>1. CASE q = queue
    BY <2>1
  <2>2. CASE q = Append(queue, L + 1)
    <3>1. q # <<>> /\ q[Len(queue) + 1] = L + 1 /\ \A i \in 1 .. Len(queue) : q[i] = queue[i]
      BY <1>1, <2>2, AppendElements
    <3>2. queue = <<>> => Len(queue) + 1 = 1
      OBVIOUS
    <3> QED BY <1>2, <3>1, <3>2
  <2> QED BY <1>3, <2>1, <2>2
<1>5. /\ queue = <<>> => Upcoming(queue, log) = L /\ Upcoming(q, log') = L + 1
      /\ queue # <<>> => Upcoming(queue, log) = queue[1] /\ Upcoming(q, log') = queue[1]
  <2>1. Upcoming(queue, log) = IF queue = <<>> THEN L ELSE queue[1]
    BY Zenon DEF Upcoming, L
  <2>2. Upcoming(q, log') = IF q = <<>> THEN L + 1 ELSE q[1]
    BY <1>1, Zenon DEF Upcoming
  <2> HIDE DEF queue
  <2> QED BY <1>4, <2>1, <2>2, Zenon
<1> HIDE DEF queue
<1>6. /\ Upcoming(queue, log) \in Nat /\ Upcoming(queue, log) <= L
      /\ Upcoming(q, log') \in Nat /\ Upcoming(queue, log) <= Upcoming(q, log')
  BY <1>1, <1>2, <1>5
<1> QED BY <1>2, <1>5, <1>6, Zenon DEF L, queue

LEMMA WithheldLater ==
  ASSUME OrderInv, SessionInv, log \in Seq(Entry), NEW e \in Entry, log' = Append(log, e),
         session \in Nat, NEW E, NEW D, InSession(Len(log)) => log[Len(log)].method = D,
         E # D => \A i \in 1 .. Len(m_FrameQueue) : log[m_FrameQueue[i]].method # E,
         NEW frames, NEW S, Withheld(frames, m_FrameQueue, passed, log, session, S),
         NEW q, q = m_FrameQueue \/ q = Append(m_FrameQueue, Len(log) + 1)
  PROVE  Withheld(Restarted(frames, D, E), q, passed, log', session, S)
<1> DEFINE F == Restarted(frames, D, E)
           queue == m_FrameQueue
           L == Len(log)
           f == passed[Len(passed)]
           m == log[f].method
           u == Upcoming(queue, log)
           v == Upcoming(q, log')
<1> SUFFICES ASSUME passed # <<>>
             PROVE  \/ f \in S
                    \/ ~log'[f].seen
                    \/ log'[f].session # session
                    \/ /\ log'[f].method \in Yadifs /\ Len(F[log'[f].method]) >= 2
                       /\ F[log'[f].method][Len(F[log'[f].method])] = f
                    \/ ~SameUntil(f, v, log')
  BY Zenon DEF Withheld
<1>1. /\ L \in Nat /\ f \in Past /\ f \in 1 .. L /\ f \in Nat /\ log'[f] = log[f]
      /\ \A n \in 1 .. L : n \in Nat /\ log'[n] = log[n]
  BY Unaltered
<1>2. /\ u \in Nat /\ u <= L /\ v \in Nat /\ u <= v
      /\ queue = <<>> => v = L + 1
      /\ queue # <<>> => v = queue[1] /\ 1 \in 1 .. Len(queue)
  BY UpcomingLater, Zenon
<1>3. \/ f \in S
      \/ ~log[f].seen
      \/ log[f].session # session
      \/ m \in Yadifs /\ Len(frames[m]) >= 2 /\ frames[m][Len(frames[m])] = f
      \/ ~SameUntil(f, u, log)
  BY Zenon DEF Withheld
<1>4. log[f].session \in Nat /\ log[L].session \in Nat /\ log[f].session <= log[L].session
      /\ log[L].session <= session /\ (L \in DOMAIN log)
  <2>1. L \in 1 .. L /\ f \in 1 .. L
    BY <1>1
  <2>2. log[f] \in Entry /\ log[L] \in Entry /\ L \in DOMAIN log
    BY <2>1
  <2>3. log[f].session <= log[L].session /\ log[L].session <= session
    BY <2>1, Zenon DEF SessionInv
  <2> QED BY <2>2, <2>3 DEF Entry
<1>5. ASSUME m \in Yadifs, Len(frames[m]) >= 2, frames[m][Len(frames[m])] = f, log[f].session = session
      PROVE  \/ F[m] = frames[m]
             \/ ~SameUntil(f, v, log')
  <2>1. CASE m = E /\ E # D
    <3>1. CASE queue = <<>>
      <4>1. log[L].method = D
        BY <1>4, <1>5, session \in Nat DEF InSession
      <4>2. f # L
        BY <2>1, <4>1
      <4>3. L \in f + 1 .. v
        BY <1>1, <1>2, <3>1, <4>2
      <4>4. Differs(L, f, log')
        <5>1. L \in 1 .. L
          BY <1>1
        <5> QED BY <1>1, <2>1, <4>1, <5>1 DEF Differs
      <4> QED BY <4>3, <4>4, Zenon DEF SameUntil
    <3>2. CASE queue # <<>>
      <4>1. queue[1] \in 1 .. L /\ f < queue[1]
        BY <1>1, <1>2, <3>2 DEF OrderInv, Ordered
      <4>2. log[queue[1]].method # E
        BY <1>2, <2>1, <3>2
      <4>3. v \in f + 1 .. v
        BY <1>1, <1>2, <3>2, <4>1
      <4>4. Differs(v, f, log')
        BY <1>1, <1>2, <2>1, <3>2, <4>1, <4>2 DEF Differs
      <4> QED BY <4>3, <4>4, Zenon DEF SameUntil
    <3> QED BY <3>1, <3>2
  <2>2. CASE ~(m = E /\ E # D)
    BY <1>5, <2>2, RestartedKept
  <2> QED BY <2>1, <2>2
<1>6. ASSUME ~SameUntil(f, u, log)
      PROVE  ~SameUntil(f, v, log')
  <2>1. ~SameUntil(f, u, log')
    BY <1>1, <1>2, <1>6, SameUntilLater
  <2>2. \A n \in f + 1 .. u : n \in f + 1 .. v
    BY <1>1, <1>2
  <2> QED BY <2>1, <2>2, Zenon DEF SameUntil
<1> HIDE DEF F, u, v, f
<1> QED BY <1>1, <1>3, <1>5, <1>6, Zenon

\* What Yadif keeps of two frames or more grows unless the size changes.
LEMMA HistoryGrows ==
  ASSUME NEW P, \A n \in P : n \in Nat, NEW f \in P, NEW kept, Neighbours(kept, P, log'),
         NEW h, h = History(kept, f), NEW g, g = History(h, f)
  PROVE  /\ Len(h) \in {1, 2, 3} /\ h[Len(h)] = f
         /\ Len(kept) >= 2 /\ log'[kept[Len(kept)]].size = log'[f].size => Len(h) = 3
         /\ Len(h) >= 2 => Len(g) >= 2 /\ g[Len(g)] = f
<1> DEFINE n == Len(kept)
<1>1. Kept(kept, P) /\ kept \in Seq(Nat) /\ n \in Nat /\ n <= 3
  BY DEF Neighbours, Kept
<1>2. Extended(h, kept, f, P, log')
  BY <1>1, HistoryKept, Zenon
<1>3. Kept(h, P) /\ h # <<>> /\ h[Len(h)] = f
  BY <1>2 DEF Extended
<1>4. Extended(g, h, f, P, log')
  BY <1>3, HistoryKept, Zenon
<1>5. ASSUME n >= 2
      PROVE  log'[kept[1]].size = log'[kept[2]].size /\ log'[kept[n]].size = log'[kept[1]].size
  <2>1. \A i \in 1 .. n - 1 : log'[kept[i]].size = log'[kept[i + 1]].size
    BY DEF Neighbours
  <2> HIDE DEF n
  <2>2. 1 \in 1 .. n - 1 /\ (n = 3 => 2 \in 1 .. n - 1) /\ 1 + 1 = 2 /\ 2 + 1 = 3 /\ (n = 2 \/ n = 3)
    BY <1>1, <1>5
  <2>3. log'[kept[1]].size = log'[kept[2]].size /\ (n = 3 => log'[kept[2]].size = log'[kept[3]].size)
    BY <2>1, <2>2
  <2> QED BY <2>2, <2>3
<1>6. /\ h \in Seq(Nat) /\ Len(h) \in {1, 2, 3}
      /\ g \in Seq(Nat) /\ Len(g) \in Nat /\ g[Len(g)] = f
  <2>1. h \in Seq(Nat) /\ Len(h) \in Nat /\ Len(h) <= 3 /\ h # <<>>
    BY <1>3 DEF Kept
  <2>2. g \in Seq(Nat) /\ Len(g) \in Nat /\ g[Len(g)] = f
    BY <1>4 DEF Extended, Kept
  <2>3. Len(h) > 0
    BY <2>1, Elements, Zenon
  <2>4. \A k \in Nat : k > 0 /\ k <= 3 => k \in {1, 2, 3}
    OBVIOUS
  <2> QED BY <2>1, <2>2, <2>3, <2>4, Zenon
<1>7. ASSUME n >= 2, log'[kept[n]].size = log'[f].size
      PROVE  Len(h) = 3
  <2>1. log'[kept[1]].size = log'[f].size /\ kept # <<>>
    <3>1. kept # <<>>
      BY <1>7, Len(<<>>) = 0
    <3> QED BY <1>5, <1>7, <3>1
  <2>2. \/ n < 3 /\ Len(h) = n + 1
        \/ Len(h) = 3
    BY <1>2, <2>1 DEF Extended
  <2>3. \A k \in Nat : k >= 2 /\ k < 3 => k + 1 = 3
    OBVIOUS
  <2> QED BY <1>1, <1>7, <2>2, <2>3, Zenon
<1>8. ASSUME Len(h) >= 2
      PROVE  Len(g) >= 2
  <2>1. log'[h[1]].size = log'[f].size
    <3>1. CASE h = <<f>>
      BY <1>8, <3>1
    <3>2. CASE /\ kept # <<>> /\ log'[kept[1]].size = log'[f].size
               /\ \A i \in 1 .. n : h[i] = kept[i]
      <4>1. 1 \in 1 .. n
        BY <1>1, <3>2
      <4> QED BY <3>2, <4>1
    <3>3. CASE n = 3 /\ log'[kept[1]].size = log'[f].size /\ h[1] = kept[2]
      BY <1>5, <3>3
    <3> HIDE DEF n
    <3> QED BY <1>2, <3>1, <3>2, <3>3, Zenon DEF Extended, n
  <2>2. \/ h = <<>>
        \/ Len(h) < 3 /\ Len(g) = Len(h) + 1
        \/ Len(g) = 3
    <3>1. g = <<f>> => h = <<>>
      BY <1>4, <2>1 DEF Extended
    <3> QED BY <1>4, <2>1, <3>1, Zenon DEF Extended
  <2> HIDE DEF n
  <2> QED BY <1>3, <1>6, <1>8, <2>2
<1> QED BY <1>3, <1>6, <1>7, <1>8, Zenon

-----------------------------------------------------------------------------
(* A frame is given to a deinterlacer *)

\* The first frame f of q is given, with what the deinterlacers keep in frames.
Giving(f, q, s, frames, waits) ==
  /\ q \in Seq(Nat) /\ q # <<>> /\ f = q[1] /\ f \in Nat /\ waits \in BOOLEAN
  /\ passed \in Seq(Nat) /\ \A n \in Past : n \in Nat /\ n < f
  /\ log'[f].session = s
  /\ \A m \in Yadifs : Kept(frames[m], Past)
  /\ OwnFrames(frames, log')

LEMMA GivenSent ==
  ASSUME NEW f, NEW q, NEW s, NEW frames, NEW waits, Giving(f, q, s, frames, waits),
         NEW one, Output(f, log'[f].method, frames, waits, one), NEW D,
         Delivered(sent, Past, log', client)
  PROVE  /\ Delivered(sent', Past \cup {f}, log', client)
         /\ /\ Forward(sent, log') /\ Unbroken(frames, q, D, Past, log', s)
            /\ Unshown(frames, q, D, log', FramesOf(sent))
            => Forward(sent', log')
         /\ SentFor(f, frames[log'[f].method], log'[f].method, waits, FramesOf(sent), FramesOf(sent'))
<1> DEFINE method == log'[f].method
           S == FramesOf(sent)
<1>1. /\ f \in Nat /\ (\A n \in Past : n \in Nat /\ n < f) /\ waits \in BOOLEAN
      /\ \A m \in Yadifs : Kept(frames[m], Past)
      /\ \A m \in Yadifs : \A i \in 1 .. Len(frames[m]) : log'[frames[m][i]].method = m
  BY DEF Giving, OwnFrames
<1>2. /\ Delivered(sent', Past \cup {f}, log', client)
      /\ /\ Forward(sent, log')
         /\ method \in Yadifs => Ready(frames[method], method, Past, S)
         => Forward(sent', log')
      /\ SentFor(f, frames[method], method, waits, S, FramesOf(sent'))
  BY <1>1, SamplesSent, Zenon
<1>3. 1 \in Waiting(q) /\ Due(1, q, D, log') = method
  <2>1. q \in Seq(Nat) /\ q # <<>> /\ f = q[1]
    BY DEF Giving
  <2>2. Len(q) \in Nat /\ Due(1, q, D, log') = log'[q[1]].method
    BY <2>1, DueAfter
  <2> QED BY <2>1, <2>2 DEF Waiting
<1>4. ASSUME method \in Yadifs, Unbroken(frames, q, D, Past, log', s), Unshown(frames, q, D, log', S)
      PROVE  Ready(frames[method], method, Past, S)
  <2>1. frames[method] # <<>> => \A n \in Past : n <= frames[method][Len(frames[method])]
    BY <1>3, <1>4, Zenon DEF Unbroken, Latest
  <2>2. method = "YADIF" /\ Len(frames[method]) >= 2 => frames[method][Len(frames[method])] \notin S
    BY <1>3, <1>4, Zenon DEF Unshown
  <2> QED BY <2>1, <2>2, Zenon DEF Ready
<1> QED BY <1>2, <1>4, Zenon

LEMMA GivenOwn ==
  ASSUME NEW f, NEW q, NEW s, NEW frames, NEW waits, Giving(f, q, s, frames, waits),
         NEW one, Output(f, log'[f].method, frames, waits, one)
  PROVE  OwnFrames(m_Frames', log')
<1> DEFINE method == log'[f].method
           P == {n \in Past \cup {f} : log'[n].method = method}
           kept == frames[method]
           h == History(kept, f)
           g == History(h, f)
<1>1. \A m \in Yadifs :
        IF m # method THEN m_Frames'[m] = frames[m]
        ELSE m_Frames'[m] = h \/ m_Frames'[m] = g
  BY OutputFrames
<1>2. ASSUME method \in Yadifs
      PROVE  Kept(m_Frames'[method], P)
  <2>1. Kept(kept, P)
    BY <1>2 DEF Giving, Kept, OwnFrames
  <2>2. f \in P /\ \A n \in P : n \in Nat
    BY DEF Giving
  <2> HIDE DEF P, kept
  <2>3. Kept(h, P)
    BY <2>1, <2>2, HistoryKept, Zenon DEF Extended
  <2> HIDE DEF h
  <2>4. Kept(g, P)
    BY <2>2, <2>3, HistoryKept, Zenon DEF Extended
  <2> QED BY <1>1, <1>2, <2>3, <2>4, Zenon DEF h, kept
<1>3. ASSUME NEW m \in Yadifs, NEW i \in 1 .. Len(m_Frames'[m])
      PROVE  log'[m_Frames'[m][i]].method = m
  <2>1. CASE m = method
    BY <1>2, <1>3, <2>1 DEF Kept
  <2>2. CASE m # method
    BY <1>1, <1>3, <2>2, Zenon DEF Giving, OwnFrames
  <2> QED BY <2>1, <2>2
<1> QED BY <1>3, Zenon DEF OwnFrames

LEMMA GivenOnlyLast ==
  ASSUME NEW f, NEW q, NEW s, NEW frames, NEW waits, Giving(f, q, s, frames, waits),
         \A m \in Yadifs : Neighbours(frames[m], Past, log'), NEW S, NEW T,
         SentFor(f, frames[log'[f].method], log'[f].method, waits, S, T),
         OnlyLast(passed, log', S), Withheld(frames, q, passed, log', s, S),
         waits => \A n \in Past : log'[n].session = s => ~log'[n].seen,
         passed' = Append(passed, f)
  PROVE  OnlyLast(passed', log', T)
<1> DEFINE method == log'[f].method
           n == Len(passed)
           p == passed[n]
           kept == frames[method]
           Reason(a, b) == a \in T \/ ~log'[a].seen \/ log'[a].session # log'[b].session
                           \/ ~SameUntil(a, b, log')
<1>1. /\ n \in Nat /\ passed \in Seq(Nat) /\ Len(passed') = n + 1 /\ passed'[n + 1] = f /\ f \in Nat
      /\ \A i \in 1 .. n : passed'[i] = passed[i] /\ passed[i] \in Past
      /\ \A k \in Past : k \in Nat /\ k < f
      /\ q # <<>> /\ Upcoming(q, log') = f /\ log'[f].session = s
      /\ passed # <<>> <=> n > 0
  <2>1. /\ passed \in Seq(Nat) /\ f \in Nat /\ (\A k \in Past : k \in Nat /\ k < f)
        /\ q # <<>> /\ f = q[1] /\ log'[f].session = s
    BY DEF Giving
  <2>2. Upcoming(q, log') = f
    BY <2>1 DEF Upcoming
  <2>3. Len(passed) \in Nat /\ Len(passed') = Len(passed) + 1 /\ passed'[Len(passed) + 1] = f
        /\ \A i \in 1 .. Len(passed) : passed'[i] = passed[i]
    BY <2>1, AppendElements
  <2>4. \A i \in 1 .. Len(passed) : passed[i] \in Past
    BY <2>1 DEF Past, ToSet
  <2>5. passed # <<>> <=> Len(passed) > 0
    BY <2>1, Elements, Zenon
  <2> QED BY <2>1, <2>2, <2>3, <2>4, <2>5, Zenon
<1>2. S \subseteq T
  BY Zenon DEF SentFor
<1>3. ASSUME NEW i \in 1 .. n - 1
      PROVE  Reason(passed[i], passed[i + 1])
  BY <1>2, <1>3 DEF OnlyLast
<1>4. ASSUME n > 0
      PROVE  Reason(p, f)
  <2>1. n \in 1 .. n /\ p \in Past /\ p \in Nat /\ p < f
    <3>1. n \in 1 .. n
      BY <1>1, <1>4
    <3> QED BY <1>1, <3>1
  <2>2. \/ p \in S
        \/ ~log'[p].seen
        \/ log'[p].session # s
        \/ /\ log'[p].method \in Yadifs /\ Len(frames[log'[p].method]) >= 2
           /\ frames[log'[p].method][Len(frames[log'[p].method])] = p
        \/ ~SameUntil(p, f, log')
    BY <1>1, <1>4, Zenon DEF Withheld
  <2>3. ASSUME log'[p].method \in Yadifs, Len(frames[log'[p].method]) >= 2,
               frames[log'[p].method][Len(frames[log'[p].method])] = p,
               SameUntil(p, f, log'), log'[p].session = s, log'[p].seen
        PROVE  p \in T
    <3>1. log'[f].method = log'[p].method /\ log'[f].size = log'[p].size
      <4>1. f \in p + 1 .. f
        BY <1>1, <2>1
      <4> QED BY <2>3, <4>1, Zenon DEF SameUntil, Differs
    <3> DEFINE P == Past \cup {f}
               h == History(kept, f)
               g == History(h, f)
    <3>2. method \in Yadifs /\ Len(kept) >= 2 /\ kept[Len(kept)] = p
      BY <2>3, <3>1
    <3>3. Neighbours(kept, P, log')
      <4>1. Neighbours(kept, Past, log')
        BY <3>2
      <4> HIDE DEF kept
      <4>2. \A k \in Past : k \in Nat
        BY <1>1
      <4>3. \A k \in Past : k < f
        BY <1>1
      <4> QED BY <1>1, <4>1, <4>2, <4>3, NeighboursLater, Zenon
    <3>4. f \in P /\ \A k \in P : k \in Nat
      BY <1>1
    <3>5. log'[kept[Len(kept)]].size = log'[f].size
      BY <3>1, <3>2
    <3> HIDE DEF P, kept, method
    <3>6. h = History(kept, f) /\ g = History(h, f)
      OBVIOUS
    <3> HIDE DEF h, g
    <3>8. Len(h) = 3
      BY <3>2, <3>3, <3>4, <3>5, <3>6, HistoryGrows
    <3>7. ~waits
      BY <2>1, <2>3
    <3> QED BY <3>2, <3>7, <3>8, Zenon DEF SentFor, h, kept, method
  <2> HIDE DEF p
  <2> QED BY <1>1, <1>2, <2>2, <2>3, Zenon
<1> HIDE DEF Reason, n
<1>5. ASSUME NEW i \in 1 .. n
      PROVE  Reason(passed'[i], passed'[i + 1])
  <2>1. CASE i = n
    BY <1>1, <1>4, <1>5, <2>1 DEF n
  <2>2. CASE i \in 1 .. n - 1
    <3>1. passed'[i] = passed[i] /\ passed'[i + 1] = passed[i + 1]
      BY <1>1, <2>2
    <3> QED BY <1>3, <2>2, <3>1
  <2> QED BY <1>1, <1>5, <2>1, <2>2
<1>6. Len(passed') - 1 = n
  BY <1>1
<1> QED BY <1>5, <1>6, Zenon DEF OnlyLast, Reason

\* Yadif keeps the frame that it was given, alone or with others.
LEMMA GivenLast ==
  ASSUME NEW f, NEW q, NEW s, NEW frames, NEW waits, Giving(f, q, s, frames, waits),
         \A m \in Yadifs : Neighbours(frames[m], Past, log'),
         NEW one, Output(f, log'[f].method, frames, waits, one), log'[f].method \in Yadifs
  PROVE  LET method == log'[f].method
             n == Len(History(frames[method], f))
             k == m_Frames'[method]
         IN  /\ n \in {1, 2, 3} /\ (n >= 2 => Len(k) >= 2)
             /\ Len(k) >= 2 => k[Len(k)] = f
             /\ method = "YADIF" => k = History(frames[method], f)
<1> DEFINE method == log'[f].method
           P == Past \cup {f}
           kept == frames[method]
           h == History(kept, f)
           g == History(h, f)
           k == m_Frames'[method]
<1>1. k = h \/ k = g
  BY OutputFrames
<1>2. method = "YADIF" => k = h
  <2>1. method = "YADIF" => method \notin Doubles
    BY DEF Doubles
  <2> QED BY <2>1 DEF Output, GetFrame
<1>3. f \in P /\ f \in Nat /\ (\A j \in Past : j \in Nat) /\ (\A j \in Past : j < f) /\ (\A j \in P : j \in Nat)
  BY DEF Giving
<1>4. Neighbours(kept, P, log')
  <2>1. Neighbours(kept, Past, log')
    OBVIOUS
  <2> HIDE DEF kept
  <2> QED BY <1>3, <2>1, NeighboursLater, Zenon
<1>5. h = History(kept, f) /\ g = History(h, f)
  OBVIOUS
<1>6. Kept(h, P) /\ Kept(g, P) /\ g # <<>> /\ g[Len(g)] = f
  <2>1. Kept(kept, P)
    BY <1>4 DEF Neighbours
  <2> HIDE DEF P, kept
  <2>2. Kept(h, P)
    BY <1>3, <2>1, HistoryKept, Zenon DEF Extended
  <2> HIDE DEF h
  <2>3. Extended(g, h, f, P, log')
    BY <1>3, <2>2, HistoryKept, Zenon
  <2> QED BY <2>2, <2>3 DEF Extended
<1>7. /\ Len(h) \in {1, 2, 3} /\ h[Len(h)] = f
      /\ Len(h) >= 2 => Len(g) >= 2 /\ g[Len(g)] = f
  <2> HIDE DEF P, kept, h, g
  <2> QED BY <1>3, <1>4, <1>5, HistoryGrows
<1> HIDE DEF k, h, g
<1>8. Len(h) >= 2 => Len(k) >= 2
  BY <1>1, <1>7
<1>9. k[Len(k)] = f
  BY <1>1, <1>6, <1>7
<1> QED BY <1>2, <1>7, <1>8, <1>9, Zenon DEF k, h

LEMMA GivenNext ==
  ASSUME NEW f, NEW q, NEW s, NEW frames, NEW waits, Giving(f, q, s, frames, waits),
         \A m \in Yadifs : Neighbours(frames[m], Past, log'), NEW S, NEW T,
         SentFor(f, frames[log'[f].method], log'[f].method, waits, S, T),
         NEW one, Output(f, log'[f].method, frames, waits, one), waits => ~log'[f].seen
  PROVE  Withheld(m_Frames', Tail(q), passed', log', s, T)
<1> DEFINE method == log'[f].method
           h == History(frames[method], f)
           k == m_Frames'[method]
<1>1. passed'[Len(passed')] = f
  <2>1. passed \in Seq(Nat) /\ f \in Nat /\ passed' = Append(passed, f)
    BY OutputFrames DEF Giving
  <2> QED BY <2>1
<1>2. waits \in BOOLEAN
  BY DEF Giving
<1>3. CASE method \in Yadifs
  <2>1. /\ Len(h) \in {1, 2, 3} /\ (Len(h) >= 2 => Len(k) >= 2)
        /\ Len(k) >= 2 => k[Len(k)] = f
    BY <1>3, GivenLast
  <2>2. ~waits /\ Len(h) = 1 => f \in T
    BY Zenon DEF SentFor
  <2> HIDE DEF h, k
  <2>3. Len(h) = 1 \/ Len(h) >= 2
    BY <2>1
  <2> QED BY <1>1, <1>3, <2>1, <2>2, <2>3, Zenon DEF Withheld, k
<1>4. CASE method \notin Yadifs
  <2>1. ~waits => f \in T
    BY <1>4, Zenon DEF SentFor
  <2> QED BY <1>1, <2>1, Zenon DEF Withheld
<1> QED BY <1>3, <1>4

LEMMA GivenUnshown ==
  ASSUME NEW f, NEW q, NEW s, NEW frames, NEW waits, Giving(f, q, s, frames, waits),
         \A m \in Yadifs : Neighbours(frames[m], Past, log'), NEW S, NEW T, NEW D,
         SentFor(f, frames[log'[f].method], log'[f].method, waits, S, T),
         NEW one, Output(f, log'[f].method, frames, waits, one), Unshown(frames, q, D, log', S)
  PROVE  Unshown(m_Frames', Tail(q), D, log', T)
<1> DEFINE method == log'[f].method
           old == frames["YADIF"]
           k == m_Frames'["YADIF"]
<1> SUFFICES ASSUME Len(k) >= 2, NEW i \in Waiting(Tail(q)), Due(i, Tail(q), D, log') = "YADIF"
             PROVE  k[Len(k)] \notin T
  BY Zenon DEF Unshown
<1>1. CASE method = "YADIF"
  <2>1. method \in Yadifs
    BY <1>1 DEF Yadifs
  <2>2. Len(k) >= 2 => k[Len(k)] = f
    BY <1>1, <2>1, GivenLast
  <2>3. k = History(old, f)
    BY <1>1, <2>1, GivenLast
  <2>4. f \notin T
    BY <1>1, <2>3, Zenon DEF SentFor
  <2> QED BY <2>2, <2>4
<1>2. CASE method # "YADIF"
  <2>1. k = old
    BY <1>2, OutputFrames DEF Yadifs
  <2>2. i + 1 \in Waiting(q) /\ Due(i + 1, q, D, log') = "YADIF"
    <3>1. q \in Seq(Nat) /\ q # <<>>
      BY DEF Giving
    <3> QED BY <3>1, DueAfter
  <2>3. old[Len(old)] \notin S
    BY <2>1, <2>2, Zenon DEF Unshown
  <2>4. \A m \in Yadifs : frames[m] # <<>> =>
          /\ Len(frames[m]) \in 1 .. Len(frames[m]) /\ frames[m][Len(frames[m])] \in Past
          /\ log'[frames[m][Len(frames[m])]].method = m
    <3> SUFFICES ASSUME NEW m \in Yadifs, frames[m] # <<>>
                 PROVE  /\ Len(frames[m]) \in 1 .. Len(frames[m]) /\ frames[m][Len(frames[m])] \in Past
                        /\ log'[frames[m][Len(frames[m])]].method = m
      OBVIOUS
    <3> DEFINE kept == frames[m]
    <3>1. Kept(kept, Past) /\ \A j \in 1 .. Len(kept) : log'[kept[j]].method = m
      BY Zenon DEF Giving, OwnFrames
    <3>2. kept # <<>>
      OBVIOUS
    <3> HIDE DEF kept
    <3>3. Len(kept) \in 1 .. Len(kept)
      BY <3>1, <3>2 DEF Kept
    <3>4. kept[Len(kept)] \in Past /\ log'[kept[Len(kept)]].method = m
      BY <3>1, <3>3, Zenon DEF Kept
    <3> QED BY <3>3, <3>4, Zenon DEF kept
  <2>5. old # <<>> /\ "YADIF" \in Yadifs
    BY <2>1, Len(<<>>) = 0 DEF Yadifs
  <2>6. old[Len(old)] \in Past /\ log'[old[Len(old)]].method = "YADIF"
    BY <2>4, <2>5, Zenon
  <2>7. old[Len(old)] # f
    BY <2>6 DEF Giving
  <2>8. old[Len(old)] \notin T \ S
    <3>1. \A n \in T \ S : n = f \/ (method \in Yadifs /\ frames[method] # <<>>
                                     /\ n = frames[method][Len(frames[method])])
      BY Zenon DEF SentFor
    <3> QED BY <1>2, <2>4, <2>6, <2>7, <3>1
  <2> QED BY <2>1, <2>3, <2>8
<1> QED BY <1>1, <1>2

-----------------------------------------------------------------------------
(* The key frame *)

LEMMA KeyRecorded ==
  ASSUME OrderInv, log \in Seq(Entry), NEW e \in Entry, log' = Append(log, e), NEW s, NEW c,
         NEW v \in BOOLEAN, NEW w \in BOOLEAN, v => w, e.seen <=> ~v,
         NEW S, S \subseteq Past, KeyAt(S, Past, m_FrameQueue, log, s, c, w),
         NEW q, \/ q = m_FrameQueue
                \/ q = Append(m_FrameQueue, Len(log) + 1) /\ (c # "software" => ~v)
  PROVE  KeyAt(S, Past, q, log', s, c, v)
<1> DEFINE L == Len(log)
           queue == m_FrameQueue
<1>1. /\ L \in Nat /\ Len(log') = L + 1 /\ log'[L + 1] = e
      /\ \A n \in 1 .. L : log'[n] = log[n]
      /\ \A n \in Past : log'[n] = log[n]
      /\ queue \in Seq(Nat) /\ Len(queue) \in Nat
      /\ \A i \in 1 .. Len(queue) : queue[i] \in 1 .. L
  BY Unaltered
<1> HIDE DEF L, queue
<1>2. \A n \in 1 .. L : log[n].session = s /\ log[n].seen => ~w
  BY Zenon DEF KeyAt, L
<1>3. ASSUME NEW n \in 1 .. Len(log'), log'[n].session = s, log'[n].seen
      PROVE  ~v
  <2>1. n \in 1 .. L \/ n = L + 1
    BY <1>1
  <2> QED BY <1>1, <1>2, <1>3, <2>1, Zenon
<1>4. ASSUME c # "software"
      PROVE  (\A n \in Past : log'[n].seen) /\ \A i \in 1 .. Len(q) : log'[q[i]].seen
  <2>1. (\A n \in Past : log[n].seen) /\ \A i \in 1 .. Len(queue) : log[queue[i]].seen
    BY <1>4, Zenon DEF KeyAt, queue
  <2>2. CASE q = queue
    <3>1. \A i \in 1 .. Len(queue) : log'[queue[i]].seen
      BY <1>1, <2>1, Zenon
    <3> QED BY <1>1, <2>1, <2>2, <3>1, Zenon
  <2>3. CASE q = Append(queue, L + 1) /\ ~v
    <3>1. Len(q) = Len(queue) + 1 /\ q[Len(queue) + 1] = L + 1 /\ \A i \in 1 .. Len(queue) : q[i] = queue[i]
      BY <1>1, <2>3, AppendElements
    <3>2. \A i \in 1 .. Len(q) : i \in 1 .. Len(queue) \/ i = Len(queue) + 1
      BY <1>1, <3>1
    <3>3. \A i \in 1 .. Len(queue) : log'[q[i]].seen
      BY <1>1, <2>1, <3>1, Zenon
    <3>4. log'[q[Len(queue) + 1]].seen
      BY <1>1, <2>3, <3>1, Zenon
    <3> QED BY <1>1, <2>1, <3>2, <3>3, <3>4, Zenon
  <2> QED BY <1>4, <2>2, <2>3, Zenon DEF queue, L
<1>5. ASSUME NEW n \in S
      PROVE  \/ log'[n].seen
             \/ /\ c = "software" /\ log'[n].method \in Yadifs
                /\ \A k \in Past : k > n /\ log'[k].session = log'[n].session => log'[k].seen
  <2>1. \/ log[n].seen
        \/ /\ c = "software" /\ log[n].method \in Yadifs
           /\ \A k \in Past : k > n /\ log[k].session = log[n].session => log[k].seen
    BY Zenon DEF KeyAt
  <2>2. n \in Past
    OBVIOUS
  <2> QED BY <1>1, <2>1, <2>2, Zenon
<1>6. ASSUME NEW n \in S, log'[n].session = s
      PROVE  ~v
  <2>1. n \in Past
    OBVIOUS
  <2> QED BY <1>1, <1>6, <2>1, Zenon DEF KeyAt
<1> QED BY <1>3, <1>4, <1>5, <1>6, Zenon DEF KeyAt

LEMMA KeyGiven ==
  ASSUME NEW f, NEW q, NEW s, NEW frames, NEW waits, Giving(f, q, s, frames, waits),
         NEW S, NEW T, SentFor(f, frames[log'[f].method], log'[f].method, waits, S, T),
         NEW c, KeyAt(S, Past, q, log', s, c, waits), NEW D,
         c = "software" => (~waits => log'[f].seen) /\ Unbroken(frames, q, D, Past, log', s)
  PROVE  KeyAt(T, Past \cup {f}, Tail(q), log', s, c, waits)
<1> DEFINE method == log'[f].method
           kept == frames[method]
           last == kept[Len(kept)]
<1>1. /\ q \in Seq(Nat) /\ q # <<>> /\ f = q[1] /\ f \in Nat /\ waits \in BOOLEAN
      /\ \A n \in Past : n \in Nat /\ n < f
      /\ log'[f].session = s
  BY DEF Giving
<1>2. S \subseteq T /\ (waits => T = S)
      /\ \A n \in T \ S : n = f \/ (method \in Yadifs /\ kept # <<>> /\ n = last)
  BY Zenon DEF SentFor
<1>3. \A n \in S : log'[n].session = s => ~waits
  BY Zenon DEF KeyAt
<1>4. ASSUME c # "software"
      PROVE  (\A n \in Past \cup {f} : log'[n].seen) /\ \A i \in 1 .. Len(Tail(q)) : log'[Tail(q)[i]].seen
  <2>1. (\A n \in Past : log'[n].seen) /\ \A i \in 1 .. Len(q) : log'[q[i]].seen
    BY <1>4, Zenon DEF KeyAt
  <2>2. /\ Len(q) \in Nat \ {0} /\ Len(Tail(q)) = Len(q) - 1
        /\ \A i \in 1 .. Len(q) - 1 : Tail(q)[i] = q[i + 1]
    BY <1>1, TailElements, Zenon
  <2>3. 1 \in 1 .. Len(q) /\ \A i \in 1 .. Len(Tail(q)) : i + 1 \in 1 .. Len(q) /\ Tail(q)[i] = q[i + 1]
    BY <2>2
  <2> QED BY <1>1, <2>1, <2>3
<1>5. method \in Yadifs /\ kept # <<>> => last \in Past /\ log'[last].method = method
  <2> SUFFICES ASSUME method \in Yadifs, kept # <<>>
               PROVE  last \in Past /\ log'[last].method = method
    OBVIOUS
  <2>1. Kept(kept, Past) /\ \A j \in 1 .. Len(kept) : log'[kept[j]].method = method
    BY Zenon DEF Giving, OwnFrames
  <2> HIDE DEF kept, method
  <2>2. Len(kept) \in 1 .. Len(kept)
    BY <2>1 DEF Kept
  <2> QED BY <2>1, <2>2, Zenon DEF Kept
<1>6. c = "software" /\ method \in Yadifs /\ kept # <<>> => \A n \in Past : n <= last
  <2>1. 1 \in Waiting(q) /\ Due(1, q, D, log') = method
    <3>1. Len(q) \in Nat /\ Due(1, q, D, log') = log'[q[1]].method
      BY <1>1, DueAfter
    <3> QED BY <1>1, <3>1 DEF Waiting
  <2> QED BY <2>1, Zenon DEF Unbroken, Latest
<1> HIDE DEF method, kept, last
<1>7. ASSUME NEW n \in T
      PROVE  \/ log'[n].seen
             \/ /\ c = "software" /\ log'[n].method \in Yadifs
                /\ \A k \in Past \cup {f} : k > n /\ log'[k].session = log'[n].session => log'[k].seen
  <2>1. CASE c # "software"
    <3>1. n \in S => log'[n].seen
      BY <2>1, Zenon DEF KeyAt
    <3> QED BY <1>2, <1>4, <1>5, <2>1, <3>1, Zenon
  <2>2. CASE c = "software" /\ n \in S
    <3>1. \/ log'[n].seen
          \/ /\ log'[n].method \in Yadifs
             /\ \A k \in Past : k > n /\ log'[k].session = log'[n].session => log'[k].seen
      BY <2>2, Zenon DEF KeyAt
    <3>2. log'[f].session = log'[n].session => log'[f].seen
      BY <1>1, <1>3, <2>2, Zenon
    <3> QED BY <2>2, <3>1, <3>2
  <2>3. CASE c = "software" /\ n \notin S
    <3>1. ~waits /\ log'[f].seen
      BY <1>2, <2>3, Zenon
    <3>2. CASE n = f
      BY <3>1, <3>2
    <3>3. CASE method \in Yadifs /\ kept # <<>> /\ n = last
      <4>1. \A k \in Past : ~(k > n)
        BY <1>1, <1>5, <1>6, <2>3, <3>3
      <4> QED BY <1>5, <2>3, <3>1, <3>3, <4>1, Zenon
    <3> QED BY <1>2, <2>3, <3>2, <3>3
  <2> QED BY <2>1, <2>2, <2>3
<1>8. ASSUME NEW n \in T, log'[n].session = s
      PROVE  ~waits
  BY <1>2, <1>3, <1>8, Zenon
<1>9. \A n \in 1 .. Len(log') : log'[n].session = s /\ log'[n].seen => ~waits
  BY Zenon DEF KeyAt
<1> QED BY <1>4, <1>7, <1>8, <1>9, Zenon DEF KeyAt

-----------------------------------------------------------------------------
(* The steps that display a frame keep the invariant *)

\* Frame e is recorded, and q waits; nothing was given yet.
Pending(q, frames) ==
  /\ Delivered(sent, Past, log', client) /\ (~stale' => Forward(sent, log'))
  /\ OwnFrames(frames, log') /\ \A m \in Yadifs : Kept(frames[m], Past)
  /\ KeyAt(Shown, Past, q, log', session, client, m_fWaitForKeyFrame')
  /\ ~stale' => /\ Unbroken(frames, q, Deinterlace', Past, log', session)
                /\ Withholds(frames, q, Deinterlace', passed, log', session, Shown)

LEMMA ShownGiven ==
  ASSUME Delivered(sent, Past, log, client)
  PROVE  Shown = FramesOf(sent) /\ Shown \subseteq Past
<1>1. Shown = FramesOf(sent)
  BY DEF Shown, FramesOf
<1>2. FramesOf(sent) \subseteq Past
  BY DeliveredFrames
<1> QED BY <1>1, <1>2

LEMMA DeliveryRecorded ==
  ASSUME IInv, DeliveryInv, NEW e \in Entry, log' = Append(log, e), e.session = session,
         e.method = Deinterlace', e.seen <=> ~m_fWaitForKeyFrame', m_fWaitForKeyFrame' \in BOOLEAN,
         m_fWaitForKeyFrame' => m_fWaitForKeyFrame, ~stale' => ~stale,
         ~stale' /\ Deinterlace' # Deinterlace =>
           \A i \in 1 .. Len(m_FrameQueue) : log[m_FrameQueue[i]].method # Deinterlace',
         NEW q, \/ q = m_FrameQueue
                \/ q = Append(m_FrameQueue, Len(log) + 1) /\ (client # "software" => ~m_fWaitForKeyFrame')
  PROVE  Pending(q, Restarted(m_Frames, Deinterlace, Deinterlace'))
<1> DEFINE frames == Restarted(m_Frames, Deinterlace, Deinterlace')
<1>1. /\ OrderInv /\ log \in Seq(Entry) /\ session \in Nat /\ m_fWaitForKeyFrame \in BOOLEAN
      /\ \A m \in Yadifs : Kept(m_Frames[m], Past)
  BY DEF IInv, LogInv, TypeInv, KeptInv
<1>2. /\ Delivered(sent, Past, log, client) /\ (~stale => Forward(sent, log))
      /\ OwnFrames(m_Frames, log) /\ (InSession(Len(log)) => log[Len(log)].method = Deinterlace)
      /\ SessionInv
      /\ KeyAt(Shown, Past, m_FrameQueue, log, session, client, m_fWaitForKeyFrame)
      /\ ~stale => Withholds(m_Frames, m_FrameQueue, Deinterlace, passed, log, session, Shown)
  BY DEF DeliveryInv, SentInv, MethodInv, KeyInv, WithheldInv
<1>3. q = m_FrameQueue \/ q = Append(m_FrameQueue, Len(log) + 1)
  OBVIOUS
<1>4. Delivered(sent, Past, log', client) /\ (~stale' => Forward(sent, log'))
  BY <1>1, <1>2, SentLater, Zenon
<1>5. OwnFrames(frames, log')
  BY <1>1, <1>2, OwnLater, Zenon
<1>6. /\ \A m \in Yadifs : Kept(frames[m], Past)
      /\ ~stale' => Unbroken(frames, q, Deinterlace', Past, log', session)
  BY <1>3, Before, Zenon
<1>7. KeyAt(Shown, Past, q, log', session, client, m_fWaitForKeyFrame')
  <2>1. Shown \subseteq Past
    BY <1>2, ShownGiven
  <2> QED BY <1>1, <1>2, <2>1, KeyRecorded, Zenon
<1>8. ASSUME ~stale'
      PROVE  Withholds(frames, q, Deinterlace', passed, log', session, Shown)
  <2>1. /\ OnlyLast(passed, log, Shown)
        /\ Withheld(m_Frames, m_FrameQueue, passed, log, session, Shown)
        /\ Unshown(m_Frames, m_FrameQueue, Deinterlace, log, Shown)
    BY <1>2, <1>8 DEF Withholds
  <2>2. OnlyLast(passed, log', Shown)
    BY <1>1, <2>1, OnlyLastLater, Zenon
  <2>3. Withheld(frames, q, passed, log', session, Shown)
    BY <1>1, <1>2, <1>3, <1>8, <2>1, WithheldLater, Zenon
  <2>4. Unshown(frames, q, Deinterlace', log', Shown)
    BY <1>1, <1>3, <2>1, UnshownLater, Zenon
  <2> QED BY <2>2, <2>3, <2>4, Zenon DEF Withholds
<1> QED BY <1>4, <1>5, <1>6, <1>7, <1>8, Zenon DEF Pending

\* After an action, all of the invariant but the sessions and methods of the log.
AfterDelivery ==
  /\ SentInv' /\ OwnFrames(m_Frames', log') /\ WithheldInv'
  /\ KeyAt(Shown', Past', m_FrameQueue', log', session', client', m_fWaitForKeyFrame')

LEMMA GivenDelivery ==
  ASSUME IInv, NEW e \in Entry, log' = Append(log, e), e.session = session,
         e.seen <=> ~m_fWaitForKeyFrame', m_fWaitForKeyFrame' \in BOOLEAN,
         NEW q, q = m_FrameQueue \/ q = Append(m_FrameQueue, Len(log) + 1), q # <<>>,
         NEW frames, Pending(q, frames), NEW waits \in BOOLEAN, waits <=> m_fWaitForKeyFrame',
         m_FrameQueue' = Tail(q), UNCHANGED <<session, client>>,
         client = "software" => ~stale' /\ m_FrameQueue = <<>>,
         NEW one, Output(q[1], log'[q[1]].method, frames, waits, one)
  PROVE  AfterDelivery
<1> DEFINE f == q[1]
           method == log'[f].method
           S == Shown
           T == FramesOf(sent')
           D == Deinterlace'
<1>1. /\ OrderInv /\ log \in Seq(Entry) /\ passed \in Seq(Nat) /\ \A n \in Past : n \in 1 .. Len(log)
  BY DEF IInv, LogInv, OrderInv
<1>2. Len(log) \in Nat /\ Len(log') \in Nat /\ Len(log') = Len(log) + 1 /\ log'[Len(log) + 1] = e
  BY <1>1, Unaltered
<1>3. Ordered(q, Past, log', session)
  BY <1>1, QueuedOrdered
<1>4. f \in 1 .. Len(log') /\ log'[f].session = session /\ (\A n \in Past : n < f) /\ q \in Seq(Nat)
  <2>1. f \in 1 .. Len(log') /\ log'[f].session = session /\ \A n \in Past : n < f
    BY <1>2, <1>3, GivenOrdered, Zenon
  <2> QED BY <1>3, <2>1 DEF Ordered
<1>5. f \in Nat /\ \A n \in Past : n \in Nat /\ n < f
  BY <1>1, <1>2, <1>4
<1>6. /\ Delivered(sent, Past, log', client) /\ (~stale' => Forward(sent, log'))
      /\ OwnFrames(frames, log') /\ \A m \in Yadifs : Kept(frames[m], Past)
      /\ KeyAt(S, Past, q, log', session, client, waits)
      /\ ~stale' => /\ Unbroken(frames, q, D, Past, log', session)
                    /\ Withholds(frames, q, D, passed, log', session, S)
  <2>1. m_fWaitForKeyFrame' = waits
    OBVIOUS
  <2> QED BY <2>1, Zenon DEF Pending
<1> HIDE DEF f, D
<1>7. Giving(f, q, session, frames, waits)
  BY <1>1, <1>4, <1>5, <1>6, Zenon DEF Giving, f
<1>8. Output(f, method, frames, waits, one) /\ passed' = Append(passed, f)
  BY OutputFrames, Zenon DEF f
<1>9. Past' = Past \cup {f}
  BY <1>1, <1>8, Appended, Zenon DEF Past
<1>10. S = FramesOf(sent) /\ Shown' = T
  BY DEF Shown, FramesOf
<1>11. /\ Delivered(sent', Past', log', client')
       /\ SentFor(f, frames[method], method, waits, S, T)
  BY <1>6, <1>7, <1>8, <1>9, <1>10, GivenSent
<1>12. ~stale' => Forward(sent', log')
  <2>1. ASSUME ~stale'
        PROVE  Forward(sent, log') /\ Unbroken(frames, q, D, Past, log', session)
               /\ Unshown(frames, q, D, log', FramesOf(sent))
    BY <1>6, <1>10, <2>1, Zenon DEF Withholds
  <2> QED BY <1>6, <1>7, <1>8, <2>1, GivenSent, Zenon
<1>13. OwnFrames(m_Frames', log')
  BY <1>7, <1>8, GivenOwn, Zenon
<1>14. KeyAt(T, Past \cup {f}, Tail(q), log', session, client, waits)
  <2>1. client = "software" => (~waits => log'[f].seen)
    <3> SUFFICES ASSUME client = "software", ~waits
                 PROVE  log'[f].seen
      OBVIOUS
    <3>1. f = Len(log) + 1
      <4>1. q = Append(<<>>, Len(log) + 1)
        OBVIOUS
      <4> QED BY <4>1 DEF f
    <3> QED BY <1>2, <3>1, Zenon
  <2> QED BY <1>6, <1>7, <1>11, <2>1, KeyGiven, Zenon
<1>15. ASSUME ~stale'
       PROVE  Withholds(m_Frames', Tail(q), D, passed', log', session, T)
  <2>1. /\ \A m \in Yadifs : Neighbours(frames[m], Past, log')
        /\ OnlyLast(passed, log', S) /\ Withheld(frames, q, passed, log', session, S)
        /\ Unshown(frames, q, D, log', S)
    BY <1>6, <1>15, Zenon DEF Withholds, Unbroken
  <2>2. waits => \A n \in Past \cup {f} : log'[n].session = session => ~log'[n].seen
    <3>1. \A n \in Past \cup {f} : n \in 1 .. Len(log')
      BY <1>1, <1>2, <1>4
    <3> QED BY <1>6, <3>1, Zenon DEF KeyAt
  <2>3. waits => ~log'[f].seen
    BY <1>4, <2>2, Zenon
  <2>4. OnlyLast(passed', log', T)
    <3>1. waits => \A n \in Past : log'[n].session = session => ~log'[n].seen
      BY <2>2, Zenon
    <3> QED BY <1>7, <1>8, <1>11, <2>1, <3>1, GivenOnlyLast, Zenon
  <2>5. Withheld(m_Frames', Tail(q), passed', log', session, T)
    BY <1>7, <1>8, <1>11, <2>1, <2>3, GivenNext, Zenon
  <2>6. Unshown(m_Frames', Tail(q), D, log', T)
    BY <1>7, <1>8, <1>11, <2>1, GivenUnshown, Zenon
  <2> QED BY <2>4, <2>5, <2>6, Zenon DEF Withholds
<1>16. SentInv'
  BY <1>11, <1>12 DEF SentInv
<1>17. WithheldInv'
  BY <1>10, <1>15 DEF WithheldInv, D
<1>18. KeyAt(Shown', Past', m_FrameQueue', log', session', client', m_fWaitForKeyFrame')
  <2>1. m_fWaitForKeyFrame' = waits
    OBVIOUS
  <2> QED BY <1>9, <1>10, <1>14, <2>1
<1> QED BY <1>13, <1>16, <1>17, <1>18, Zenon DEF AfterDelivery

LEMMA NotGivenDelivery ==
  ASSUME NEW frames, Pending(m_FrameQueue', frames), m_Frames' = frames,
         UNCHANGED <<passed, sent, session, client>>
  PROVE  AfterDelivery
<1>1. Past' = Past /\ Shown' = Shown
  BY DEF Past, Shown
<1>2. SentInv'
  BY <1>1 DEF Pending, SentInv
<1>3. WithheldInv'
  BY <1>1 DEF Pending, WithheldInv
<1> QED BY <1>1, <1>2, <1>3 DEF Pending, AfterDelivery

LEMMA LogLater ==
  ASSUME log \in Seq(Entry), NEW e \in Entry, log' = Append(log, e), SessionInv,
         session \in Nat, session' = session, e.session = session
  PROVE  SessionInv' /\ log'[Len(log')] = e
<1> DEFINE L == Len(log)
<1>1. /\ L \in Nat /\ Len(log') = L + 1 /\ log'[L + 1] = e
      /\ \A n \in 1 .. L : log'[n] = log[n]
  BY SameLog
<1>2. /\ \A j \in 1 .. L : \A i \in 1 .. j : log[i].session <= log[j].session
      /\ \A i \in 1 .. L : log[i].session <= session
  BY DEF SessionInv
<1> HIDE DEF L
<1>3. ASSUME NEW j \in 1 .. L + 1, NEW i \in 1 .. j
      PROVE  log'[i].session <= log'[j].session
  <2>1. CASE j \in 1 .. L
    <3>1. i \in 1 .. L
      BY <1>1, <1>3, <2>1
    <3> QED BY <1>1, <1>2, <1>3, <2>1, <3>1, Zenon
  <2>2. CASE j = L + 1
    <3>1. i \in 1 .. L \/ i = L + 1
      BY <1>1, <1>3, <2>2
    <3>2. session <= session
      OBVIOUS
    <3> QED BY <1>1, <1>2, <2>2, <3>1, <3>2, Zenon
  <2> QED BY <1>1, <1>3, <2>1, <2>2
<1>4. \A i \in 1 .. L + 1 : log'[i].session <= session
  <2>1. L + 1 \in 1 .. L + 1 /\ log'[L + 1].session = session
    BY <1>1
  <2>2. \A i \in 1 .. L + 1 : i \in 1 .. L \/ i = L + 1
    BY <1>1
  <2>3. session <= session
    OBVIOUS
  <2> QED BY <1>1, <1>2, <2>1, <2>2, <2>3, Zenon
<1> QED BY <1>1, <1>3, <1>4, Zenon DEF SessionInv

LEMMA DeliveryAgain ==
  ASSUME AfterDelivery, SessionInv', log'[Len(log')].method = Deinterlace',
         client' # "d3d11" => ~stale' /\ m_FrameQueueSize' = 0
  PROVE  DeliveryInv'
<1>1. MethodInv'
  BY DEF AfterDelivery, MethodInv
<1>2. KeyInv'
  BY DEF AfterDelivery, KeyInv
<1>3. SentInv' /\ WithheldInv'
  BY DEF AfterDelivery
<1> QED BY <1>1, <1>2, <1>3, Zenon DEF DeliveryInv

LEMMA DisplayedDelivery ==
  ASSUME IInv, DeliveryInv, NEW flags \in FlagSets[client], NEW size \in Nat, NEW key \in BOOLEAN,
         NEW skip \in BOOLEAN, Display(flags, size, key, skip)
  PROVE  DeliveryInv'
<1> DEFINE e == [flags |-> flags, size |-> size, film |-> m_fFilm', method |-> Deinterlace',
                 seen |-> ~m_fWaitForKeyFrame', session |-> session]
           frames == Restarted(m_Frames, Deinterlace, Deinterlace')
           none == skip \/ (client = "d3d11" /\ m_fWaitForKeyFrame')
           queue == IF none THEN m_FrameQueue ELSE Append(m_FrameQueue, Len(log) + 1)
           due == ~none /\ Len(queue) > m_FrameQueueSize
<1>1. /\ client # "object" /\ UNCHANGED <<client, session>> /\ UNCHANGED optionVars
      /\ SetTelecineMode(flags) /\ Len(log) + 1 <= MaxFrames[client]
      /\ Deinterlace' = Choose(flags, m_fFilm', m_fTelecineMode')
      /\ log' = Append(log, e)
      /\ m_fWaitForKeyFrame' = (m_fWaitForKeyFrame /\ ~key)
      /\ m_FrameQueue' = IF due THEN Tail(queue) ELSE queue
      /\ stale' = \/ stale
                  \/ /\ Deinterlace' # Deinterlace
                     /\ \E f \in ToSet(m_FrameQueue) : log[f].method = Deinterlace'
  BY DEF Display, Record
<1>2. TypeInv /\ OrderInv /\ LogInv /\ SessionInv /\ KeyInv
  BY DEF IInv, DeliveryInv
<1>3. frames = IF Deinterlace' # Deinterlace THEN Initialize(Deinterlace') ELSE m_Frames
  BY <1>2, Restart, Zenon DEF TypeInv
<1>4. IF due THEN Output(Head(queue), log'[Head(queue)].method, frames, m_fWaitForKeyFrame', FALSE)
             ELSE m_Frames' = frames /\ UNCHANGED <<passed, sent>>
  BY <1>3 DEF Display
<1>5. /\ m_fFilm' \in BOOLEAN /\ Deinterlace' \in AllMethods /\ m_fWaitForKeyFrame' \in BOOLEAN
      /\ m_fWaitForKeyFrame' => m_fWaitForKeyFrame
  <2>1. m_fFilm' \in BOOLEAN /\ Deinterlace' \in AllMethods
    BY <1>1, <1>2, Telecined, Chosen
  <2>2. m_fWaitForKeyFrame' \in BOOLEAN /\ (m_fWaitForKeyFrame' => m_fWaitForKeyFrame)
    BY <1>1, Zenon
  <2> QED BY <2>1, <2>2
<1>6. e \in Entry /\ e.session = session /\ e.method = Deinterlace' /\ (e.seen <=> ~m_fWaitForKeyFrame')
  <2>1. flags \in SUBSET {"repeat", "frame", "sequence"} /\ session \in Nat
    BY <1>2, OutputAssumption DEF TypeInv
  <2> QED BY <1>5, <2>1 DEF Entry
<1>7. /\ \/ queue = m_FrameQueue
         \/ queue = Append(m_FrameQueue, Len(log) + 1) /\ (client # "software" => ~m_fWaitForKeyFrame')
      /\ log \in Seq(Entry) /\ m_FrameQueue \in Seq(Nat) /\ Len(log) \in Nat /\ session \in Nat
  <2>1. client = "software" \/ client = "d3d11"
    BY <1>1, <1>2, OutputAssumption DEF TypeInv
  <2>2. log \in Seq(Entry) /\ m_FrameQueue \in Seq(Nat) /\ Len(log) \in Nat /\ session \in Nat
    BY <1>2 DEF LogInv, OrderInv, Ordered, TypeInv
  <2> QED BY <2>1, <2>2
<1>8. /\ ~stale' => ~stale
      /\ ~stale' /\ Deinterlace' # Deinterlace =>
           \A i \in 1 .. Len(m_FrameQueue) : log[m_FrameQueue[i]].method # Deinterlace'
  <2>1. \A i \in 1 .. Len(m_FrameQueue) : m_FrameQueue[i] \in ToSet(m_FrameQueue)
    BY <1>7 DEF ToSet
  <2> QED BY <1>1, <2>1
<1>9. /\ client # "d3d11" => ~stale' /\ m_FrameQueueSize' = 0
      /\ client = "software" => m_FrameQueue = <<>>
  <2> SUFFICES ASSUME client # "d3d11"
               PROVE  ~stale' /\ m_FrameQueueSize' = 0 /\ m_FrameQueue = <<>>
    OBVIOUS
  <2>1. ~stale /\ m_FrameQueueSize = 0 /\ Len(m_FrameQueue) <= m_FrameQueueSize
    BY <1>2 DEF KeyInv, TypeInv
  <2>2. Len(m_FrameQueue) \in Nat /\ (m_FrameQueue # <<>> <=> Len(m_FrameQueue) > 0)
    BY <1>7, Elements, Zenon
  <2>3. m_FrameQueue = <<>>
    <3>1. ~(Len(m_FrameQueue) > 0)
      BY <2>1, <2>2
    <3> QED BY <2>2, <3>1, Zenon
  <2>4. ToSet(<<>>) = {}
    BY DEF ToSet
  <2> QED BY <1>1, <2>1, <2>3, <2>4 DEF optionVars
<1>10. due => queue # <<>> /\ Head(queue) = queue[1]
  <2>1. ASSUME due
        PROVE  queue \in Seq(Nat) /\ queue # <<>>
    BY <1>7, <2>1, AppendElements
  <2> HIDE DEF queue
  <2> QED BY <2>1, TailElements
<1>11. SessionInv' /\ log'[Len(log')].method = Deinterlace'
  BY <1>1, <1>2, <1>6, <1>7, LogLater DEF LogInv
<1> HIDE DEF e, queue, due
<1>12. Pending(queue, frames)
  BY <1>1, <1>5, <1>6, <1>7, <1>8, DeliveryRecorded, Zenon
<1> HIDE DEF frames
<1>13. AfterDelivery
  <2>1. CASE due
    <3>1. m_FrameQueue' = Tail(queue) /\ queue # <<>>
          /\ Output(queue[1], log'[queue[1]].method, frames, m_fWaitForKeyFrame', FALSE)
      BY <1>1, <1>4, <1>10, <2>1
    <3>2. client = "software" => ~stale' /\ m_FrameQueue = <<>>
      BY <1>9
    <3>3. queue = m_FrameQueue \/ queue = Append(m_FrameQueue, Len(log) + 1)
      BY <1>7
    <3> QED BY <1>1, <1>5, <1>6, <1>12, <3>1, <3>2, <3>3, GivenDelivery, Zenon
  <2>2. CASE ~due
    <3>1. m_FrameQueue' = queue /\ m_Frames' = frames /\ UNCHANGED <<passed, sent>>
      BY <1>1, <1>4, <2>2
    <3> QED BY <1>1, <1>12, <3>1, NotGivenDelivery
  <2> QED BY <2>1, <2>2
<1>14. client' # "d3d11" => ~stale' /\ m_FrameQueueSize' = 0
  BY <1>1, <1>9
<1> QED BY <1>11, <1>13, <1>14, DeliveryAgain, Zenon

LEMMA InputtedDelivery ==
  ASSUME IInv, DeliveryInv, NEW flags \in FlagSets[client], NEW size \in Nat, NEW key \in BOOLEAN,
         NEW skip \in BOOLEAN, InputFrame(flags, size, key, skip)
  PROVE  DeliveryInv'
<1> DEFINE e == [flags |-> flags, size |-> size, film |-> FALSE, method |-> Deinterlace',
                 seen |-> ~m_fWaitForKeyFrame', session |-> session]
           n == Len(log) + 1
           frames == Restarted(m_Frames, Deinterlace, Deinterlace')
           q == Append(m_FrameQueue, n)
<1>1. /\ client = "object" /\ UNCHANGED <<client, session, Deinterlace, stale, m_FrameQueue>>
      /\ UNCHANGED optionVars /\ log' = Append(log, e)
      /\ m_fWaitForKeyFrame' = (m_fWaitForKeyFrame /\ ~key)
  BY DEF InputFrame, Record
<1>2. \/ UNCHANGED outputVars
      \/ /\ ~m_fWaitForKeyFrame'
         /\ \E one \in BOOLEAN : Output(n, Deinterlace, m_Frames, FALSE, one)
  BY DEF InputFrame
<1>3. TypeInv /\ OrderInv /\ LogInv /\ SessionInv /\ KeyInv /\ m_FrameQueue = <<>>
  BY <1>1 DEF IInv, OrderInv, DeliveryInv
<1>4. /\ Deinterlace' \in AllMethods /\ m_fWaitForKeyFrame' \in BOOLEAN
      /\ m_fWaitForKeyFrame' => m_fWaitForKeyFrame
  BY <1>1, <1>3, Zenon DEF TypeInv
<1>5. e \in Entry /\ e.session = session /\ e.method = Deinterlace' /\ (e.seen <=> ~m_fWaitForKeyFrame')
  <2>1. flags \in SUBSET {"repeat", "frame", "sequence"} /\ session \in Nat
    BY <1>3, OutputAssumption DEF TypeInv
  <2> QED BY <1>4, <2>1 DEF Entry
<1>6. log \in Seq(Entry) /\ Len(log) \in Nat /\ session \in Nat
  BY <1>3 DEF LogInv, TypeInv
<1>7. frames = m_Frames
  BY <1>1, <1>3, Restart, Zenon DEF TypeInv
<1>8. q # <<>> /\ q[1] = n /\ Tail(q) = <<>>
  BY <1>3
<1>9. log'[n] = e
  BY <1>1, <1>5, <1>6, SameLog
<1>10. SessionInv' /\ log'[Len(log')].method = Deinterlace'
  BY <1>1, <1>3, <1>5, <1>6, LogLater
<1>11. client' # "d3d11" => ~stale' /\ m_FrameQueueSize' = 0
  BY <1>1, <1>3 DEF KeyInv, optionVars
<1> HIDE DEF e, frames
<1>12. /\ ~stale' => ~stale
       /\ ~(Deinterlace' # Deinterlace)
  BY <1>1
<1>13. AfterDelivery
  <2>1. CASE UNCHANGED outputVars
    <3>1. m_Frames' = m_Frames /\ UNCHANGED <<passed, sent>>
      BY <2>1 DEF outputVars
    <3>2. m_FrameQueue' = m_FrameQueue
      BY <1>1
    <3>3. Pending(m_FrameQueue', m_Frames)
      <4>1. Pending(m_FrameQueue, frames)
        BY <1>1, <1>4, <1>5, <1>12, DeliveryRecorded, Zenon DEF frames
      <4> QED BY <1>7, <3>2, <4>1
    <3> QED BY <1>1, <3>1, <3>3, NotGivenDelivery
  <2>2. ASSUME ~m_fWaitForKeyFrame', NEW one \in BOOLEAN, Output(n, Deinterlace, m_Frames, FALSE, one)
        PROVE  AfterDelivery
    <3>1. Output(q[1], log'[q[1]].method, m_Frames, FALSE, one)
      BY <1>1, <1>5, <1>8, <1>9, <2>2
    <3>2. m_FrameQueue' = Tail(q) /\ q = Append(m_FrameQueue, Len(log) + 1)
      BY <1>1, <1>3, <1>8
    <3> HIDE DEF q
    <3>3. Pending(q, m_Frames)
      <4>1. Pending(q, frames)
        BY <1>1, <1>4, <1>5, <1>12, <2>2, <3>2, DeliveryRecorded, Zenon DEF frames
      <4> QED BY <1>7, <4>1
    <3>4. (FALSE <=> m_fWaitForKeyFrame') /\ FALSE \in BOOLEAN /\ client # "software"
      BY <1>1, <2>2
    <3> QED BY <1>1, <1>4, <1>5, <1>8, <3>1, <3>2, <3>3, <3>4, GivenDelivery, Zenon
  <2> QED BY <1>2, <2>1, <2>2
<1> QED BY <1>10, <1>11, <1>13, DeliveryAgain, Zenon

-----------------------------------------------------------------------------
(* The other steps keep it *)

LEMMA DeliveryNewSession ==
  ASSUME IInv, DeliveryInv, UNCHANGED <<client, log, passed, sent, stale, m_FrameQueueSize>>,
         session' = session + 1, m_FrameQueue' = <<>>,
         \A m \in Yadifs : m_Frames'[m] = <<>> \/ (m # Deinterlace' /\ m_Frames'[m] = m_Frames[m])
  PROVE  DeliveryInv'
<1>1. /\ log \in Seq(Entry) /\ session \in Nat /\ passed \in Seq(Nat)
      /\ SentInv /\ MethodInv /\ SessionInv /\ KeyInv /\ WithheldInv
      /\ \A n \in Past : n \in 1 .. Len(log)
  BY DEF IInv, OrderInv, LogInv, TypeInv, DeliveryInv
<1>2. Past' = Past /\ Shown' = Shown
  BY DEF Past, Shown
<1>3. \A n \in 1 .. Len(log) : /\ log[n].session \in Nat /\ log[n].session <= session
                               /\ log[n].session # session'
  <2> TAKE n \in 1 .. Len(log)
  <2>1. log[n].session \in Nat
    <3>1. log[n] \in Entry
      BY <1>1
    <3> QED BY <3>1 DEF Entry
  <2>2. log[n].session <= session
    BY <1>1, Zenon DEF SessionInv
  <2> QED BY <1>1, <2>1, <2>2
<1>4. Shown \subseteq Past
  BY <1>1, ShownGiven DEF SentInv
<1>5. SentInv'
  BY <1>1, <1>2 DEF SentInv
<1>6. MethodInv'
  <2>1. OwnFrames(m_Frames', log)
    <3> SUFFICES ASSUME NEW m \in Yadifs, NEW i \in 1 .. Len(m_Frames'[m])
                 PROVE  log[m_Frames'[m][i]].method = m
      BY Zenon DEF OwnFrames
    <3>1. CASE m_Frames'[m] = <<>>
      BY <3>1
    <3>2. CASE m_Frames'[m] = m_Frames[m]
      BY <1>1, <3>2 DEF MethodInv, OwnFrames
    <3> QED BY <3>1, <3>2
  <2>2. ~InSession(Len(log))'
    BY <1>1, <1>3 DEF InSession
  <2> QED BY <2>1, <2>2 DEF MethodInv
<1>7. SessionInv'
  BY <1>1, <1>3 DEF SessionInv
<1>8. KeyInv'
  <2>1. KeyAt(Shown, Past, <<>>, log, session', client, m_fWaitForKeyFrame')
    <3>1. KeyAt(Shown, Past, m_FrameQueue, log, session, client, m_fWaitForKeyFrame)
      BY <1>1 DEF KeyInv
    <3>2. \A n \in Shown : n \in 1 .. Len(log)
      BY <1>1, <1>4
    <3>3. \A i \in 1 .. Len(<<>>) : FALSE
      OBVIOUS
    <3> QED BY <1>3, <3>1, <3>2, <3>3, Zenon DEF KeyAt
  <2> QED BY <1>1, <1>2, <2>1 DEF KeyInv
<1>9. ASSUME ~stale
      PROVE  Withholds(m_Frames', <<>>, Deinterlace', passed, log, session', Shown)
  <2>1. OnlyLast(passed, log, Shown)
    BY <1>1, <1>9 DEF WithheldInv, Withholds
  <2>2. Withheld(m_Frames', <<>>, passed, log, session', Shown)
    <3>1. passed # <<>> => passed[Len(passed)] \in 1 .. Len(log)
      BY <1>1 DEF Past, ToSet
    <3> QED BY <1>3, <3>1 DEF Withheld
  <2>3. Unshown(m_Frames', <<>>, Deinterlace', log, Shown)
    <3>1. \A i \in Waiting(<<>>) : Due(i, <<>>, Deinterlace', log) = Deinterlace'
      BY DEF Waiting, Due
    <3>2. "YADIF" \in Yadifs /\ ~(Len(<<>>) >= 2)
      BY DEF Yadifs
    <3> QED BY <3>1, <3>2, Zenon DEF Unshown
  <2> QED BY <2>1, <2>2, <2>3 DEF Withholds
<1>10. WithheldInv'
  BY <1>2, <1>9 DEF WithheldInv
<1> QED BY <1>5, <1>6, <1>7, <1>8, <1>10 DEF DeliveryInv

LEMMA DeliveryFlushed ==
  ASSUME IInv, DeliveryInv, EndFlush
  PROVE  DeliveryInv'
<1>1. /\ UNCHANGED <<client, m_fWaitForKeyFrame, Deinterlace, log, session, stale, m_Frames, passed, sent>>
      /\ UNCHANGED optionVars /\ m_FrameQueue' = <<>>
  BY DEF EndFlush, outputVars
<1>2. /\ OrderInv /\ log \in Seq(Entry) /\ m_FrameQueue \in Seq(Nat) /\ passed \in Seq(Nat)
      /\ SentInv /\ MethodInv /\ SessionInv /\ KeyInv /\ WithheldInv
      /\ \A n \in Past : n \in 1 .. Len(log)
  BY DEF IInv, OrderInv, Ordered, LogInv, DeliveryInv
<1>3. Past' = Past /\ Shown' = Shown
  BY <1>1 DEF Past, Shown
<1>4. SentInv' /\ MethodInv' /\ SessionInv'
  BY <1>1, <1>2, <1>3 DEF SentInv, MethodInv, InSession, SessionInv
<1>5. KeyInv'
  <2>1. KeyAt(Shown, Past, <<>>, log, session, client, m_fWaitForKeyFrame)
    <3>1. KeyAt(Shown, Past, m_FrameQueue, log, session, client, m_fWaitForKeyFrame)
      BY <1>2 DEF KeyInv
    <3>2. \A i \in 1 .. Len(<<>>) : FALSE
      OBVIOUS
    <3> QED BY <3>1, <3>2, Zenon DEF KeyAt
  <2> QED BY <1>1, <1>2, <1>3, <2>1 DEF KeyInv, optionVars
<1>6. ASSUME ~stale
      PROVE  Withholds(m_Frames, <<>>, Deinterlace, passed, log, session, Shown)
  <2>1. /\ OnlyLast(passed, log, Shown)
        /\ Withheld(m_Frames, m_FrameQueue, passed, log, session, Shown)
        /\ Unshown(m_Frames, m_FrameQueue, Deinterlace, log, Shown)
    BY <1>2, <1>6 DEF WithheldInv, Withholds
  <2>2. Withheld(m_Frames, <<>>, passed, log, session, Shown)
    <3> DEFINE f == passed[Len(passed)]
               u == Upcoming(m_FrameQueue, log)
    <3>1. Len(log) \in Nat /\ u \in Nat /\ u <= Len(log)
      <4>1. Len(log) \in Nat
        BY <1>2
      <4>2. m_FrameQueue # <<>> => m_FrameQueue[1] \in 1 .. Len(log)
        <5>1. m_FrameQueue # <<>> => 1 \in 1 .. Len(m_FrameQueue)
          BY <1>2
        <5> QED BY <1>2, <5>1 DEF OrderInv, Ordered
      <4> QED BY <4>1, <4>2 DEF Upcoming
    <3>2. Upcoming(<<>>, log) = Len(log)
      BY DEF Upcoming
    <3>3. passed # <<>> => f \in 1 .. Len(log)
      BY <1>2 DEF Past, ToSet
    <3>4. passed # <<>> /\ ~SameUntil(f, u, log) => ~SameUntil(f, Len(log), log)
      <4>1. passed # <<>> => \A n \in f + 1 .. u : n \in f + 1 .. Len(log)
        BY <3>1, <3>3
      <4> QED BY <4>1, Zenon DEF SameUntil
    <3> QED BY <2>1, <3>2, <3>4, Zenon DEF Withheld
  <2>3. Unshown(m_Frames, <<>>, Deinterlace, log, Shown)
    <3>1. \A i \in Waiting(<<>>) : Due(i, <<>>, Deinterlace, log) = Deinterlace
      BY DEF Waiting, Due
    <3>2. Len(m_FrameQueue) + 1 \in Waiting(m_FrameQueue)
          /\ Due(Len(m_FrameQueue) + 1, m_FrameQueue, Deinterlace, log) = Deinterlace
      <4>1. Len(m_FrameQueue) \in Nat
        BY <1>2
      <4> QED BY <4>1 DEF Waiting, Due
    <3> QED BY <2>1, <3>1, <3>2, Zenon DEF Unshown
  <2> QED BY <2>1, <2>2, <2>3 DEF Withholds
<1>7. WithheldInv'
  BY <1>1, <1>3, <1>6 DEF WithheldInv
<1> QED BY <1>4, <1>5, <1>7 DEF DeliveryInv

LEMMA DeliverySame ==
  ASSUME DeliveryInv, UNCHANGED <<client, m_FrameQueue, m_fWaitForKeyFrame, Deinterlace, log, session,
                                  stale, m_Frames, passed, sent, m_FrameQueueSize>>
  PROVE  DeliveryInv'
<1>1. Past' = Past /\ Shown' = Shown
  BY DEF Past, Shown
<1> QED BY <1>1 DEF DeliveryInv, SentInv, MethodInv, InSession, SessionInv, KeyInv, WithheldInv

LEMMA DeliveryBegun ==
  ASSUME Init
  PROVE  DeliveryInv
<1>1. /\ log = <<>> /\ passed = <<>> /\ sent = <<>> /\ m_Frames = NoFrames /\ m_FrameQueue = <<>>
      /\ stale = FALSE /\ (client # "d3d11" => m_FrameQueueSize = 0)
  BY DEF Init
<1>2. /\ Len(<<>>) = 0 /\ DOMAIN <<>> = {} /\ Past = {} /\ Shown = {}
      /\ \A m \in Yadifs : m_Frames[m] = <<>>
  BY <1>1 DEF Past, ToSet, Shown, NoFrames
<1>3. SentInv
  <2>1. <<>> \in Seq(SampleType)
    OBVIOUS
  <2> QED BY <1>1, <1>2, <2>1 DEF SentInv, Delivered, Forward
<1>4. MethodInv /\ SessionInv
  BY <1>1, <1>2 DEF MethodInv, OwnFrames, InSession, SessionInv
<1>5. KeyInv
  <2>1. \A i \in 1 .. Len(<<>>) : FALSE
    OBVIOUS
  <2>2. KeyAt({}, {}, <<>>, <<>>, session, client, m_fWaitForKeyFrame)
    BY <2>1, Zenon DEF KeyAt
  <2> QED BY <1>1, <1>2, <2>2 DEF KeyInv
<1>6. WithheldInv
  BY <1>1, <1>2 DEF WithheldInv, Withholds, OnlyLast, Withheld, Unshown
<1> QED BY <1>3, <1>4, <1>5, <1>6 DEF DeliveryInv

LEMMA DeliveryStep ==
  ASSUME IInv, DeliveryInv, [Next]_vars
  PROVE  DeliveryInv'
<1>1. CASE Frame
  <2>1. PICK flags \in FlagSets[client], resized \in BOOLEAN, key \in BOOLEAN, skip \in BOOLEAN :
          LET size == IF log = <<>> THEN 0 ELSE log[Len(log)].size + (IF resized THEN 1 ELSE 0)
          IN  Display(flags, size, key, skip) \/ InputFrame(flags, size, key, skip)
    BY <1>1 DEF Frame
  <2> DEFINE size == IF log = <<>> THEN 0 ELSE log[Len(log)].size + (IF resized THEN 1 ELSE 0)
  <2>2. size \in Nat
    BY SizeOfNext DEF IInv
  <2>3. Display(flags, size, key, skip) \/ InputFrame(flags, size, key, skip)
    BY <2>1
  <2> HIDE DEF size
  <2> QED BY <2>2, <2>3, DisplayedDelivery, InputtedDelivery
<1>2. CASE Change
  <2>1. CASE InitDecode
    <3>1. \A m \in Yadifs : m_Frames'[m] = <<>>
      BY <2>1 DEF InitDecode, NoFrames
    <3> QED BY <2>1, <3>1, DeliveryNewSession DEF InitDecode, optionVars
  <2>2. CASE EndFlush
    BY <2>2, DeliveryFlushed
  <2>3. CASE SetOutputType \/ SetWaitForKeyFrame
    BY <2>3, DeliverySame DEF SetOutputType, SetWaitForKeyFrame, outputVars
  <2>4. ASSUME NEW method, m_Frames' = Initialize(method), Deinterlace' = method, client = "object",
               UNCHANGED <<client, m_FrameQueue, log, passed, sent, stale, m_FrameQueueSize>>,
               session' = session + 1
        PROVE  DeliveryInv'
    <3>1. \A m \in Yadifs : m_Frames'[m] = <<>> \/ (m # Deinterlace' /\ m_Frames'[m] = m_Frames[m])
      BY <2>4 DEF Initialize
    <3>2. m_FrameQueue' = <<>>
      BY <2>4 DEF IInv, OrderInv
    <3> QED BY <2>4, <3>1, <3>2, DeliveryNewSession
  <2>5. CASE Open
    BY <2>4, <2>5 DEF Open, optionVars
  <2>6. ASSUME NEW method \in Methods[client], SetDeinterlaceMethod(method)
        PROVE  DeliveryInv'
    <3>1. CASE client = "object" /\ session > 0
      BY <2>4, <2>6, <3>1 DEF SetDeinterlaceMethod
    <3>2. CASE ~(client = "object" /\ session > 0)
      BY <2>6, <3>2, DeliverySame DEF SetDeinterlaceMethod
    <3> QED BY <3>1, <3>2
  <2> QED BY <1>2, <2>1, <2>2, <2>3, <2>5, <2>6 DEF Change
<1>3. CASE (Close /\ UNCHANGED changes) \/ UNCHANGED vars
  BY <1>3, DeliverySame DEF Close, vars, outputVars, optionVars
<1> QED BY <1>1, <1>2, <1>3 DEF Next

\* A change costs one frame at most, for every stream, size of the queue and set
\* of methods: a frame that waits in CDeinterlacer_Yadif for its successor is
\* delivered or captured when that one is given to a deinterlacer, unless it came
\* before the key frame, or the session, the method or the size changed between
\* the two.
THEOREM OnlyLastWithheldCorrect == Spec => []OnlyLastWithheld
<1>1. Init => IInv /\ DeliveryInv
  BY Begun, DeliveryBegun
<1>2. IInv /\ DeliveryInv /\ [Next]_vars => (IInv /\ DeliveryInv)'
  BY Step, DeliveryStep
<1>3. IInv /\ DeliveryInv => OnlyLastWithheld
  <2> SUFFICES ASSUME DeliveryInv, ~stale
               PROVE  \A i \in 1 .. Len(passed) - 1 :
                        LET f == passed[i]
                            g == passed[i + 1]
                        IN  \/ f \in Shown
                            \/ ~log[f].seen
                            \/ log[f].session # log[g].session
                            \/ \E n \in f + 1 .. g :
                                 log[n].method # log[f].method \/ log[n].size # log[f].size
    BY DEF OnlyLastWithheld
  <2>1. OnlyLast(passed, log, Shown)
    BY DEF DeliveryInv, WithheldInv, Withholds
  <2> QED BY <2>1, Zenon DEF OnlyLast, SameUntil, Differs
<1> QED BY <1>1, <1>2, <1>3, PTL DEF Spec

\* What leaves goes forward in display order and in time, except for the second
\* samples of CDeinterlacer_YadifBob, and starts with the key frame, except for
\* the one frame before it that the filter's software decoder lets Yadif keep:
\* DeliverFrame and OutFrame, for every stream, every change between two frames
\* and every size of the queue.
THEOREM OutputForwardCorrect == Spec => []OutputForward
<1>1. Init => IInv /\ DeliveryInv
  BY Begun, DeliveryBegun
<1>2. IInv /\ DeliveryInv /\ [Next]_vars => (IInv /\ DeliveryInv)'
  BY Step, DeliveryStep
<1>3. IInv /\ DeliveryInv => OutputForward
  <2> SUFFICES ASSUME DeliveryInv
               PROVE  SamplesForward /\ KeyFrameFirst
    BY DEF OutputForward
  <2>1. SamplesForward
    <3>1. ~stale => Forward(sent, log)
      BY DEF DeliveryInv, SentInv
    <3> QED BY <3>1, Zenon DEF SamplesForward, Forward, Fits
  <2>2. KeyFrameFirst
    <3>1. KeyAt(Shown, Past, m_FrameQueue, log, session, client, m_fWaitForKeyFrame)
      BY DEF DeliveryInv, KeyInv
    <3> QED BY <3>1, Zenon DEF KeyAt, KeyFrameFirst, Past
  <2> QED BY <2>1, <2>2
<1> QED BY <1>1, <1>2, <1>3, PTL DEF Spec
=============================================================================
