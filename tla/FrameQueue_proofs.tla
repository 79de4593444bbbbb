------------------------- MODULE FrameQueue_proofs -------------------------
(***************************************************************************)
(* Proofs about FrameQueue, for every size of the ring and any number of   *)
(* frames.                                                                 *)
(***************************************************************************)
EXTENDS FrameQueue, SequenceTheorems, TLAPS

-----------------------------------------------------------------------------
(* The invariant *)

Ring == m_FrameQueueSize + 1

\* Nothing is ahead of the last frame displayed, and slots that are not of the
\* ring are not used, none when nothing is delayed.
TypeInv ==
  /\ m_FrameQueueSize \in 0 .. MAX_QUEUE_FRAMES
  /\ m_FrameQueuePos \in 0 .. m_FrameQueueSize
  /\ NextPos \in 0 .. m_FrameQueueSize
  /\ pc # "return" => NextPos = 0
  /\ pc \in {"idle", "parse", "return", "deliver", "flush", "flushDeliver", "eos"}
  /\ ctl \in {"idle", "flushing", "cleared", "overlapped", "stopping"}
  /\ running \in BOOLEAN /\ m_bFlushing \in BOOLEAN /\ eos \in BOOLEAN
  /\ shown \in 0 .. MaxFrames
  /\ hand \in 0 .. shown
  /\ pc \in {"deliver", "flushDeliver"} <=> hand # 0
  /\ m_FrameQueue \in [Slots -> 0 .. shown]
  /\ \A s \in Slots : s > m_FrameQueueSize \/ m_FrameQueueSize = 0 => m_FrameQueue[s] = 0
  /\ sent \in Seq(1 .. shown)
  /\ gone \in SUBSET (1 .. shown)

\* A thread that is in the filter keeps it running, Receive calls come to an end
\* before EndOfStream, and a flush keeps new ones out until its end.
ThreadInv ==
  /\ ~running => pc = "idle"
  /\ pc \in {"parse", "return", "deliver"} => ~eos
  /\ ctl \in {"flushing", "cleared", "overlapped"} => m_bFlushing
  /\ ctl = "cleared" => pc = "idle"

\* A flush leaves nothing to the loop of FlushFrameQueue, nor to a source that
\* has sent the end of the stream before.
DrainedInv ==
  \/ pc \in {"flush", "flushDeliver", "eos"} /\ ~eos
  \/ ctl = "overlapped" /\ eos
  \/ ctl = "cleared"
  => m_FrameQueue = Empty

\* While frames come in, the ring from its base on holds the frames of the last
\* displays in order, those that have not been mapped newer than all delivered.
Feeding == pc \in {"parse", "return", "deliver"} \/ (pc = "idle" /\ ~eos)
Base == IF pc = "return" THEN NextPos ELSE m_FrameQueuePos
InTurn(i) ==
  LET f == m_FrameQueue[(Base + i) % Ring]
  IN  f # 0 =>
        /\ f = shown - m_FrameQueueSize + i
        /\ i > 0 \/ pc = "return" => \A g \in Sent : g < f
Aligned == Feeding => \A i \in 0 .. m_FrameQueueSize : InTurn(i)
HandInTurn == pc = "deliver" => hand = shown - m_FrameQueueSize /\ \A g \in Sent : g < hand

\* The texture that is written to next has been mapped, and its frame delivered
\* or given up.
AtPosition ==
  pc # "return" =>
    LET f == m_FrameQueue[m_FrameQueuePos]
    IN  f # 0 => f \in Sent \cup gone \/ (pc = "deliver" /\ f = hand)

Accounted == 1 .. shown \subseteq Queued \cup {hand} \cup Sent \cup gone

OrderInv == Aligned /\ HandInTurn /\ AtPosition /\ Accounted
StateInv == TypeInv /\ ThreadInv /\ DrainedInv /\ OrderInv

-----------------------------------------------------------------------------
(* The ring and the list of what was delivered *)

\* The slots of the ring, for at most one turn.
LEMMA Turn ==
  ASSUME NEW n \in Nat \ {0}, NEW k \in 0 .. 2 * n - 1
  PROVE  k % n = IF k < n THEN k ELSE k - n
<1>1. k % n \in 0 .. n - 1 /\ k \div n \in Int /\ k = n * (k \div n) + (k % n)
  OBVIOUS
<1>2. PICK q \in Int, r \in 0 .. n - 1 : k = n * q + r /\ r = k % n
  BY <1>1
<1>3. q >= 2 => n * q >= 2 * n
  OBVIOUS
<1>4. q <= -1 => n * q <= -n
  OBVIOUS
<1>5. q \in {0, 1}
  BY <1>2, <1>3, <1>4
<1>6. CASE q = 0
  BY <1>2, <1>6
<1>7. CASE q = 1
  BY <1>2, <1>7
<1> QED BY <1>5, <1>6, <1>7

LEMMA TurnOfRing ==
  ASSUME NEW n \in Nat, NEW p \in 0 .. n, NEW i \in 0 .. n + 1
  PROVE  (p + i) % (n + 1) = IF p + i <= n THEN p + i ELSE p + i - n - 1
<1> DEFINE W == n + 1
           k == p + i
<1>1. W \in Nat \ {0} /\ k \in 0 .. 2 * W - 1 /\ n = W - 1 /\ k \in Int
  OBVIOUS
<1> HIDE DEF W, k
<1>2. k % W = IF k < W THEN k ELSE k - W
  BY <1>1, Turn
<1>3. k % W = IF k <= n THEN k ELSE k - n - 1
  BY <1>1, <1>2
<1> QED BY <1>3 DEF W, k

LEMMA AheadInRing ==
  ASSUME TypeInv
  PROVE  /\ After(m_FrameQueuePos) \in 0 .. m_FrameQueueSize
         /\ \A i \in 0 .. m_FrameQueueSize : Ahead(i) \in 0 .. m_FrameQueueSize
         /\ \A i \in 0 .. m_FrameQueueSize : i > 0 => Ahead(i) # m_FrameQueuePos
         /\ \A s \in 0 .. m_FrameQueueSize : \E i \in 0 .. m_FrameQueueSize : s = Ahead(i)
<1>1. m_FrameQueueSize \in Nat /\ m_FrameQueuePos \in 0 .. m_FrameQueueSize
  BY QueueAssumption DEF TypeInv
<1>2. \A i \in 0 .. m_FrameQueueSize + 1 :
        Ahead(i) = IF m_FrameQueuePos + i <= m_FrameQueueSize THEN m_FrameQueuePos + i
                   ELSE m_FrameQueuePos + i - m_FrameQueueSize - 1
  BY <1>1, TurnOfRing DEF Ahead
<1>3. ASSUME NEW s \in 0 .. m_FrameQueueSize
      PROVE  \E i \in 0 .. m_FrameQueueSize : s = Ahead(i)
  <2>1. CASE s >= m_FrameQueuePos
    <3>1. s - m_FrameQueuePos \in 0 .. m_FrameQueueSize /\ Ahead(s - m_FrameQueuePos) = s
      BY <1>1, <1>2, <2>1
    <3> QED BY <3>1
  <2>2. CASE s < m_FrameQueuePos
    <3>1. /\ s - m_FrameQueuePos + m_FrameQueueSize + 1 \in 0 .. m_FrameQueueSize
          /\ Ahead(s - m_FrameQueuePos + m_FrameQueueSize + 1) = s
      BY <1>1, <1>2, <2>2
    <3> QED BY <3>1
  <2> QED BY <1>1, <2>1, <2>2
<1>4. After(m_FrameQueuePos) = Ahead(1)
  BY DEF After, Ahead
<1>5. Ahead(1) \in 0 .. m_FrameQueueSize
  BY <1>1, <1>2
<1> QED BY <1>1, <1>2, <1>3, <1>4, <1>5

LEMMA SentAppend ==
  ASSUME NEW S, NEW s \in Seq(S), NEW f \in S
  PROVE  /\ Append(s, f) \in Seq(S)
         /\ ToSet(s) \in SUBSET S
         /\ ToSet(Append(s, f)) = ToSet(s) \cup {f}
<1>1. /\ Len(s) \in Nat /\ DOMAIN s = 1 .. Len(s)
      /\ DOMAIN Append(s, f) = 1 .. Len(s) + 1
      /\ \A i \in 1 .. Len(s) : Append(s, f)[i] = s[i] /\ s[i] \in S
      /\ Append(s, f)[Len(s) + 1] = f
  BY LenProperties
<1> QED BY <1>1 DEF ToSet

LEMMA SeqWidens ==
  ASSUME NEW m \in Nat, NEW n \in Nat, m <= n, NEW s \in Seq(1 .. m)
  PROVE  s \in Seq(1 .. n)
<1>1. Len(s) \in Nat /\ DOMAIN s = 1 .. Len(s) /\ s \in [1 .. Len(s) -> 1 .. m]
  BY LenProperties
<1>2. s \in [1 .. Len(s) -> 1 .. n]
  BY <1>1
<1> QED BY <1>1, <1>2, SeqDef

-----------------------------------------------------------------------------
(* The types *)

LEMMA QueuedShown ==
  ASSUME TypeInv
  PROVE  Queued \in SUBSET (1 .. shown)
BY DEF TypeInv, Queued

LEMMA ClearTypes ==
  ASSUME TypeInv, ClearFrameQueue
  PROVE  /\ m_FrameQueue' = Empty /\ Empty \in [Slots -> 0 .. shown]
         /\ \A s \in Slots : Empty[s] = 0
         /\ gone' \in SUBSET (1 .. shown)
<1>1. gone' = gone \cup (Queued \ Sent) /\ gone \in SUBSET (1 .. shown) /\ Queued \in SUBSET (1 .. shown)
  BY QueuedShown DEF ClearFrameQueue, TypeInv
<1>2. shown \in Nat
  BY QueueAssumption DEF TypeInv
<1>3. Empty \in [Slots -> 0 .. shown] /\ \A s \in Slots : Empty[s] = 0
  BY <1>2 DEF Empty
<1>4. m_FrameQueue' = Empty
  BY DEF ClearFrameQueue
<1>5. gone' \in SUBSET (1 .. shown)
  BY <1>1
<1> QED BY <1>3, <1>4, <1>5

\* A frame more is displayed.
LEMMA ShownTypes ==
  ASSUME TypeInv, shown < MaxFrames
  PROVE  /\ shown + 1 \in 1 .. MaxFrames
         /\ hand \in 0 .. shown + 1
         /\ m_FrameQueue \in [Slots -> 0 .. shown + 1]
         /\ sent \in Seq(1 .. shown + 1)
         /\ gone \in SUBSET (1 .. shown + 1)
<1>1. shown \in Nat /\ MaxFrames \in Nat
  BY QueueAssumption DEF TypeInv
<1>2. sent \in Seq(1 .. shown + 1)
  BY <1>1, SeqWidens DEF TypeInv
<1> QED BY <1>1, <1>2 DEF TypeInv

\* The frame in hand is delivered or given up.
LEMMA HandTypes ==
  ASSUME TypeInv, pc \in {"deliver", "flushDeliver"}
  PROVE  Append(sent, hand) \in Seq(1 .. shown) /\ gone \cup {hand} \in SUBSET (1 .. shown)
<1>1. hand \in 1 .. shown
  BY DEF TypeInv
<1> QED BY <1>1, SentAppend DEF TypeInv

LEMMA TypeStep ==
  ASSUME TypeInv, ThreadInv, [Next]_vars
  PROVE  TypeInv'
<1>0. MAX_QUEUE_FRAMES \in Nat /\ MaxFrames \in Nat
  BY QueueAssumption
<1>1. CASE Receive \/ EndOfStream \/ TransformReturn \/ DeliverEndOfStream
  BY <1>1 DEF Receive, EndOfStream, TransformReturn, DeliverEndOfStream, TypeInv
<1>2. CASE BeginFlush \/ PinEndFlush \/ Stop \/ StopStreaming
  BY <1>2 DEF BeginFlush, PinEndFlush, Stop, StopStreaming, TypeInv
<1>3. CASE InitDecode \/ EndFlush \/ StartStreaming
  <2>1. ClearFrameQueue
    BY <1>3 DEF InitDecode, EndFlush, StartStreaming
  <2>2. UNCHANGED <<m_FrameQueueSize, NextPos, pc, hand, shown, sent>>
    BY <1>3 DEF InitDecode, EndFlush, StartStreaming
  <2>3. /\ ctl' \in {"idle", "flushing", "cleared", "overlapped", "stopping"}
        /\ running' \in BOOLEAN /\ m_bFlushing' \in BOOLEAN /\ eos' \in BOOLEAN
    BY <1>3 DEF InitDecode, EndFlush, StartStreaming, TypeInv
  <2>4. m_FrameQueuePos' \in 0 .. m_FrameQueueSize
    BY <1>0, <2>1 DEF ClearFrameQueue, TypeInv
  <2> QED BY <2>1, <2>2, <2>3, <2>4, ClearTypes DEF TypeInv
<1>4. CASE CompleteConnect
  <2>1. ClearFrameQueue /\ UNCHANGED <<NextPos, pc, hand, ctl, running, m_bFlushing, eos, shown, sent>>
    BY <1>4 DEF CompleteConnect
  <2>2. m_FrameQueueSize' \in 0 .. MAX_QUEUE_FRAMES /\ m_FrameQueuePos' = 0
    BY <1>4 DEF CompleteConnect, ClearFrameQueue
  <2>3. pc = "idle"
    BY <1>4 DEF CompleteConnect, ThreadInv
  <2>4. NextPos' = 0
    BY <2>1, <2>3 DEF TypeInv
  <2> QED BY <1>0, <2>1, <2>2, <2>3, <2>4, ClearTypes DEF TypeInv
<1>5. CASE ShowNow
  <2>1. /\ shown' = shown + 1 /\ shown' \in 0 .. MaxFrames /\ shown' \in Nat
        /\ UNCHANGED <<m_FrameQueueSize, m_FrameQueue, m_FrameQueuePos, NextPos, ctl, running,
                       m_bFlushing, eos, sent>>
    BY <1>0, <1>5, ShownTypes DEF ShowNow, TypeInv
  <2>2. sent \in Seq(1 .. shown + 1) /\ m_FrameQueue \in [Slots -> 0 .. shown + 1]
    BY <1>5, ShownTypes DEF ShowNow
  <2>3. sent' \in Seq(1 .. shown') /\ m_FrameQueue' \in [Slots -> 0 .. shown']
    BY <2>1, <2>2
  <2>4. gone' \in SUBSET (1 .. shown')
    BY <1>0, <1>5, <2>1, ShownTypes DEF ShowNow
  <2>5. /\ pc' \in {"idle", "parse", "return", "deliver", "flush", "flushDeliver", "eos"}
        /\ hand' \in 0 .. shown'
        /\ pc' \in {"deliver", "flushDeliver"} <=> hand' # 0
        /\ pc' # "return" => NextPos = 0
    BY <1>0, <1>5, <2>1 DEF ShowNow, TypeInv
  <2> QED BY <2>1, <2>3, <2>4, <2>5 DEF TypeInv
<1>6. CASE StoreFrame
  <2>1. /\ shown' = shown + 1 /\ shown' \in 0 .. MaxFrames /\ shown' \in Nat /\ pc' = "return"
        /\ UNCHANGED <<m_FrameQueueSize, m_FrameQueuePos, hand, ctl, running, m_bFlushing, eos, sent>>
    BY <1>0, <1>6, ShownTypes DEF StoreFrame, TypeInv
  <2>2. NextPos' \in 0 .. m_FrameQueueSize
    BY <1>6, AheadInRing DEF StoreFrame
  <2>3. sent' \in Seq(1 .. shown') /\ hand' \in 0 .. shown' /\ hand' = 0
    <3>1. hand = 0
      BY <1>6 DEF StoreFrame, TypeInv
    <3> QED BY <1>6, <2>1, <3>1, ShownTypes DEF StoreFrame
  <2>4. m_FrameQueue' \in [Slots -> 0 .. shown']
    BY <1>6, <2>1, ShownTypes DEF StoreFrame
  <2>5. \A s \in Slots : s > m_FrameQueueSize \/ m_FrameQueueSize = 0 => m_FrameQueue'[s] = 0
    BY <1>6, <1>0 DEF StoreFrame, TypeInv, Slots
  <2>6. gone' \in SUBSET (1 .. shown')
    BY <1>6, <2>1, ShownTypes DEF StoreFrame
  <2> QED BY <2>1, <2>2, <2>3, <2>4, <2>5, <2>6 DEF TypeInv
<1>7. CASE ReturnFrame
  <2>1. NextPos \in Slots
    BY <1>0 DEF TypeInv, Slots
  <2>2. m_FrameQueue[NextPos] \in 0 .. shown
    BY <2>1 DEF TypeInv
  <2>3. /\ m_FrameQueuePos' = NextPos /\ NextPos' = 0 /\ NextPos \in 0 .. m_FrameQueueSize
        /\ UNCHANGED <<m_FrameQueueSize, m_FrameQueue, ctl, running, m_bFlushing, eos, shown, sent>>
    BY <1>7 DEF ReturnFrame, TypeInv
  <2>4. gone' \in SUBSET (1 .. shown)
    <3> DEFINE f == m_FrameQueue[NextPos]
    <3>1. gone \in SUBSET (1 .. shown) /\ shown \in Nat /\ f \in 0 .. shown
      BY <1>0, <2>2 DEF TypeInv
    <3>2. gone' = gone \/ (f # 0 /\ gone' = gone \cup {f})
      BY <1>7 DEF ReturnFrame
    <3> HIDE DEF f
    <3>3. f # 0 => f \in 1 .. shown
      BY <3>1
    <3>4. CASE gone' = gone
      BY <3>1, <3>4
    <3>5. CASE f # 0 /\ gone' = gone \cup {f}
      BY <3>1, <3>3, <3>5
    <3> QED BY <3>2, <3>4, <3>5
  <2>5. hand' \in 0 .. shown /\ pc' \in {"parse", "deliver"} /\ (pc' = "deliver" <=> hand' # 0)
    <3>1. pc = "return" /\ hand = 0 /\ 0 \in 0 .. shown
      BY <1>0, <1>7 DEF ReturnFrame, TypeInv
    <3> QED BY <1>7, <2>2, <3>1 DEF ReturnFrame
  <2> QED BY <1>0, <2>3, <2>4, <2>5 DEF TypeInv
<1>8. CASE DeliverFrame \/ FlushDeliver
  <2>1. pc \in {"deliver", "flushDeliver"}
    BY <1>8 DEF DeliverFrame, FlushDeliver
  <2>2. /\ hand' = 0 /\ pc' \in {"parse", "idle", "flush", "eos"}
        /\ UNCHANGED <<m_FrameQueueSize, m_FrameQueue, m_FrameQueuePos, NextPos, ctl, running,
                       m_bFlushing, eos, shown>>
    BY <1>8 DEF DeliverFrame, FlushDeliver
  <2>3. gone' \in SUBSET (1 .. shown)
    BY <1>8, <2>1, HandTypes DEF DeliverFrame, FlushDeliver, TypeInv
  <2>4. sent' \in Seq(1 .. shown)
    BY <1>8, <2>1, HandTypes DEF DeliverFrame, FlushDeliver, TypeInv
  <2>5. NextPos = 0 /\ 0 \in 0 .. shown
    BY <1>0, <2>1 DEF TypeInv
  <2> QED BY <2>2, <2>3, <2>4, <2>5 DEF TypeInv
<1>9. CASE GetQueuedFrame
  <2>1. PICK i \in Waiting :
           LET frame == m_FrameQueue[Ahead(i)]
           IN  /\ m_FrameQueuePos' = Ahead(i)
               /\ m_FrameQueue' = [m_FrameQueue EXCEPT ![Ahead(i)] = 0]
               /\ \/ hand' = frame /\ pc' = "flushDeliver" /\ UNCHANGED gone
                  \/ gone' = gone \cup {frame} /\ UNCHANGED <<hand, pc>>
    BY <1>9 DEF GetQueuedFrame
  <2>2. i \in 0 .. m_FrameQueueSize /\ m_FrameQueue[Ahead(i)] # 0
    BY <1>0 DEF Waiting, TypeInv
  <2>3. Ahead(i) \in 0 .. m_FrameQueueSize /\ Ahead(i) \in Slots
    <3>1. Ahead(i) \in 0 .. m_FrameQueueSize
      BY <2>2, AheadInRing
    <3> QED BY <1>0, <3>1 DEF TypeInv, Slots
  <2> DEFINE p == Ahead(i)
  <2>4. /\ p \in 0 .. m_FrameQueueSize /\ p \in Slots /\ m_FrameQueue[p] # 0
        /\ m_FrameQueuePos' = p /\ m_FrameQueue' = [m_FrameQueue EXCEPT ![p] = 0]
        /\ \/ hand' = m_FrameQueue[p] /\ pc' = "flushDeliver" /\ UNCHANGED gone
           \/ gone' = gone \cup {m_FrameQueue[p]} /\ UNCHANGED <<hand, pc>>
    BY <2>1, <2>2, <2>3
  <2> HIDE DEF p
  <2>5. m_FrameQueue[p] \in 1 .. shown
    BY <1>0, <2>4 DEF TypeInv
  <2>6. /\ m_FrameQueue' \in [Slots -> 0 .. shown]
        /\ \A s \in Slots : s > m_FrameQueueSize \/ m_FrameQueueSize = 0 => m_FrameQueue'[s] = 0
    BY <1>0, <2>4 DEF TypeInv
  <2>7. /\ pc = "flush" /\ pc' \in {"flush", "flushDeliver"}
        /\ UNCHANGED <<m_FrameQueueSize, NextPos, ctl, running, m_bFlushing, eos, shown, sent>>
    BY <1>9, <2>4 DEF GetQueuedFrame
  <2>8. hand' \in 0 .. shown /\ (pc' = "flushDeliver" <=> hand' # 0)
    BY <1>0, <2>4, <2>5, <2>7 DEF TypeInv
  <2>9. gone' \in SUBSET (1 .. shown)
    BY <2>4, <2>5 DEF TypeInv
  <2> QED BY <2>4, <2>6, <2>7, <2>8, <2>9 DEF TypeInv
<1>10. CASE GetNoFrame
  <2>1. m_FrameQueuePos' \in 0 .. m_FrameQueueSize
    BY <1>0, <1>10, AheadInRing DEF GetNoFrame, TypeInv
  <2> QED BY <1>10, <2>1 DEF GetNoFrame, TypeInv
<1>11. CASE UNCHANGED vars
  BY <1>11 DEF vars, TypeInv
<1> QED BY <1>1, <1>2, <1>3, <1>4, <1>5, <1>6, <1>7, <1>8, <1>9, <1>10, <1>11 DEF Next, Streaming, Control

LEMMA ThreadStep ==
  ASSUME ThreadInv, [Next]_vars
  PROVE  ThreadInv'
<1> USE DEF ThreadInv
<1>1. CASE Receive \/ EndOfStream
  BY <1>1 DEF Receive, EndOfStream
<1>2. CASE Streaming
  BY <1>2 DEF Streaming, InitDecode, ShowNow, StoreFrame, ReturnFrame, DeliverFrame,
              TransformReturn, GetQueuedFrame, GetNoFrame, FlushDeliver, DeliverEndOfStream
<1>3. CASE Control
  BY <1>3 DEF Control, BeginFlush, EndFlush, PinEndFlush, Stop, StopStreaming, StartStreaming,
              CompleteConnect
<1>4. CASE UNCHANGED vars
  BY <1>4 DEF vars
<1> QED BY <1>1, <1>2, <1>3, <1>4 DEF Next

\* Nothing waits in an empty ring.
LEMMA EmptyWaits ==
  ASSUME TypeInv, m_FrameQueue = Empty
  PROVE  Waiting = {}
<1>1. \A i \in 1 .. m_FrameQueueSize : m_FrameQueue[Ahead(i)] = 0
  <2> TAKE i \in 1 .. m_FrameQueueSize
  <2>1. Ahead(i) \in 0 .. m_FrameQueueSize
    BY AheadInRing
  <2>2. Ahead(i) \in Slots
    BY <2>1, QueueAssumption DEF TypeInv, Slots
  <2> QED BY <2>2 DEF Empty
<1> QED BY <1>1 DEF Waiting

LEMMA DrainedStep ==
  ASSUME TypeInv, ThreadInv, DrainedInv, [Next]_vars
  PROVE  DrainedInv'
<1>1. CASE ClearFrameQueue
  <2>1. m_FrameQueue' = Empty'
    BY <1>1 DEF ClearFrameQueue, Empty, Slots
  <2> QED BY <2>1 DEF DrainedInv
<1>2. CASE UNCHANGED m_FrameQueue
  <2>1. Empty' = Empty
    BY DEF Empty, Slots
  <2>2. CASE Receive \/ EndOfStream
    BY <1>2, <2>1, <2>2 DEF Receive, EndOfStream, DrainedInv, ThreadInv
  <2>3. CASE Streaming
    BY <1>2, <2>1, <2>3 DEF DrainedInv, ThreadInv, Streaming, InitDecode, ShowNow, StoreFrame,
       ReturnFrame, DeliverFrame, TransformReturn, GetQueuedFrame, GetNoFrame, FlushDeliver,
       DeliverEndOfStream
  <2>4. CASE Control
    BY <1>2, <2>1, <2>4 DEF DrainedInv, ThreadInv, Control, ClearFrameQueue, BeginFlush, EndFlush,
       PinEndFlush, Stop, StopStreaming, StartStreaming, CompleteConnect
  <2>5. CASE UNCHANGED vars
    BY <2>1, <2>5 DEF DrainedInv, vars
  <2> QED BY <2>2, <2>3, <2>4, <2>5 DEF Next
<1>3. CASE StoreFrame
  BY <1>3 DEF StoreFrame, DrainedInv, ThreadInv
<1>4. CASE GetQueuedFrame
  <2>1. m_FrameQueue # Empty
    BY <1>4, EmptyWaits DEF GetQueuedFrame
  <2>2. pc = "flush" /\ UNCHANGED <<ctl, eos>> /\ pc' \in {"flush", "flushDeliver"}
    BY <1>4 DEF GetQueuedFrame
  <2> QED BY <2>1, <2>2 DEF DrainedInv, ThreadInv
<1>5. Next => ClearFrameQueue \/ UNCHANGED m_FrameQueue \/ StoreFrame \/ GetQueuedFrame
  BY DEF Next, Streaming, Control, Receive, EndOfStream, InitDecode, ShowNow, ReturnFrame,
     DeliverFrame, TransformReturn, GetNoFrame, FlushDeliver, DeliverEndOfStream, BeginFlush,
     EndFlush, PinEndFlush, Stop, StopStreaming, StartStreaming, CompleteConnect
<1> QED BY <1>1, <1>2, <1>3, <1>4, <1>5 DEF vars

-----------------------------------------------------------------------------
(* The order of the ring, and what becomes of each frame *)

LEMMA InRing ==
  ASSUME TypeInv
  PROVE  /\ Base \in 0 .. m_FrameQueueSize
         /\ m_FrameQueuePos \in Slots
         /\ \A i \in 0 .. m_FrameQueueSize : (Base + i) % Ring \in Slots
         /\ (Base + 0) % Ring = Base
         /\ Ahead(0) = m_FrameQueuePos
<1>1. m_FrameQueueSize \in Nat /\ Base \in 0 .. m_FrameQueueSize /\ m_FrameQueuePos \in 0 .. m_FrameQueueSize
  BY QueueAssumption DEF TypeInv, Base
<1>2. \A i \in 0 .. m_FrameQueueSize + 1 :
        (Base + i) % Ring = IF Base + i <= m_FrameQueueSize THEN Base + i ELSE Base + i - m_FrameQueueSize - 1
  BY <1>1, TurnOfRing DEF Ring
<1>3. (m_FrameQueuePos + 0) % Ring = m_FrameQueuePos
  <2> DEFINE n == m_FrameQueueSize
             p == m_FrameQueuePos
  <2>1. n \in Nat /\ p \in 0 .. n /\ 0 \in 0 .. n + 1
    BY <1>1
  <2> HIDE DEF n, p
  <2>2. (p + 0) % (n + 1) = IF p + 0 <= n THEN p + 0 ELSE p + 0 - n - 1
    BY <2>1, TurnOfRing
  <2>3. (p + 0) % (n + 1) = p
    BY <2>1, <2>2
  <2> QED BY <2>3 DEF n, p, Ring
<1>4. MAX_QUEUE_FRAMES \in Nat /\ m_FrameQueueSize <= MAX_QUEUE_FRAMES
  BY QueueAssumption DEF TypeInv
<1> QED BY <1>1, <1>2, <1>3, <1>4 DEF Slots, Ring, Ahead

LEMMA RingSlots ==
  ASSUME NEW m \in Nat, NEW n \in 0 .. m, NEW p \in 0 .. n
  PROVE  \A i \in 0 .. n : (p + i) % (n + 1) \in 0 .. m
<1> TAKE i \in 0 .. n
<1>1. (p + i) % (n + 1) = IF p + i <= n THEN p + i ELSE p + i - n - 1
  BY TurnOfRing
<1> QED BY <1>1

\* A ring without frames is in order.
LEMMA ZeroOrder ==
  ASSUME TypeInv', \A s \in Slots : m_FrameQueue'[s] = 0
  PROVE  Aligned' /\ AtPosition'
<1>1. Aligned'
  <2>1. MAX_QUEUE_FRAMES \in Nat /\ m_FrameQueueSize' \in 0 .. MAX_QUEUE_FRAMES /\ Base' \in 0 .. m_FrameQueueSize'
    BY QueueAssumption DEF TypeInv, Base
  <2>2. \A i \in 0 .. m_FrameQueueSize' : (Base' + i) % Ring' \in Slots
    BY <2>1, RingSlots DEF Ring, Slots
  <2> QED BY <2>2 DEF Aligned, InTurn, Slots
<1>2. AtPosition'
  <2>1. m_FrameQueuePos' \in Slots
    BY QueueAssumption DEF TypeInv, Slots
  <2> QED BY <2>1 DEF AtPosition
<1> QED BY <1>1, <1>2

\* ClearFrameQueue, whoever calls it.
LEMMA ClearOrder ==
  ASSUME StateInv, TypeInv', ClearFrameQueue, UNCHANGED <<pc, hand, shown, sent>>,
         m_FrameQueueSize' = m_FrameQueueSize \/ pc # "deliver"
  PROVE  OrderInv'
<1> USE DEF StateInv, OrderInv
<1>1. \A s \in Slots : m_FrameQueue'[s] = 0
  BY DEF ClearFrameQueue, Empty
<1>2. Aligned' /\ AtPosition'
  BY <1>1, ZeroOrder
<1>3. HandInTurn'
  BY DEF HandInTurn, Sent
<1>4. Accounted'
  BY DEF Accounted, ClearFrameQueue, Sent
<1> QED BY <1>2, <1>3, <1>4

\* A step that leaves ring and frames alone.
Still == UNCHANGED <<m_FrameQueueSize, m_FrameQueue, m_FrameQueuePos, NextPos, hand, shown, sent, gone>>

LEMMA StillOrder ==
  ASSUME StateInv, Still, pc' = pc \/ {pc, pc'} \cap {"return", "deliver"} = {},
         Feeding' => Feeding \/ m_FrameQueue = Empty
  PROVE  OrderInv'
<1> USE DEF StateInv, OrderInv, Still
<1>1. Base' = Base
  BY DEF Base
<1>2. Aligned
  OBVIOUS
<1>3. Feeding' => \A i \in 0 .. m_FrameQueueSize : InTurn(i)
  <2>1. m_FrameQueue = Empty => \A i \in 0 .. m_FrameQueueSize : InTurn(i)
    <3>1. m_FrameQueue = Empty => \A s \in Slots : m_FrameQueue[s] = 0
      BY DEF Empty
    <3> QED BY <3>1, InRing DEF InTurn
  <2> QED BY <1>2, <2>1 DEF Aligned
<1>4. \A i \in 0 .. m_FrameQueueSize : InTurn(i) => InTurn(i)'
  BY <1>1 DEF InTurn, Ring, Sent
<1>5. Aligned'
  BY <1>3, <1>4 DEF Aligned
<1>6. HandInTurn'
  BY DEF HandInTurn, Sent
<1>7. AtPosition'
  BY DEF AtPosition, Sent
<1>8. Accounted'
  BY DEF Accounted, Queued, Sent, Slots
<1> QED BY <1>5, <1>6, <1>7, <1>8

LEMMA StillSteps ==
  ASSUME StateInv,
         \/ Receive \/ EndOfStream \/ TransformReturn \/ DeliverEndOfStream
         \/ BeginFlush \/ PinEndFlush \/ Stop \/ StopStreaming \/ UNCHANGED vars
  PROVE  OrderInv'
<1>1. Still
  BY DEF Still, vars, Receive, EndOfStream, TransformReturn, DeliverEndOfStream, BeginFlush,
     PinEndFlush, Stop, StopStreaming
<1>2. pc' = pc \/ {pc, pc'} \cap {"return", "deliver"} = {}
  BY DEF vars, Receive, EndOfStream, TransformReturn, DeliverEndOfStream, BeginFlush, PinEndFlush,
     Stop, StopStreaming
<1>3. Feeding' => Feeding \/ m_FrameQueue = Empty
  BY DEF Feeding, StateInv, ThreadInv, DrainedInv, vars, Receive, EndOfStream, TransformReturn,
     DeliverEndOfStream, BeginFlush, PinEndFlush, Stop, StopStreaming
<1> QED BY <1>1, <1>2, <1>3, StillOrder

LEMMA SentShown ==
  ASSUME TypeInv
  PROVE  Sent \in SUBSET (1 .. shown) /\ \A s \in Slots : m_FrameQueue[s] \in 0 .. shown
<1>1. sent \in Seq(1 .. shown) /\ m_FrameQueue \in [Slots -> 0 .. shown]
  BY DEF TypeInv
<1>2. Len(sent) \in Nat /\ DOMAIN sent = 1 .. Len(sent) /\ \A i \in 1 .. Len(sent) : sent[i] \in 1 .. shown
  BY <1>1, LenProperties
<1> QED BY <1>1, <1>2 DEF Sent, ToSet

LEMMA ShowNowOrder ==
  ASSUME StateInv, TypeInv', ShowNow
  PROVE  OrderInv'
<1> USE DEF StateInv, OrderInv
<1>1. /\ pc = "parse" /\ m_FrameQueueSize = 0 /\ shown' = shown + 1 /\ shown \in Nat
      /\ UNCHANGED <<m_FrameQueueSize, m_FrameQueue, sent>> /\ hand = 0
  BY QueueAssumption DEF ShowNow, TypeInv
<1>2. \A s \in Slots : m_FrameQueue'[s] = 0
  BY <1>1 DEF TypeInv
<1>3. Aligned' /\ AtPosition'
  BY <1>2, ZeroOrder
<1>4. \/ hand' = shown + 1 /\ pc' = "deliver" /\ UNCHANGED gone
      \/ gone' = gone \cup {shown + 1} /\ UNCHANGED <<hand, pc>>
  BY DEF ShowNow
<1>5. HandInTurn'
  <2>1. Sent' = Sent /\ \A g \in Sent : g < shown + 1
    BY <1>1, SentShown DEF Sent
  <2> QED BY <1>1, <1>4, <2>1 DEF HandInTurn
<1>6. Accounted'
  <2>1. Queued' = Queued /\ Sent' = Sent
    BY <1>1 DEF Queued, Sent, Slots
  <2>2. 1 .. shown' = (1 .. shown) \cup {shown + 1}
    BY <1>1
  <2> QED BY <1>1, <1>4, <2>1, <2>2 DEF Accounted
<1> QED BY <1>3, <1>5, <1>6

\* The ring seen from the next slot: its last one is the one before.
LEMMA RingNext ==
  ASSUME NEW n \in Nat, NEW p \in 0 .. n, NEW i \in 0 .. n
  PROVE  /\ (((p + 1) % (n + 1)) + i) % (n + 1) = IF i < n THEN (p + (i + 1)) % (n + 1) ELSE p
         /\ i < n => (p + (i + 1)) % (n + 1) # p
<1>1. \A q \in 0 .. n, j \in 0 .. n + 1 :
        (q + j) % (n + 1) = IF q + j <= n THEN q + j ELSE q + j - n - 1
  BY TurnOfRing
<1> DEFINE b == (p + 1) % (n + 1)
<1>2. b = IF p + 1 <= n THEN p + 1 ELSE 0
  <2>1. 1 \in 0 .. n + 1
    OBVIOUS
  <2>2. (p + 1) % (n + 1) = IF p + 1 <= n THEN p + 1 ELSE p + 1 - n - 1
    BY <1>1, <2>1
  <2> QED BY <2>2
<1>3. b \in 0 .. n
  BY <1>2
<1> HIDE DEF b
<1>4. (b + i) % (n + 1) = IF b + i <= n THEN b + i ELSE b + i - n - 1
  BY <1>1, <1>3
<1>5. (p + (i + 1)) % (n + 1) = IF p + (i + 1) <= n THEN p + (i + 1) ELSE p + (i + 1) - n - 1
  <2> DEFINE j == i + 1
  <2>1. j \in 0 .. n + 1
    OBVIOUS
  <2> HIDE DEF j
  <2>2. (p + j) % (n + 1) = IF p + j <= n THEN p + j ELSE p + j - n - 1
    BY <1>1, <2>1
  <2> QED BY <2>2 DEF j
<1>6. (b + i) % (n + 1) = IF i < n THEN (p + (i + 1)) % (n + 1) ELSE p
  BY <1>2, <1>4, <1>5
<1>7. i < n => (p + (i + 1)) % (n + 1) # p
  BY <1>5
<1> QED BY <1>6, <1>7 DEF b

LEMMA StoreFrameOrder ==
  ASSUME StateInv, TypeInv', StoreFrame
  PROVE  OrderInv'
<1> USE DEF StateInv, OrderInv
<1> DEFINE n == m_FrameQueueSize
           p == m_FrameQueuePos
           At(i) == (p + i) % (n + 1)
<1>1. /\ pc = "parse" /\ pc' = "return" /\ shown' = shown + 1 /\ shown \in Nat
      /\ n \in Nat /\ p \in 0 .. n
      /\ m_FrameQueueSize' = n /\ NextPos' = (p + 1) % (n + 1)
      /\ UNCHANGED <<hand, sent>>
  BY QueueAssumption DEF StoreFrame, After, TypeInv
<1>2. Base = p /\ Base' = (p + 1) % (n + 1) /\ Ring = n + 1 /\ Ring' = n + 1 /\ Feeding
  BY <1>1 DEF Base, Ring, Feeding
<1>3. p \in Slots /\ \A i \in 0 .. n : At(i) \in Slots
  BY <1>2, InRing
<1>4. \/ m_FrameQueue' = [m_FrameQueue EXCEPT ![p] = shown + 1] /\ UNCHANGED gone
      \/ m_FrameQueue[p] = 0 /\ gone' = gone \cup {shown + 1} /\ UNCHANGED m_FrameQueue
  BY DEF StoreFrame
<1>5. /\ \A s \in Slots : s # p => m_FrameQueue'[s] = m_FrameQueue[s]
      /\ m_FrameQueue'[p] \in {0, shown + 1}
      /\ m_FrameQueue'[p] = shown + 1 \/ (m_FrameQueue[p] = 0 /\ shown + 1 \in gone')
      /\ gone \subseteq gone'
  BY <1>3, <1>4 DEF TypeInv
<1>6. Sent' = Sent /\ \A g \in Sent : g < shown + 1
  BY <1>1, SentShown DEF Sent
<1>7. ASSUME NEW i \in 0 .. n
      PROVE  InTurn(i)'
  <2>1. /\ (Base' + i) % Ring' = IF i < n THEN At(i + 1) ELSE p
        /\ i < n => At(i + 1) # p
    BY <1>1, <1>2, RingNext
  <2>2. CASE i < n
    <3>1. i + 1 \in 0 .. n /\ i + 1 > 0 /\ (Base + (i + 1)) % Ring = At(i + 1)
      BY <1>1, <1>2, <2>2
    <3>2. InTurn(i + 1)
      BY <1>2, <3>1 DEF Aligned
    <3> DEFINE f == m_FrameQueue[At(i + 1)]
    <3>3. f # 0 => f = shown - n + (i + 1) /\ \A g \in Sent : g < f
      BY <3>1, <3>2 DEF InTurn
    <3>4. m_FrameQueue'[(Base' + i) % Ring'] = f
      BY <1>3, <1>5, <2>1, <2>2, <3>1
    <3> HIDE DEF f, At
    <3>5. f # 0 => f = shown' - n + i
      BY <1>1, <3>3
    <3> QED BY <1>1, <1>6, <3>3, <3>4, <3>5 DEF InTurn
  <2>3. CASE i = n
    <3>1. m_FrameQueue'[(Base' + i) % Ring'] \in {0, shown + 1}
      BY <1>1, <1>5, <2>1, <2>3
    <3>2. shown + 1 = shown' - n + i
      BY <1>1, <2>3
    <3> QED BY <1>1, <1>6, <3>1, <3>2 DEF InTurn
  <2> QED BY <1>1, <2>2, <2>3
<1>8. Aligned'
  BY <1>1, <1>7 DEF Aligned
<1>9. HandInTurn' /\ AtPosition'
  BY <1>1 DEF HandInTurn, AtPosition
<1>10. Accounted'
  <2>1. m_FrameQueue[p] # 0 => m_FrameQueue[p] \in Sent \cup gone
    BY <1>1 DEF AtPosition
  <2>2. Queued \subseteq Queued' \cup Sent \cup gone
    BY <1>5, <2>1 DEF Queued, Slots
  <2>3. shown + 1 \in Queued' \cup gone'
    BY <1>1, <1>3, <1>5 DEF Queued, Slots
  <2>4. 1 .. shown' = (1 .. shown) \cup {shown + 1}
    BY <1>1
  <2> QED BY <1>1, <1>5, <1>6, <2>2, <2>3, <2>4 DEF Accounted
<1> QED BY <1>8, <1>9, <1>10

LEMMA ReturnFrameOrder ==
  ASSUME StateInv, TypeInv', ReturnFrame
  PROVE  OrderInv'
<1> USE DEF StateInv, OrderInv
<1> DEFINE f == m_FrameQueue[NextPos]
<1>1. /\ pc = "return" /\ pc' \in {"parse", "deliver"} /\ m_FrameQueuePos' = NextPos /\ hand = 0
      /\ UNCHANGED <<m_FrameQueueSize, m_FrameQueue, shown, sent>>
  BY DEF ReturnFrame, TypeInv
<1>2. \/ f # 0 /\ hand' = f /\ pc' = "deliver" /\ UNCHANGED gone
      \/ f # 0 /\ gone' = gone \cup {f} /\ pc' = "parse" /\ UNCHANGED hand
      \/ f = 0 /\ pc' = "parse" /\ UNCHANGED <<hand, gone>>
  BY DEF ReturnFrame
<1>3. Base = NextPos /\ Base' = Base /\ Ring' = Ring /\ Feeding /\ Sent' = Sent /\ Queued' = Queued
  BY <1>1 DEF Base, Ring, Feeding, Sent, Queued, Slots
<1>4. m_FrameQueueSize \in Nat /\ shown \in Nat
  BY QueueAssumption DEF TypeInv
<1>5. \A i \in 0 .. m_FrameQueueSize : InTurn(i)
  BY <1>3 DEF Aligned
<1>6. \A i \in 0 .. m_FrameQueueSize : InTurn(i)'
  BY <1>1, <1>3, <1>5 DEF InTurn
<1>7. f # 0 => f = shown - m_FrameQueueSize /\ \A g \in Sent : g < f
  <2>1. InTurn(0) /\ (Base + 0) % Ring = NextPos
    BY <1>3, <1>4, <1>5, InRing
  <2> QED BY <1>1, <1>4, <2>1 DEF InTurn
<1>8. Aligned'
  BY <1>1, <1>6 DEF Aligned
<1>9. HandInTurn'
  BY <1>1, <1>2, <1>3, <1>7 DEF HandInTurn
<1>10. AtPosition'
  BY <1>1, <1>2, <1>3 DEF AtPosition
<1>11. Accounted'
  BY <1>1, <1>2, <1>3 DEF Accounted
<1> QED BY <1>8, <1>9, <1>10, <1>11

LEMMA DeliverFrameOrder ==
  ASSUME StateInv, TypeInv', DeliverFrame \/ FlushDeliver
  PROVE  OrderInv'
<1> USE DEF StateInv, OrderInv
<1>1. /\ pc \in {"deliver", "flushDeliver"} /\ pc' \notin {"return", "deliver"} /\ hand' = 0
      /\ pc = "flushDeliver" => pc' \in {"flush", "eos"}
      /\ UNCHANGED <<m_FrameQueueSize, m_FrameQueue, m_FrameQueuePos, NextPos, shown>>
  BY DEF DeliverFrame, FlushDeliver
<1>2. \/ sent' = Append(sent, hand) /\ gone' = gone
      \/ gone' = gone \cup {hand} /\ sent' = sent
  BY DEF DeliverFrame, FlushDeliver
<1>3. ToSet(Append(sent, hand)) = ToSet(sent) \cup {hand}
  <2> DEFINE F == 1 .. shown
  <2>1. hand \in F /\ sent \in Seq(F)
    BY <1>1 DEF TypeInv
  <2> HIDE DEF F
  <2> QED BY <2>1, SentAppend
<1>4. Sent' \cup gone' = Sent \cup gone \cup {hand} /\ Sent' \subseteq Sent \cup {hand}
  BY <1>2, <1>3 DEF Sent
<1>5. m_FrameQueueSize \in Nat /\ shown \in Nat
  BY QueueAssumption DEF TypeInv
<1>6. Base' = Base /\ Ring' = Ring /\ Queued' = Queued
  BY <1>1 DEF Base, Ring, Queued, Slots
<1>7. ASSUME pc = "deliver", NEW i \in 0 .. m_FrameQueueSize
      PROVE  InTurn(i)'
  <2> DEFINE f == m_FrameQueue[(Base + i) % Ring]
  <2>1. InTurn(i)
    BY <1>7 DEF Aligned, Feeding
  <2>2. f # 0 => f = shown - m_FrameQueueSize + i /\ (i > 0 => \A g \in Sent : g < f)
    BY <2>1 DEF InTurn
  <2>3. hand = shown - m_FrameQueueSize
    BY <1>7 DEF HandInTurn
  <2>4. f' = f
    BY <1>1, <1>6
  <2> HIDE DEF f
  <2>5. f # 0 /\ i > 0 => hand < f
    BY <1>5, <2>2, <2>3
  <2>6. f # 0 => f = shown - m_FrameQueueSize + i /\ (i > 0 => \A g \in Sent' : g < f)
    BY <1>4, <2>2, <2>5
  <2> QED BY <1>1, <2>4, <2>6 DEF InTurn, f
<1>8. Aligned'
  BY <1>1, <1>7 DEF Aligned, Feeding
<1>9. HandInTurn'
  BY <1>1 DEF HandInTurn
<1>10. AtPosition'
  BY <1>1, <1>4 DEF AtPosition
<1>11. Accounted'
  BY <1>1, <1>4, <1>6 DEF Accounted
<1> QED BY <1>8, <1>9, <1>10, <1>11

LEMMA GetQueuedFrameOrder ==
  ASSUME StateInv, TypeInv', GetQueuedFrame
  PROVE  OrderInv'
<1> USE DEF StateInv, OrderInv
<1>1. PICK i \in Waiting :
         LET frame == m_FrameQueue[Ahead(i)]
         IN  /\ m_FrameQueuePos' = Ahead(i)
             /\ m_FrameQueue' = [m_FrameQueue EXCEPT ![Ahead(i)] = 0]
             /\ \/ hand' = frame /\ pc' = "flushDeliver" /\ UNCHANGED gone
                \/ gone' = gone \cup {frame} /\ UNCHANGED <<hand, pc>>
  BY DEF GetQueuedFrame
<1> DEFINE p == Ahead(i)
<1>2. /\ m_FrameQueuePos' = p /\ m_FrameQueue' = [m_FrameQueue EXCEPT ![p] = 0]
      /\ \/ hand' = m_FrameQueue[p] /\ pc' = "flushDeliver" /\ UNCHANGED gone
         \/ gone' = gone \cup {m_FrameQueue[p]} /\ UNCHANGED <<hand, pc>>
  BY <1>1
<1> HIDE DEF p
<1>3. pc = "flush" /\ UNCHANGED <<m_FrameQueueSize, shown, sent>> /\ hand = 0
  BY DEF GetQueuedFrame, TypeInv
<1>4. p \in Slots
  BY <1>2, QueueAssumption DEF TypeInv, Slots
<1>5. m_FrameQueue'[p] = 0 /\ \A s \in Slots : s # p => m_FrameQueue'[s] = m_FrameQueue[s]
  BY <1>2, <1>4 DEF TypeInv
<1>6. Aligned' /\ HandInTurn' /\ AtPosition'
  BY <1>2, <1>3, <1>5 DEF Aligned, Feeding, HandInTurn, AtPosition
<1>7. Queued \subseteq Queued' \cup {m_FrameQueue[p]}
  BY <1>5 DEF Queued, Slots
<1>8. Accounted'
  BY <1>2, <1>3, <1>7 DEF Accounted, Sent
<1> QED BY <1>6, <1>8

\* What GetQueuedFrame has looked at when it finds no frame.
LEMMA NoneWaiting ==
  ASSUME StateInv, pc = "flush", Waiting = {}
  PROVE  /\ \A i \in 1 .. m_FrameQueueSize : m_FrameQueue[Ahead(i)] = 0
         /\ Queued \subseteq Sent \cup gone
<1> USE DEF StateInv, OrderInv
<1>1. \A i \in 1 .. m_FrameQueueSize : m_FrameQueue[Ahead(i)] = 0
  BY DEF Waiting
<1>2. ASSUME NEW s \in Slots, m_FrameQueue[s] # 0
      PROVE  m_FrameQueue[s] \in Sent \cup gone
  <2>1. s \in 0 .. m_FrameQueueSize
    BY <1>2, QueueAssumption DEF TypeInv, Slots
  <2>2. PICK i \in 0 .. m_FrameQueueSize : s = Ahead(i)
    BY <2>1, AheadInRing
  <2>3. i \in Int /\ (i > 0 => i \in 1 .. m_FrameQueueSize)
    BY QueueAssumption DEF TypeInv
  <2>4. i = 0
    BY <1>1, <1>2, <2>2, <2>3
  <2>5. s = m_FrameQueuePos
    BY <2>2, <2>4, InRing
  <2> QED BY <1>2, <2>5 DEF AtPosition
<1> QED BY <1>1, <1>2 DEF Queued

LEMMA GetNoFrameOrder ==
  ASSUME StateInv, TypeInv', GetNoFrame
  PROVE  OrderInv'
<1> USE DEF StateInv, OrderInv
<1>1. /\ pc = "flush" /\ pc' = pc /\ Waiting = {} /\ m_FrameQueuePos' = Ahead(m_FrameQueueSize)
      /\ UNCHANGED <<m_FrameQueue, hand, shown, sent, gone>>
  BY DEF GetNoFrame
<1>2. Aligned' /\ HandInTurn'
  BY <1>1 DEF Aligned, Feeding, HandInTurn
<1>3. m_FrameQueue[m_FrameQueuePos'] # 0 => m_FrameQueue[m_FrameQueuePos'] \in Queued
  <2>1. m_FrameQueuePos' \in Slots
    BY QueueAssumption DEF TypeInv, Slots
  <2> QED BY <2>1 DEF Queued
<1>4. AtPosition'
  BY <1>1, <1>3, NoneWaiting DEF AtPosition, Sent
<1>5. Accounted'
  BY <1>1 DEF Accounted, Queued, Slots, Sent
<1> QED BY <1>2, <1>4, <1>5

-----------------------------------------------------------------------------
(* The theorems *)

LEMMA StateInit == Init => StateInv
<1> SUFFICES ASSUME Init
             PROVE  StateInv
  OBVIOUS
<1>1. MAX_QUEUE_FRAMES \in Nat /\ MaxFrames \in Nat
  BY QueueAssumption
<1>2. TypeInv
  <2>1. sent \in Seq(1 .. shown)
    BY DEF Init
  <2>2. /\ m_FrameQueueSize \in 0 .. MAX_QUEUE_FRAMES /\ m_FrameQueuePos \in 0 .. m_FrameQueueSize
        /\ NextPos \in 0 .. m_FrameQueueSize /\ shown \in 0 .. MaxFrames /\ hand \in 0 .. shown
        /\ gone \in SUBSET (1 .. shown)
    BY <1>1 DEF Init
  <2>3. m_FrameQueue \in [Slots -> 0 .. shown] /\ \A s \in Slots : m_FrameQueue[s] = 0
    BY DEF Init, Empty
  <2>4. running \in BOOLEAN /\ m_bFlushing \in BOOLEAN /\ eos \in BOOLEAN
    BY DEF Init
  <2>5. NextPos = 0 /\ pc = "idle" /\ ctl = "idle" /\ hand = 0
    BY DEF Init
  <2> QED BY <2>1, <2>2, <2>3, <2>4, <2>5 DEF TypeInv
<1>3. ThreadInv /\ DrainedInv
  BY DEF Init, ThreadInv, DrainedInv
<1>4. Aligned
  <2>1. \A s \in Slots : m_FrameQueue[s] = 0
    BY DEF Init, Empty
  <2> QED BY <1>2, <2>1, InRing DEF Aligned, InTurn
<1>5. HandInTurn /\ AtPosition /\ Accounted
  <2>1. m_FrameQueuePos \in Slots
    BY <1>2, InRing
  <2> QED BY <2>1 DEF Init, HandInTurn, AtPosition, Accounted, Empty
<1> QED BY <1>2, <1>3, <1>4, <1>5 DEF StateInv, OrderInv

LEMMA StateStep == StateInv /\ [Next]_vars => StateInv'
<1> SUFFICES ASSUME StateInv, [Next]_vars
             PROVE  StateInv'
  OBVIOUS
<1>1. TypeInv' /\ ThreadInv' /\ DrainedInv'
  BY TypeStep, ThreadStep, DrainedStep DEF StateInv
<1>2. OrderInv'
  <2>1. CASE \/ Receive \/ EndOfStream \/ TransformReturn \/ DeliverEndOfStream
             \/ BeginFlush \/ PinEndFlush \/ Stop \/ StopStreaming \/ UNCHANGED vars
    BY <2>1, StillSteps
  <2>2. CASE InitDecode \/ EndFlush \/ StartStreaming
    <3>1. ClearFrameQueue /\ UNCHANGED <<m_FrameQueueSize, pc, hand, shown, sent>>
      BY <2>2 DEF InitDecode, EndFlush, StartStreaming
    <3> QED BY <1>1, <3>1, ClearOrder
  <2>3. CASE CompleteConnect
    <3>1. ClearFrameQueue /\ pc # "deliver" /\ UNCHANGED <<pc, hand, shown, sent>>
      BY <2>3 DEF CompleteConnect, StateInv, ThreadInv
    <3> QED BY <1>1, <3>1, ClearOrder
  <2>4. CASE ShowNow
    BY <1>1, <2>4, ShowNowOrder
  <2>5. CASE StoreFrame
    BY <1>1, <2>5, StoreFrameOrder
  <2>6. CASE ReturnFrame
    BY <1>1, <2>6, ReturnFrameOrder
  <2>7. CASE DeliverFrame \/ FlushDeliver
    BY <1>1, <2>7, DeliverFrameOrder
  <2>8. CASE GetQueuedFrame
    BY <1>1, <2>8, GetQueuedFrameOrder
  <2>9. CASE GetNoFrame
    BY <1>1, <2>9, GetNoFrameOrder
  <2> QED BY <2>1, <2>2, <2>3, <2>4, <2>5, <2>6, <2>7, <2>8, <2>9 DEF Next, Streaming, Control
<1> QED BY <1>1, <1>2 DEF StateInv

\* The whole invariant of the two threads, the ring and the frames.
THEOREM Invariant == Spec => []StateInv
<1>1. StateInv /\ UNCHANGED vars => StateInv'
  BY StateStep
<1> QED BY StateInit, StateStep, PTL DEF Spec

\* GetDisplayFrame and GetQueuedFrame stay within the slots of the ring, and
\* every frame displayed is in it, in the hand of the streaming thread,
\* delivered, or was given up by a clear or an error.
THEOREM NoneForgottenCorrect == Spec => []NoneForgotten
<1>1. StateInv => NoneForgotten
  <2> SUFFICES ASSUME StateInv
               PROVE  NoneForgotten
    OBVIOUS
  <2>1. TypeInv /\ Accounted /\ MAX_QUEUE_FRAMES \in Nat /\ MaxFrames \in Nat
    BY QueueAssumption DEF StateInv, OrderInv
  <2>2. sent \in Seq(1 .. MaxFrames)
    <3>1. shown \in Nat /\ shown <= MaxFrames /\ sent \in Seq(1 .. shown)
      BY <2>1 DEF TypeInv
    <3> QED BY <2>1, <3>1, SeqWidens
  <2>3. /\ m_FrameQueue \in [Slots -> 0 .. MaxFrames] /\ gone \in SUBSET (1 .. MaxFrames)
        /\ hand \in 0 .. MaxFrames
    BY <2>1 DEF TypeInv
  <2>4. TypeOK
    BY <2>1, <2>2, <2>3 DEF TypeInv, TypeOK
  <2> QED BY <2>1, <2>4 DEF NoneForgotten, Accounted
<1> QED BY <1>1, Invariant, PTL

\* Transform delivers a frame when exactly m_FrameQueueSize later ones have been
\* displayed, and after every frame delivered before, over clears and errors.
THEOREM DelayedInOrderCorrect == Spec => []DelayedInOrder
<1>1. StateInv => DelayedInOrder
  BY DEF StateInv, OrderInv, HandInTurn, DelayedInOrder, DelayedByQueueSize, InOrder, Sent
<1> QED BY <1>1, Invariant, PTL

\* EndFlush that does not overlap a call of the source leaves no frame in the
\* queue until the pin lets Receive in again.
THEOREM FlushedEmptyCorrect == Spec => []FlushedEmpty
<1>1. StateInv => FlushedEmpty
  BY DEF StateInv, DrainedInv, FlushedEmpty, Queued, Empty
<1> QED BY <1>1, Invariant, PTL

\* The loop of FlushFrameQueue is told that the queue is empty only when every
\* frame displayed has been delivered or given up.
THEOREM FlushDrainsCorrect == Spec => FlushDrains
<1>1. StateInv => (GetNoFrame => 1 .. shown \subseteq Sent \cup gone)
  <2> SUFFICES ASSUME StateInv, GetNoFrame
               PROVE  1 .. shown \subseteq Sent \cup gone
    OBVIOUS
  <2>1. pc = "flush" /\ Waiting = {} /\ hand = 0 /\ 0 \notin 1 .. shown
    BY QueueAssumption DEF GetNoFrame, StateInv, TypeInv
  <2>2. Queued \subseteq Sent \cup gone
    BY <2>1, NoneWaiting
  <2> QED BY <2>1, <2>2 DEF StateInv, OrderInv, Accounted
<1> QED BY <1>1, Invariant, PTL DEF FlushDrains
=============================================================================
