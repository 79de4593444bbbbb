----------------------- MODULE OutputDelivery_proofs ------------------------
(***************************************************************************)
(* The safety of the delivery of pictures, for any number of sizes,        *)
(* samples and attempts. IInv adds to the properties what holds at the     *)
(* other places of DeliverFrame: which sample the thread holds there, how  *)
(* the type of the pin follows m_Dimensions, m_OutDimensions and the       *)
(* picture in hand, and how large the renderer's samples are.              *)
(***************************************************************************)
EXTENDS OutputDelivery, TLAPS

Asking == pc \in {"Reconnect", "Probe"}

Format == [size |-> pic.size, rate |-> IF pic.doubled THEN 2 ELSE 1]

\* What the thread holds, at each place.
SampleInv ==
  /\ SamplesGivenBack
  /\ pc \in {"Idle", "Reconnect", "Probe", "Get", "Get2"} => sample = None
  /\ pc \in {"First", "Field2", "Second"} => sample \in Samples
  /\ pc \in {"First", "Second"} => refs[sample] = {"filter"}

\* A connection over DXVA asks for nothing; one without attaches nothing.
ModeInv ==
  /\ attach => connect
  /\ connect => ~typed /\ ~Asking /\ unsettled \in {"no", "lost"} /\ mt.size = out

\* The format in hand, while a picture is.
PictureInv ==
  /\ pc # "Idle" => dims = pic.size
  /\ Asking => mt = Format
  /\ pc = "Probe" => known = mt /\ bytes = mt.size
  /\ unsettled = "no" \/ connect => (pc # "Idle" => mt = Format)

\* What the two sides have agreed on.
SettledInv ==
  unsettled = "no" /\ ~Asking
    => /\ mt.size = out
       /\ mt = known \/ attach
       /\ typed => known = mt
       /\ ~connect => bytes = mt.size

\* While both are active the allocator is committed.
CommitInv ==
  /\ CommittedWhileActive
  /\ pc = "Probe" /\ started /\ renderer = "Active" => committed

IInv == TypeOK /\ SampleInv /\ ModeInv /\ PictureInv /\ SettledInv /\ CommitInv

\* The types, in groups that the provers can handle.
FormatTypes ==
  /\ dims \in Sizes /\ out \in Sizes /\ orig \in Sizes /\ bytes \in Sizes
  /\ mt \in Formats /\ known \in Formats /\ pic \in [size : Sizes, doubled : BOOLEAN]

FlagTypes ==
  /\ connect \in BOOLEAN /\ attach \in BOOLEAN /\ started \in BOOLEAN
  /\ typed \in BOOLEAN /\ committed \in BOOLEAN

PlaceTypes ==
  /\ pc \in {"Idle", "Reconnect", "Probe", "Get", "First", "Field2", "Get2", "Second", "End"}
  /\ renderer \in {"Stopped", "Active"} /\ retry \in -1 .. Retries
  /\ unsettled \in {"no", "refused", "abandoned", "lost"}

SampleTypes ==
  /\ sample \in Samples \cup {None}
  /\ refs \in [Samples -> SUBSET {"filter", "renderer"}]

LEMMA TypeParts == TypeOK <=> FormatTypes /\ FlagTypes /\ PlaceTypes /\ SampleTypes
BY DEF TypeOK, FormatTypes, FlagTypes, PlaceTypes, SampleTypes

LEMMA TypePartsNext == TypeOK' <=> FormatTypes' /\ FlagTypes' /\ PlaceTypes' /\ SampleTypes'
BY DEF TypeOK, FormatTypes, FlagTypes, PlaceTypes, SampleTypes

-----------------------------------------------------------------------------
(* Initially *)

LEMMA InvInit == Init => IInv
<1> SUFFICES ASSUME Init PROVE IInv
  OBVIOUS
<1> USE OutputAssumption DEF Init
<1>1. 1 \in Sizes
  BY DEF Sizes
<1>2. FormatTypes
  BY <1>1 DEF FormatTypes, Formats
<1>3. FlagTypes
  BY DEF FlagTypes
<1>4. PlaceTypes
  BY DEF PlaceTypes
<1>5. SampleTypes
  BY DEF SampleTypes
<1>6. TypeOK
  BY <1>2, <1>3, <1>4, <1>5, TypeParts
<1>7. SampleInv
  BY DEF SampleInv, SamplesGivenBack
<1>8. ModeInv /\ PictureInv /\ SettledInv
  BY DEF ModeInv, PictureInv, SettledInv, Asking, Format
<1>9. CommitInv
  BY DEF CommitInv, CommittedWhileActive
<1> QED BY <1>6, <1>7, <1>8, <1>9 DEF IInv

-----------------------------------------------------------------------------
(* One lemma for each part, one step for each action *)

\* The types of the sizes and formats.
LEMMA FormatTypesNext ==
  ASSUME FormatTypes, [Next]_vars
  PROVE  FormatTypes'
<1> USE OutputAssumption DEF FormatTypes, Formats, filterVars, threadVars, rendererVars, poolVars
<1>1. CASE Pause
  BY <1>1 DEF Pause
<1>2. CASE Stop
  BY <1>2 DEF Stop
<1>3. CASE RendererPause
  BY <1>3 DEF RendererPause
<1>4. CASE RendererStop
  BY <1>4 DEF RendererStop
<1>5. ASSUME NEW size \in Sizes, ChangeInput(size) PROVE FormatTypes'
  BY <1>5 DEF ChangeInput
<1>6. ASSUME NEW size \in Sizes, NEW doubled \in BOOLEAN, Frame(size, doubled) PROVE FormatTypes'
  BY <1>6 DEF Frame, Wanted, FormatChanged
<1>7. ASSUME NEW s \in Samples, RendererReturns(s) PROVE FormatTypes'
  BY <1>7 DEF RendererReturns
<1>8. CASE Accepted
  BY <1>8 DEF Accepted, Outstanding
<1>9. CASE BuffersOutstanding
  BY <1>9 DEF BuffersOutstanding, Outstanding, FlushOwnPin, GiveUp
<1>10. CASE Refused
  BY <1>10 DEF Refused, Outstanding, GiveUp
<1>11. CASE Probe
  BY <1>11 DEF Probe, Free, Outstanding
<1>12. CASE ProbeFails
  BY <1>12 DEF ProbeFails
<1>13. CASE Get
  BY <1>13 DEF Get, Take, TakeType, Free, Outstanding
<1>14. CASE GetFails
  BY <1>14 DEF GetFails
<1>15. CASE FrameFails
  BY <1>15 DEF FrameFails, Released
<1>16. CASE First
  BY <1>16 DEF First, Deliver, Skipped, Received, Rejected, AfterFirst
<1>17. CASE SecondField
  BY <1>17 DEF SecondField, Released
<1>18. CASE GetSecond
  BY <1>18 DEF GetSecond, Take, TakeType, Free, Outstanding
<1>19. CASE GetSecondFails
  BY <1>19 DEF GetSecondFails
<1>20. CASE Second
  BY <1>20 DEF Second, Deliver, Skipped, Received, Rejected
<1>21. CASE DeliverEnd
  BY <1>21 DEF DeliverEnd, Released
<1>22. CASE UNCHANGED vars
  BY <1>22 DEF vars
<1> QED
  BY <1>1, <1>2, <1>3, <1>4, <1>5, <1>6, <1>7, <1>8, <1>9, <1>10, <1>11, <1>12, <1>13, <1>14, <1>15, <1>16, <1>17, <1>18, <1>19, <1>20, <1>21, <1>22 DEF Next, Thread

\* The types of the flags.
LEMMA FlagTypesNext ==
  ASSUME FlagTypes, [Next]_vars
  PROVE  FlagTypes'
<1> USE OutputAssumption DEF FlagTypes, filterVars, threadVars, rendererVars, poolVars
<1>1. CASE Pause
  BY <1>1 DEF Pause
<1>2. CASE Stop
  BY <1>2 DEF Stop
<1>3. CASE RendererPause
  BY <1>3 DEF RendererPause
<1>4. CASE RendererStop
  BY <1>4 DEF RendererStop
<1>5. ASSUME NEW size \in Sizes, ChangeInput(size) PROVE FlagTypes'
  BY <1>5 DEF ChangeInput
<1>6. ASSUME NEW size \in Sizes, NEW doubled \in BOOLEAN, Frame(size, doubled) PROVE FlagTypes'
  BY <1>6 DEF Frame, Wanted, FormatChanged
<1>7. ASSUME NEW s \in Samples, RendererReturns(s) PROVE FlagTypes'
  BY <1>7 DEF RendererReturns
<1>8. CASE Accepted
  BY <1>8 DEF Accepted, Outstanding
<1>9. CASE BuffersOutstanding
  BY <1>9 DEF BuffersOutstanding, Outstanding, FlushOwnPin, GiveUp
<1>10. CASE Refused
  BY <1>10 DEF Refused, Outstanding, GiveUp
<1>11. CASE Probe
  BY <1>11 DEF Probe, Free, Outstanding
<1>12. CASE ProbeFails
  BY <1>12 DEF ProbeFails
<1>13. CASE Get
  BY <1>13 DEF Get, Take, TakeType, Free, Outstanding
<1>14. CASE GetFails
  BY <1>14 DEF GetFails
<1>15. CASE FrameFails
  BY <1>15 DEF FrameFails, Released
<1>16. CASE First
  BY <1>16 DEF First, Deliver, Skipped, Received, Rejected, AfterFirst
<1>17. CASE SecondField
  BY <1>17 DEF SecondField, Released
<1>18. CASE GetSecond
  BY <1>18 DEF GetSecond, Take, TakeType, Free, Outstanding
<1>19. CASE GetSecondFails
  BY <1>19 DEF GetSecondFails
<1>20. CASE Second
  BY <1>20 DEF Second, Deliver, Skipped, Received, Rejected
<1>21. CASE DeliverEnd
  BY <1>21 DEF DeliverEnd, Released
<1>22. CASE UNCHANGED vars
  BY <1>22 DEF vars
<1> QED
  BY <1>1, <1>2, <1>3, <1>4, <1>5, <1>6, <1>7, <1>8, <1>9, <1>10, <1>11, <1>12, <1>13, <1>14, <1>15, <1>16, <1>17, <1>18, <1>19, <1>20, <1>21, <1>22 DEF Next, Thread

\* The types of the places and attempts.
LEMMA PlaceTypesNext ==
  ASSUME PlaceTypes, [Next]_vars
  PROVE  PlaceTypes'
<1> USE OutputAssumption DEF PlaceTypes, SampleTypes, filterVars, threadVars, rendererVars, poolVars
<1>1. CASE Pause
  BY <1>1 DEF Pause
<1>2. CASE Stop
  BY <1>2 DEF Stop
<1>3. CASE RendererPause
  BY <1>3 DEF RendererPause
<1>4. CASE RendererStop
  BY <1>4 DEF RendererStop
<1>5. ASSUME NEW size \in Sizes, ChangeInput(size) PROVE PlaceTypes'
  BY <1>5 DEF ChangeInput
<1>6. ASSUME NEW size \in Sizes, NEW doubled \in BOOLEAN, Frame(size, doubled) PROVE PlaceTypes'
  BY <1>6 DEF Frame, Wanted, FormatChanged
<1>7. ASSUME NEW s \in Samples, RendererReturns(s) PROVE PlaceTypes'
  BY <1>7 DEF RendererReturns
<1>8. CASE Accepted
  BY <1>8 DEF Accepted, Outstanding
<1>9. CASE BuffersOutstanding
  BY <1>9 DEF BuffersOutstanding, Outstanding, FlushOwnPin, GiveUp
<1>10. CASE Refused
  BY <1>10 DEF Refused, Outstanding, GiveUp
<1>11. CASE Probe
  BY <1>11 DEF Probe, Free, Outstanding
<1>12. CASE ProbeFails
  BY <1>12 DEF ProbeFails
<1>13. CASE Get
  BY <1>13 DEF Get, Take, TakeType, Free, Outstanding
<1>14. CASE GetFails
  BY <1>14 DEF GetFails
<1>15. CASE FrameFails
  BY <1>15 DEF FrameFails, Released
<1>16. CASE First
  BY <1>16 DEF First, Deliver, Skipped, Received, Rejected, AfterFirst
<1>17. CASE SecondField
  BY <1>17 DEF SecondField, Released
<1>18. CASE GetSecond
  BY <1>18 DEF GetSecond, Take, TakeType, Free, Outstanding
<1>19. CASE GetSecondFails
  BY <1>19 DEF GetSecondFails
<1>20. CASE Second
  BY <1>20 DEF Second, Deliver, Skipped, Received, Rejected
<1>21. CASE DeliverEnd
  BY <1>21 DEF DeliverEnd, Released
<1>22. CASE UNCHANGED vars
  BY <1>22 DEF vars
<1> QED
  BY <1>1, <1>2, <1>3, <1>4, <1>5, <1>6, <1>7, <1>8, <1>9, <1>10, <1>11, <1>12, <1>13, <1>14, <1>15, <1>16, <1>17, <1>18, <1>19, <1>20, <1>21, <1>22 DEF Next, Thread

\* The types of the samples.
LEMMA SampleTypesNext ==
  ASSUME SampleTypes, [Next]_vars
  PROVE  SampleTypes'
<1> USE OutputAssumption DEF SampleTypes, filterVars, threadVars, rendererVars, poolVars
<1>1. CASE Pause
  BY <1>1 DEF Pause
<1>2. CASE Stop
  BY <1>2 DEF Stop
<1>3. CASE RendererPause
  BY <1>3 DEF RendererPause
<1>4. CASE RendererStop
  BY <1>4 DEF RendererStop
<1>5. ASSUME NEW size \in Sizes, ChangeInput(size) PROVE SampleTypes'
  BY <1>5 DEF ChangeInput
<1>6. ASSUME NEW size \in Sizes, NEW doubled \in BOOLEAN, Frame(size, doubled) PROVE SampleTypes'
  BY <1>6 DEF Frame, Wanted, FormatChanged
<1>7. ASSUME NEW s \in Samples, RendererReturns(s) PROVE SampleTypes'
  BY <1>7 DEF RendererReturns
<1>8. CASE Accepted
  BY <1>8 DEF Accepted, Outstanding
<1>9. CASE BuffersOutstanding
  BY <1>9 DEF BuffersOutstanding, Outstanding, FlushOwnPin, GiveUp
<1>10. CASE Refused
  BY <1>10 DEF Refused, Outstanding, GiveUp
<1>11. CASE Probe
  BY <1>11 DEF Probe, Free, Outstanding
<1>12. CASE ProbeFails
  BY <1>12 DEF ProbeFails
<1>13. CASE Get
  BY <1>13 DEF Get, Take, TakeType, Free, Outstanding
<1>14. CASE GetFails
  BY <1>14 DEF GetFails
<1>15. CASE FrameFails
  BY <1>15 DEF FrameFails, Released
<1>16. CASE First
  BY <1>16 DEF First, Deliver, Skipped, Received, Rejected, AfterFirst
<1>17. CASE SecondField
  BY <1>17 DEF SecondField, Released
<1>18. CASE GetSecond
  BY <1>18 DEF GetSecond, Take, TakeType, Free, Outstanding
<1>19. CASE GetSecondFails
  BY <1>19 DEF GetSecondFails
<1>20. CASE Second
  BY <1>20 DEF Second, Deliver, Skipped, Received, Rejected
<1>21. CASE DeliverEnd
  BY <1>21 DEF DeliverEnd, Released
<1>22. CASE UNCHANGED vars
  BY <1>22 DEF vars
<1> QED
  BY <1>1, <1>2, <1>3, <1>4, <1>5, <1>6, <1>7, <1>8, <1>9, <1>10, <1>11, <1>12, <1>13, <1>14, <1>15, <1>16, <1>17, <1>18, <1>19, <1>20, <1>21, <1>22 DEF Next, Thread

LEMMA TypeNext ==
  ASSUME IInv, [Next]_vars
  PROVE  TypeOK'
BY TypeParts, TypePartsNext, FormatTypesNext, FlagTypesNext, PlaceTypesNext, SampleTypesNext DEF IInv

\* The thread takes at most one sample, and gives it back.
LEMMA SampleNext ==
  ASSUME IInv, [Next]_vars
  PROVE  SampleInv'
<1> USE OutputAssumption DEF IInv, TypeOK, SampleInv, SamplesGivenBack, filterVars, threadVars, rendererVars, poolVars
<1>1. CASE Pause
  BY <1>1 DEF Pause
<1>2. CASE Stop
  BY <1>2 DEF Stop
<1>3. CASE RendererPause
  BY <1>3 DEF RendererPause
<1>4. CASE RendererStop
  BY <1>4 DEF RendererStop
<1>5. ASSUME NEW size \in Sizes, ChangeInput(size) PROVE SampleInv'
  BY <1>5 DEF ChangeInput
<1>6. ASSUME NEW size \in Sizes, NEW doubled \in BOOLEAN, Frame(size, doubled) PROVE SampleInv'
  BY <1>6 DEF Frame, Wanted, FormatChanged
<1>7. ASSUME NEW s \in Samples, RendererReturns(s) PROVE SampleInv'
  BY <1>7 DEF RendererReturns
<1>8. CASE Accepted
  BY <1>8 DEF Accepted, Outstanding
<1>9. CASE BuffersOutstanding
  BY <1>9 DEF BuffersOutstanding, Outstanding, FlushOwnPin, GiveUp
<1>10. CASE Refused
  BY <1>10 DEF Refused, Outstanding, GiveUp
<1>11. CASE Probe
  BY <1>11 DEF Probe, Free, Outstanding
<1>12. CASE ProbeFails
  BY <1>12 DEF ProbeFails
<1>13. CASE Get
  BY <1>13 DEF Get, Take, TakeType, Free, Outstanding
<1>14. CASE GetFails
  BY <1>14 DEF GetFails
<1>15. CASE FrameFails
  BY <1>15 DEF FrameFails, Released
<1>16. CASE First
  BY <1>16 DEF First, Deliver, Skipped, Received, Rejected, AfterFirst
<1>17. CASE SecondField
  BY <1>17 DEF SecondField, Released
<1>18. CASE GetSecond
  BY <1>18 DEF GetSecond, Take, TakeType, Free, Outstanding
<1>19. CASE GetSecondFails
  BY <1>19 DEF GetSecondFails
<1>20. CASE Second
  BY <1>20 DEF Second, Deliver, Skipped, Received, Rejected
<1>21. CASE DeliverEnd
  BY <1>21 DEF DeliverEnd, Released
<1>22. CASE UNCHANGED vars
  BY <1>22 DEF vars
<1> QED
  BY <1>1, <1>2, <1>3, <1>4, <1>5, <1>6, <1>7, <1>8, <1>9, <1>10, <1>11, <1>12, <1>13, <1>14, <1>15, <1>16, <1>17, <1>18, <1>19, <1>20, <1>21, <1>22 DEF Next, Thread

\* Each kind of connection announces formats its own way.
LEMMA ModeNext ==
  ASSUME IInv, [Next]_vars
  PROVE  ModeInv'
<1> USE OutputAssumption DEF IInv, TypeOK, ModeInv, Asking, Sizes, Formats, filterVars, threadVars, rendererVars, poolVars
<1>1. CASE Pause
  BY <1>1 DEF Pause
<1>2. CASE Stop
  BY <1>2 DEF Stop
<1>3. CASE RendererPause
  BY <1>3 DEF RendererPause
<1>4. CASE RendererStop
  BY <1>4 DEF RendererStop
<1>5. ASSUME NEW size \in Sizes, ChangeInput(size) PROVE ModeInv'
  BY <1>5 DEF ChangeInput
<1>6. ASSUME NEW size \in Sizes, NEW doubled \in BOOLEAN, Frame(size, doubled) PROVE ModeInv'
  BY <1>6 DEF Frame, Wanted, FormatChanged
<1>7. ASSUME NEW s \in Samples, RendererReturns(s) PROVE ModeInv'
  BY <1>7 DEF RendererReturns
<1>8. CASE Accepted
  BY <1>8 DEF Accepted, Outstanding
<1>9. CASE BuffersOutstanding
  BY <1>9 DEF BuffersOutstanding, Outstanding, FlushOwnPin, GiveUp
<1>10. CASE Refused
  BY <1>10 DEF Refused, Outstanding, GiveUp
<1>11. CASE Probe
  BY <1>11 DEF Probe, Free, Outstanding
<1>12. CASE ProbeFails
  BY <1>12 DEF ProbeFails
<1>13. CASE Get
  BY <1>13 DEF Get, Take, TakeType, Free, Outstanding
<1>14. CASE GetFails
  BY <1>14 DEF GetFails
<1>15. CASE FrameFails
  BY <1>15 DEF FrameFails, Released
<1>16. CASE First
  BY <1>16 DEF First, Deliver, Skipped, Received, Rejected, AfterFirst
<1>17. CASE SecondField
  BY <1>17 DEF SecondField, Released
<1>18. CASE GetSecond
  BY <1>18 DEF GetSecond, Take, TakeType, Free, Outstanding
<1>19. CASE GetSecondFails
  BY <1>19 DEF GetSecondFails
<1>20. CASE Second
  BY <1>20 DEF Second, Deliver, Skipped, Received, Rejected
<1>21. CASE DeliverEnd
  BY <1>21 DEF DeliverEnd, Released
<1>22. CASE UNCHANGED vars
  BY <1>22 DEF vars
<1> QED
  BY <1>1, <1>2, <1>3, <1>4, <1>5, <1>6, <1>7, <1>8, <1>9, <1>10, <1>11, <1>12, <1>13, <1>14, <1>15, <1>16, <1>17, <1>18, <1>19, <1>20, <1>21, <1>22 DEF Next, Thread

\* The type of the pin follows the picture in hand.
LEMMA PictureNext ==
  ASSUME IInv, [Next]_vars
  PROVE  PictureInv'
<1> USE OutputAssumption DEF IInv, TypeOK, ModeInv, PictureInv, SettledInv, Asking, Format, Sizes, Formats, filterVars, threadVars, rendererVars, poolVars
<1>1. CASE Pause
  BY <1>1 DEF Pause
<1>2. CASE Stop
  BY <1>2 DEF Stop
<1>3. CASE RendererPause
  BY <1>3 DEF RendererPause
<1>4. CASE RendererStop
  BY <1>4 DEF RendererStop
<1>5. ASSUME NEW size \in Sizes, ChangeInput(size) PROVE PictureInv'
  BY <1>5 DEF ChangeInput
<1>6. ASSUME NEW size \in Sizes, NEW doubled \in BOOLEAN, Frame(size, doubled) PROVE PictureInv'
  BY <1>6 DEF Frame, Wanted, FormatChanged
<1>7. ASSUME NEW s \in Samples, RendererReturns(s) PROVE PictureInv'
  BY <1>7 DEF RendererReturns
<1>8. CASE Accepted
  BY <1>8 DEF Accepted, Outstanding
<1>9. CASE BuffersOutstanding
  BY <1>9 DEF BuffersOutstanding, Outstanding, FlushOwnPin, GiveUp
<1>10. CASE Refused
  BY <1>10 DEF Refused, Outstanding, GiveUp
<1>11. CASE Probe
  BY <1>11 DEF Probe, Free, Outstanding
<1>12. CASE ProbeFails
  BY <1>12 DEF ProbeFails
<1>13. CASE Get
  BY <1>13 DEF Get, Take, TakeType, Free, Outstanding
<1>14. CASE GetFails
  BY <1>14 DEF GetFails
<1>15. CASE FrameFails
  BY <1>15 DEF FrameFails, Released
<1>16. CASE First
  BY <1>16 DEF First, Deliver, Skipped, Received, Rejected, AfterFirst
<1>17. CASE SecondField
  BY <1>17 DEF SecondField, Released
<1>18. CASE GetSecond
  BY <1>18 DEF GetSecond, Take, TakeType, Free, Outstanding
<1>19. CASE GetSecondFails
  BY <1>19 DEF GetSecondFails
<1>20. CASE Second
  BY <1>20 DEF Second, Deliver, Skipped, Received, Rejected
<1>21. CASE DeliverEnd
  BY <1>21 DEF DeliverEnd, Released
<1>22. CASE UNCHANGED vars
  BY <1>22 DEF vars
<1> QED
  BY <1>1, <1>2, <1>3, <1>4, <1>5, <1>6, <1>7, <1>8, <1>9, <1>10, <1>11, <1>12, <1>13, <1>14, <1>15, <1>16, <1>17, <1>18, <1>19, <1>20, <1>21, <1>22 DEF Next, Thread

\* What was agreed stays agreed.
LEMMA SettledNext ==
  ASSUME IInv, [Next]_vars
  PROVE  SettledInv'
<1> USE OutputAssumption DEF IInv, TypeOK, ModeInv, PictureInv, SettledInv, Asking, Format, Sizes, Formats, filterVars, threadVars, rendererVars, poolVars
<1>1. CASE Pause
  BY <1>1 DEF Pause
<1>2. CASE Stop
  BY <1>2 DEF Stop
<1>3. CASE RendererPause
  BY <1>3 DEF RendererPause
<1>4. CASE RendererStop
  BY <1>4 DEF RendererStop
<1>5. ASSUME NEW size \in Sizes, ChangeInput(size) PROVE SettledInv'
  BY <1>5 DEF ChangeInput
<1>6. ASSUME NEW size \in Sizes, NEW doubled \in BOOLEAN, Frame(size, doubled) PROVE SettledInv'
  BY <1>6 DEF Frame, Wanted, FormatChanged
<1>7. ASSUME NEW s \in Samples, RendererReturns(s) PROVE SettledInv'
  BY <1>7 DEF RendererReturns
<1>8. CASE Accepted
  BY <1>8 DEF Accepted, Outstanding
<1>9. CASE BuffersOutstanding
  BY <1>9 DEF BuffersOutstanding, Outstanding, FlushOwnPin, GiveUp
<1>10. CASE Refused
  BY <1>10 DEF Refused, Outstanding, GiveUp
<1>11. CASE Probe
  BY <1>11 DEF Probe, Free, Outstanding
<1>12. CASE ProbeFails
  BY <1>12 DEF ProbeFails
<1>13. CASE Get
  BY <1>13 DEF Get, Take, TakeType, Free, Outstanding
<1>14. CASE GetFails
  BY <1>14 DEF GetFails
<1>15. CASE FrameFails
  BY <1>15 DEF FrameFails, Released
<1>16. CASE First
  BY <1>16 DEF First, Deliver, Skipped, Received, Rejected, AfterFirst
<1>17. CASE SecondField
  BY <1>17 DEF SecondField, Released
<1>18. CASE GetSecond
  BY <1>18 DEF GetSecond, Take, TakeType, Free, Outstanding
<1>19. CASE GetSecondFails
  BY <1>19 DEF GetSecondFails
<1>20. CASE Second
  BY <1>20 DEF Second, Deliver, Skipped, Received, Rejected
<1>21. CASE DeliverEnd
  BY <1>21 DEF DeliverEnd, Released
<1>22. CASE UNCHANGED vars
  BY <1>22 DEF vars
<1> QED
  BY <1>1, <1>2, <1>3, <1>4, <1>5, <1>6, <1>7, <1>8, <1>9, <1>10, <1>11, <1>12, <1>13, <1>14, <1>15, <1>16, <1>17, <1>18, <1>19, <1>20, <1>21, <1>22 DEF Next, Thread

\* The allocator is committed whenever both sides become active.
LEMMA CommitNext ==
  ASSUME IInv, [Next]_vars
  PROVE  CommitInv'
<1> USE OutputAssumption DEF IInv, TypeOK, ModeInv, CommitInv, CommittedWhileActive, Asking, filterVars, threadVars, rendererVars, poolVars
<1>1. CASE Pause
  BY <1>1 DEF Pause
<1>2. CASE Stop
  BY <1>2 DEF Stop
<1>3. CASE RendererPause
  BY <1>3 DEF RendererPause
<1>4. CASE RendererStop
  BY <1>4 DEF RendererStop
<1>5. ASSUME NEW size \in Sizes, ChangeInput(size) PROVE CommitInv'
  BY <1>5 DEF ChangeInput
<1>6. ASSUME NEW size \in Sizes, NEW doubled \in BOOLEAN, Frame(size, doubled) PROVE CommitInv'
  BY <1>6 DEF Frame, Wanted, FormatChanged
<1>7. ASSUME NEW s \in Samples, RendererReturns(s) PROVE CommitInv'
  BY <1>7 DEF RendererReturns
<1>8. CASE Accepted
  BY <1>8 DEF Accepted, Outstanding
<1>9. CASE BuffersOutstanding
  BY <1>9 DEF BuffersOutstanding, Outstanding, FlushOwnPin, GiveUp
<1>10. CASE Refused
  BY <1>10 DEF Refused, Outstanding, GiveUp
<1>11. CASE Probe
  BY <1>11 DEF Probe, Free, Outstanding
<1>12. CASE ProbeFails
  BY <1>12 DEF ProbeFails
<1>13. CASE Get
  BY <1>13 DEF Get, Take, TakeType, Free, Outstanding
<1>14. CASE GetFails
  BY <1>14 DEF GetFails
<1>15. CASE FrameFails
  BY <1>15 DEF FrameFails, Released
<1>16. CASE First
  BY <1>16 DEF First, Deliver, Skipped, Received, Rejected, AfterFirst
<1>17. CASE SecondField
  BY <1>17 DEF SecondField, Released
<1>18. CASE GetSecond
  BY <1>18 DEF GetSecond, Take, TakeType, Free, Outstanding
<1>19. CASE GetSecondFails
  BY <1>19 DEF GetSecondFails
<1>20. CASE Second
  BY <1>20 DEF Second, Deliver, Skipped, Received, Rejected
<1>21. CASE DeliverEnd
  BY <1>21 DEF DeliverEnd, Released
<1>22. CASE UNCHANGED vars
  BY <1>22 DEF vars
<1> QED
  BY <1>1, <1>2, <1>3, <1>4, <1>5, <1>6, <1>7, <1>8, <1>9, <1>10, <1>11, <1>12, <1>13, <1>14, <1>15, <1>16, <1>17, <1>18, <1>19, <1>20, <1>21, <1>22 DEF Next, Thread

-----------------------------------------------------------------------------
(* The invariant *)

LEMMA Invariance == Spec => []IInv
<1>1. IInv /\ [Next]_vars => IInv'
  <2> SUFFICES ASSUME IInv, [Next]_vars PROVE IInv'
    OBVIOUS
  <2> QED BY TypeNext, SampleNext, ModeNext, PictureNext, SettledNext, CommitNext DEF IInv
<1> QED BY <1>1, InvInit, PTL DEF Spec

-----------------------------------------------------------------------------
(* The theorems *)

\* Every variable keeps its type, RetryTimeout its range.
THEOREM TypeCorrect == Spec => []TypeOK
<1>1. IInv => TypeOK
  BY DEF IInv
<1> QED BY <1>1, Invariance, PTL

\* A sample is filled in the format of the picture, which the renderer knows
\* or finds attached, unless ReconnectOutput recorded what was not agreed.
THEOREM FormatsAgree == Spec => []FormatAgreed
<1>1. IInv => FormatAgreed
  BY DEF IInv, PictureInv, SettledInv, Asking, Format, FormatAgreed, Filling
<1> QED BY <1>1, Invariance, PTL

\* What CopySampleBuffer writes has room in the sample, with that exception.
THEOREM CopiesFit == Spec => []CopyFits
<1>1. IInv => CopyFits
  <2> SUFFICES ASSUME IInv, Filling, ~connect, unsettled = "no"
               PROVE  bytes >= pic.size
    BY DEF CopyFits
  <2>1. bytes = mt.size /\ mt = Format
    BY DEF IInv, PictureInv, SettledInv, Asking, Filling
  <2>2. bytes = pic.size /\ pic.size \in Int
    BY <2>1 DEF Format, IInv, TypeOK, Sizes
  <2> QED BY <2>2
<1> QED BY <1>1, Invariance, PTL

\* No sample is filled while the renderer holds it.
THEOREM NothingOverwritten == Spec => []NotOverwritten
<1>1. IInv => NotOverwritten
  BY OutputAssumption DEF IInv, SampleInv, NotOverwritten, Filling
<1> QED BY <1>1, Invariance, PTL

\* Every path through DeliverFrame gives its sample back.
THEOREM SamplesReturn == Spec => []SamplesGivenBack
<1>1. IInv => SamplesGivenBack
  BY DEF IInv, SampleInv
<1> QED BY <1>1, Invariance, PTL

\* While both filters are active the allocator is decommitted only within
\* ReconnectOutput or after a connection it has given up.
THEOREM CommittedWhenActive == Spec => []CommittedWhileActive
<1>1. IInv => CommittedWhileActive
  BY DEF IInv, CommitInv
<1> QED BY <1>1, Invariance, PTL

\* What DeliverFrame writes into a sample is what was agreed, and has room.
THEOREM SamplesFilled == Spec => []FilledAsAgreed
<1>1. FormatAgreed /\ CopyFits => FilledAsAgreed
  BY DEF FilledAsAgreed
<1> QED BY <1>1, FormatsAgree, CopiesFit, PTL

\* A sample is the filter's or the renderer's, never both while it is filled,
\* and the filter keeps none.
THEOREM SamplesChangeHands == Spec => []SamplesInOneHand
<1>1. NotOverwritten /\ SamplesGivenBack => SamplesInOneHand
  BY DEF SamplesInOneHand
<1> QED BY <1>1, NothingOverwritten, SamplesReturn, PTL
=============================================================================
