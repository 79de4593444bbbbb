----------------------- MODULE SampleAllocator_proofs -----------------------
(***************************************************************************)
(* The safety of CBaseAllocator for any number of threads and samples.     *)
(***************************************************************************)
EXTENDS SampleAllocator, FiniteSetTheorems, TLAPS

IInv ==
  /\ TypeOK
  /\ SamplesAccounted
  /\ DecommitPending
  /\ KeptAsAgreed
  /\ RefsCounted
  /\ LazySignalling
  /\ SurfacesReturned
  /\ ListEmptyAtEnd

\* The types of the numbers and sets, and of the flags.
Numbers ==
  /\ m_lAllocated \in 0 .. MaxCount /\ m_lCount \in 0 .. MaxCount
  /\ releasing \in 0 .. MaxReleasing
  /\ m_hSem \in Nat /\ m_lWaiting \in Nat /\ m_cRef \in Nat
  /\ m_lFree \subseteq 1 .. MaxCount /\ held \subseteq 1 .. MaxCount

Flags ==
  /\ kind \in Kinds
  /\ pc \in [Threads -> {"idle", "get", "wait"}]
  /\ m_bChanged \in BOOLEAN /\ m_bCommitted \in BOOLEAN /\ m_bDecommitInProgress \in BOOLEAN
  /\ owner \in BOOLEAN

LEMMA TypeParts == TypeOK <=> Numbers /\ Flags
BY DEF TypeOK, Numbers, Flags

LEMMA TypePartsNext == TypeOK' <=> Numbers' /\ Flags'
BY DEF TypeOK, Numbers, Flags

-----------------------------------------------------------------------------
(* Counting *)

\* Numbers of samples.
LEMMA CountTo ==
  ASSUME NEW n \in Nat
  PROVE  IsFiniteSet(1 .. n) /\ Cardinality(1 .. n) = n
BY FS_Interval

\* The free list is complete exactly when nothing is out: what the tests of
\* GetCount against m_lAllocated decide.
LEMMA FreeCount ==
  ASSUME NEW n \in Nat, NEW S, NEW T, S \cap T = {}, S \cup T = 1 .. n
  PROVE  /\ Cardinality(S) \in Nat
         /\ Cardinality(S) <= n
         /\ Cardinality(S) = n <=> T = {}
<1>1. IsFiniteSet(1 .. n) /\ Cardinality(1 .. n) = n
  BY CountTo
<1>2. S \subseteq 1 .. n
  OBVIOUS
<1>3. IsFiniteSet(S) /\ Cardinality(S) <= n /\ (Cardinality(S) = n => S = 1 .. n)
  BY <1>1, <1>2, FS_Subset
<1>4. Cardinality(S) \in Nat
  BY <1>3, FS_CardinalityType
<1>5. Cardinality(S) = n => T = {}
  BY <1>3
<1>6. T = {} => Cardinality(S) = n
  BY <1>1
<1> QED BY <1>3, <1>4, <1>5, <1>6

\* A thread starts or stops waiting.
LEMMA WaitersFinite == IsFiniteSet(Waiters) /\ Cardinality(Waiters) \in Nat
BY AllocatorAssumption, FS_Subset, FS_CardinalityType DEF Waiters

LEMMA WaitersSame ==
  ASSUME pc \in [Threads -> {"idle", "get", "wait"}],
         NEW t \in Threads, pc[t] # "wait", NEW v \in {"idle", "get"},
         pc' = [pc EXCEPT ![t] = v]
  PROVE  Waiters' = Waiters
BY DEF Waiters

LEMMA WaitersMore ==
  ASSUME pc \in [Threads -> {"idle", "get", "wait"}],
         NEW t \in Threads, pc[t] # "wait", pc' = [pc EXCEPT ![t] = "wait"]
  PROVE  Cardinality(Waiters') = Cardinality(Waiters) + 1
<1>1. Waiters' = Waiters \cup {t} /\ t \notin Waiters
  BY DEF Waiters
<1> QED BY <1>1, WaitersFinite, FS_AddElement

LEMMA WaitersFewer ==
  ASSUME pc \in [Threads -> {"idle", "get", "wait"}],
         NEW t \in Threads, pc[t] = "wait", pc' = [pc EXCEPT ![t] = "get"]
  PROVE  Cardinality(Waiters') = Cardinality(Waiters) - 1
<1>1. Waiters' = Waiters \ {t} /\ t \in Waiters
  BY DEF Waiters
<1> QED BY <1>1, WaitersFinite, FS_RemoveElement

-----------------------------------------------------------------------------
(* The invariant *)

LEMMA InvInit == Init => IInv
<1> SUFFICES ASSUME Init PROVE IInv
  OBVIOUS
<1>1. TypeOK
  <2>1. Numbers
    BY AllocatorAssumption DEF Init, Numbers
  <2>2. Flags
    BY DEF Init, Flags
  <2> QED BY <2>1, <2>2, TypeParts
<1>2. SamplesAccounted /\ DecommitPending /\ KeptAsAgreed /\ RefsCounted
  BY DEF Init, SamplesAccounted, DecommitPending, KeptAsAgreed, RefsCounted
<1>3. Waiters = {}
  BY DEF Init, Waiters
<1>4. Cardinality(Waiters) = 0
  BY <1>3, FS_EmptySet
<1>5. LazySignalling
  BY <1>4 DEF Init, LazySignalling
<1>6. SurfacesReturned /\ ListEmptyAtEnd
  BY DEF Init, SurfacesReturned, ListEmptyAtEnd
<1> QED BY <1>1, <1>2, <1>5, <1>6 DEF IInv

\* Steps that leave the samples alone.
LEMMA KeepSamples ==
  ASSUME SamplesAccounted, UNCHANGED <<held, m_lFree, m_lAllocated>>
  PROVE  SamplesAccounted'
BY DEF SamplesAccounted

LEMMA KeepSignals ==
  ASSUME LazySignalling, UNCHANGED <<pc, m_bCommitted, m_lFree, signalVars>>
  PROVE  LazySignalling'
BY DEF LazySignalling, signalVars, Waiters

\* NotifySample turns what is waited for into signals.
LEMMA Notified ==
  ASSUME TypeOK, LazySignalling, NotifySample, UNCHANGED pc
  PROVE  /\ LazySignalling'
         /\ m_hSem' \in Nat /\ m_lWaiting' \in Nat
<1>1. Waiters' = Waiters
  BY DEF Waiters
<1> QED BY <1>1, WaitersFinite DEF TypeOK, LazySignalling, NotifySample

\* While nothing can be had, no thread is waiting for a signal to be sent.
LEMMA QuietSignals ==
  ASSUME TypeOK, LazySignalling, m_lWaiting = 0, UNCHANGED <<pc, signalVars>>
  PROVE  LazySignalling'
BY DEF LazySignalling, signalVars, Waiters

\* Built(c) creates samples that are all free.
LEMMA BuiltFree ==
  ASSUME NEW c \in 0 .. MaxCount, Built(c)
  PROVE  /\ m_lAllocated' \in 0 .. MaxCount
         /\ m_lFree' \subseteq 1 .. MaxCount
         /\ held' = {} => SamplesAccounted'
BY AllocatorAssumption DEF Built, SamplesAccounted

LEMMA InvSetProperties ==
  ASSUME IInv, NEW c \in 0 .. MaxCount, SetProperties(c)
  PROVE  IInv'
<1> USE DEF IInv, SetProperties
<1>1. TypeOK'
  BY DEF TypeOK, stateVars, signalVars, refVars
<1>2. SamplesAccounted'
  BY KeepSamples
<1>3. held = {}
  BY FreeCount DEF SamplesAccounted, TypeOK
<1>4. DecommitPending' /\ KeptAsAgreed' /\ RefsCounted'
  BY <1>3 DEF DecommitPending, KeptAsAgreed, RefsCounted, stateVars, refVars
<1>5. LazySignalling'
  BY KeepSignals DEF stateVars
<1>6. SurfacesReturned' /\ ListEmptyAtEnd'
  BY DEF SurfacesReturned, ListEmptyAtEnd, stateVars, refVars
<1> QED BY <1>1, <1>2, <1>4, <1>5, <1>6

LEMMA InvCommitCancels == IInv /\ CommitCancels => IInv'
<1> SUFFICES ASSUME IInv, CommitCancels PROVE IInv'
  OBVIOUS
<1> USE DEF IInv, CommitCancels, poolVars, refVars
<1>1. TypeOK'
  BY DEF TypeOK, signalVars
<1>2. SamplesAccounted'
  BY KeepSamples
<1>3. DecommitPending' /\ KeptAsAgreed' /\ RefsCounted'
  BY DEF DecommitPending, KeptAsAgreed, RefsCounted
<1>4. LazySignalling'
  BY QuietSignals DEF LazySignalling
<1>5. SurfacesReturned' /\ ListEmptyAtEnd'
  BY DEF SurfacesReturned, ListEmptyAtEnd
<1> QED BY <1>1, <1>2, <1>3, <1>4, <1>5

\* Whether Alloc succeeds or not: there are samples, as agreed or fewer, and
\* all are free.
LEMMA InvCommitAllocs == IInv /\ CommitAllocs => IInv'
<1> SUFFICES ASSUME IInv, CommitAllocs PROVE IInv'
  OBVIOUS
<1> USE DEF IInv, CommitAllocs
<1>1. held = {} /\ m_lWaiting = 0 /\ owner
  BY DEF DecommitPending, LazySignalling
<1>2. \/ \E c \in 0 .. MaxCount : Built(c)
      \/ UNCHANGED <<m_lFree, m_lAllocated>>
  <2>1. m_lCount \in 0 .. MaxCount /\ 0 .. m_lCount \subseteq 0 .. MaxCount
    BY AllocatorAssumption, TypeParts DEF Numbers
  <2>2. CASE Alloc
    BY <2>1, <2>2 DEF Alloc
  <2>3. CASE AllocFails
    BY <2>1, <2>3 DEF AllocFails
  <2> QED BY <2>2, <2>3
<1>3. /\ m_lAllocated' \in 0 .. MaxCount
      /\ m_lFree' \subseteq 1 .. MaxCount
      /\ SamplesAccounted'
  BY <1>1, <1>2, BuiltFree, KeepSamples DEF TypeOK
<1>4. TypeOK'
  <2>1. Numbers'
    BY <1>3, TypeParts DEF Numbers, signalVars
  <2>2. Flags'
    BY TypeParts DEF Flags, Alloc, AllocFails
  <2> QED BY <2>1, <2>2, TypePartsNext
<1>5. DecommitPending' /\ RefsCounted'
  BY <1>1 DEF DecommitPending, RefsCounted, TypeOK
<1>6. KeptAsAgreed'
  <2>1. CASE Alloc
    BY <2>1, <1>1 DEF Alloc, Built, KeptAsAgreed
  <2>2. CASE AllocFails /\ UNCHANGED <<m_bCommitted, m_cRef>>
    BY <2>2, <1>1 DEF AllocFails, Built, KeptAsAgreed, TypeOK
  <2> QED BY <2>1, <2>2
<1>7. LazySignalling'
  BY <1>1, QuietSignals
<1>8. m_cRef' > 0
  BY <1>1 DEF RefsCounted, TypeOK
<1>9. ListEmptyAtEnd'
  BY <1>8 DEF ListEmptyAtEnd
<1>10. SurfacesReturned'
  <2>1. CASE m_bCommitted' = TRUE
    BY <2>1 DEF SurfacesReturned
  <2>2. CASE AllocFails /\ UNCHANGED <<m_bCommitted, m_cRef>>
    <3>1. kind # "memory" => m_lAllocated' = 0
      BY <1>1, <2>2 DEF AllocFails, Built, SurfacesReturned, TypeOK, KeptAsAgreed
    <3> QED BY <3>1, <2>2 DEF SurfacesReturned
  <2> QED BY <2>1, <2>2
<1> QED BY <1>3, <1>4, <1>5, <1>6, <1>7, <1>9, <1>10

LEMMA InvDecommit == IInv /\ Decommit => IInv'
<1> SUFFICES ASSUME IInv, Decommit PROVE IInv'
  OBVIOUS
<1> USE DEF IInv, Decommit
<1>1. LazySignalling' /\ m_hSem' \in Nat /\ m_lWaiting' \in Nat
  BY Notified
<1>2. Cardinality(m_lFree) < m_lAllocated <=> held # {}
  BY FreeCount DEF SamplesAccounted, TypeOK
<1>5. ListEmptyAtEnd'
  BY DEF ListEmptyAtEnd, RefsCounted, TypeOK
<1>6. SurfacesReturned'
  BY <1>2 DEF SurfacesReturned, Free, Built
<1>3. CASE held # {}
  <2>1. TypeOK'
    BY <1>1, <1>2, <1>3 DEF TypeOK
  <2>2. SamplesAccounted'
    BY <1>2, <1>3, KeepSamples
  <2>3. DecommitPending' /\ KeptAsAgreed' /\ RefsCounted'
    BY <1>2, <1>3 DEF DecommitPending, KeptAsAgreed, RefsCounted
  <2> QED BY <1>1, <1>3, <2>1, <2>2, <2>3, <1>5, <1>6
<1>4. CASE held = {}
  <2>1. Built(0) \/ (kind = "memory" /\ UNCHANGED <<m_lFree, m_lAllocated>>)
    BY <1>2, <1>4 DEF Free
  <2>2. /\ m_lAllocated' \in 0 .. MaxCount
        /\ m_lFree' \subseteq 1 .. MaxCount
        /\ SamplesAccounted'
    <3>1. CASE Built(0)
      BY <1>4, <3>1, BuiltFree, AllocatorAssumption
    <3>2. CASE UNCHANGED <<m_lFree, m_lAllocated>>
      BY <3>2, KeepSamples, TypeParts DEF Numbers
    <3> QED BY <2>1, <3>1, <3>2
  <2>3. releasing' = releasing + 1 /\ m_bDecommitInProgress' = FALSE
    BY <1>2, <1>4
  <2>4. TypeOK'
    <3>1. Numbers'
      BY <1>1, <2>2, <2>3, TypeParts, AllocatorAssumption DEF Numbers
    <3>2. Flags'
      BY <2>3, TypeParts DEF Flags
    <3> QED BY <3>1, <3>2, TypePartsNext
  <2>5. DecommitPending' /\ RefsCounted'
    BY <1>4, <2>3 DEF DecommitPending, RefsCounted, TypeOK
  <2>6. KeptAsAgreed'
    BY <1>2, <1>4 DEF KeptAsAgreed, Free
  <2> QED BY <1>1, <1>5, <1>6, <2>2, <2>4, <2>5, <2>6
<1> QED BY <1>3, <1>4

LEMMA InvGetRefused ==
  ASSUME IInv, NEW t \in Threads, GetRefused(t)
  PROVE  IInv'
<1> USE DEF IInv, GetRefused, poolVars, stateVars, signalVars, refVars
<1>1. TypeOK'
  BY DEF TypeOK
<1>2. SamplesAccounted'
  BY KeepSamples
<1>3. DecommitPending' /\ KeptAsAgreed' /\ RefsCounted'
  BY DEF DecommitPending, KeptAsAgreed, RefsCounted
<1>4. Waiters' = Waiters
  BY WaitersSame DEF TypeOK
<1>5. LazySignalling'
  BY <1>4 DEF LazySignalling
<1>6. SurfacesReturned' /\ ListEmptyAtEnd'
  BY DEF SurfacesReturned, ListEmptyAtEnd
<1> QED BY <1>1, <1>2, <1>3, <1>5, <1>6

LEMMA InvGetSample ==
  ASSUME IInv, NEW t \in Threads, GetSample(t)
  PROVE  IInv'
<1> USE DEF IInv, GetSample, stateVars, signalVars, refVars
<1>1. TypeOK'
  BY DEF TypeOK
<1>2. SamplesAccounted'
  BY DEF SamplesAccounted
<1>3. DecommitPending' /\ KeptAsAgreed' /\ RefsCounted'
  BY DEF DecommitPending, KeptAsAgreed, RefsCounted
<1>4. Waiters' = Waiters
  BY WaitersSame DEF TypeOK
<1>5. LazySignalling'
  BY <1>4 DEF LazySignalling
<1>6. SurfacesReturned' /\ ListEmptyAtEnd'
  BY DEF SurfacesReturned, ListEmptyAtEnd
<1> QED BY <1>1, <1>2, <1>3, <1>5, <1>6

LEMMA InvGetWaits ==
  ASSUME IInv, NEW t \in Threads, GetWaits(t)
  PROVE  IInv'
<1> USE DEF IInv, GetWaits, poolVars, stateVars, refVars
<1>1. TypeOK'
  BY DEF TypeOK
<1>2. SamplesAccounted'
  BY KeepSamples
<1>3. DecommitPending' /\ KeptAsAgreed' /\ RefsCounted'
  BY DEF DecommitPending, KeptAsAgreed, RefsCounted
<1>4. Cardinality(Waiters') = Cardinality(Waiters) + 1
  BY WaitersMore DEF TypeOK
<1>5. LazySignalling'
  BY <1>4, WaitersFinite DEF LazySignalling, TypeOK
<1>6. SurfacesReturned' /\ ListEmptyAtEnd'
  BY DEF SurfacesReturned, ListEmptyAtEnd
<1> QED BY <1>1, <1>2, <1>3, <1>5, <1>6

LEMMA InvGetTimesOut ==
  ASSUME IInv, NEW t \in Threads, GetTimesOut(t)
  PROVE  IInv'
<1> USE DEF IInv, GetTimesOut, poolVars, stateVars, refVars
<1>1. TypeOK'
  BY DEF TypeOK
<1>2. SamplesAccounted'
  BY KeepSamples
<1>3. DecommitPending' /\ KeptAsAgreed' /\ RefsCounted'
  BY DEF DecommitPending, KeptAsAgreed, RefsCounted
<1>4. Waiters' = Waiters
  BY DEF Waiters
<1>5. LazySignalling'
  BY <1>4, WaitersFinite DEF LazySignalling, TypeOK
<1>6. SurfacesReturned' /\ ListEmptyAtEnd'
  BY DEF SurfacesReturned, ListEmptyAtEnd
<1> QED BY <1>1, <1>2, <1>3, <1>5, <1>6

LEMMA InvWaitEnds ==
  ASSUME IInv, NEW t \in Threads, WaitEnds(t)
  PROVE  IInv'
<1> USE DEF IInv, WaitEnds, poolVars, stateVars, refVars
<1>1. TypeOK'
  BY DEF TypeOK
<1>2. SamplesAccounted'
  BY KeepSamples
<1>3. DecommitPending' /\ KeptAsAgreed' /\ RefsCounted'
  BY DEF DecommitPending, KeptAsAgreed, RefsCounted
<1>4. Cardinality(Waiters') = Cardinality(Waiters) - 1
  BY WaitersFewer DEF TypeOK
<1>5. LazySignalling'
  BY <1>4, WaitersFinite DEF LazySignalling, TypeOK
<1>6. SurfacesReturned' /\ ListEmptyAtEnd'
  BY DEF SurfacesReturned, ListEmptyAtEnd
<1> QED BY <1>1, <1>2, <1>3, <1>5, <1>6

\* The last sample completes the decommit, or the sample is free again.
LEMMA InvReleaseBuffer ==
  ASSUME IInv, NEW s \in 1 .. MaxCount, ReleaseBuffer(s)
  PROVE  IInv'
<1> USE DEF IInv, ReleaseBuffer
<1>1. LazySignalling' /\ m_hSem' \in Nat /\ m_lWaiting' \in Nat
  BY Notified
<1> DEFINE F == m_lFree \cup {s}
           H == held \ {s}
<1>2. H \cap F = {} /\ H \cup F = 1 .. m_lAllocated
  BY DEF SamplesAccounted
<1>3. Cardinality(F) = m_lAllocated <=> H = {}
  <2> HIDE DEF F, H
  <2> QED BY <1>2, FreeCount DEF TypeOK
<1>6. m_cRef > 0 /\ (m_bCommitted \/ m_bDecommitInProgress)
  BY DEF RefsCounted, DecommitPending, TypeOK
<1>4. CASE m_bDecommitInProgress /\ H = {}
  <2>1. /\ m_bDecommitInProgress' = FALSE
        /\ releasing' = releasing + 1
        /\ \/ kind = "memory" /\ m_lFree' = F /\ UNCHANGED m_lAllocated
           \/ kind # "memory" /\ Built(0)
    BY <1>3, <1>4
  <2>2. /\ m_lAllocated' \in 0 .. MaxCount
        /\ m_lFree' \subseteq 1 .. MaxCount
    <3>1. CASE Built(0)
      BY <3>1, BuiltFree, AllocatorAssumption
    <3>2. CASE m_lFree' = F /\ UNCHANGED m_lAllocated
      BY <3>2, TypeParts DEF Numbers
    <3> QED BY <2>1, <3>1, <3>2
  <2>3. SamplesAccounted'
    BY <1>2, <1>4, <2>1, BuiltFree, AllocatorAssumption DEF SamplesAccounted
  <2>4. TypeOK'
    <3>1. Numbers'
      BY <1>1, <2>1, <2>2, TypeParts, AllocatorAssumption DEF Numbers
    <3>2. Flags'
      BY <2>1, TypeParts DEF Flags
    <3> QED BY <3>1, <3>2, TypePartsNext
  <2>5. DecommitPending' /\ ~m_bCommitted
    BY <1>4, <2>1 DEF DecommitPending, RefsCounted
  <2>6. RefsCounted'
    BY <1>4, <2>1, <2>5, TypeParts DEF RefsCounted, Numbers
  <2>7. KeptAsAgreed'
    BY <1>4, <2>1 DEF KeptAsAgreed, RefsCounted
  <2>8. SurfacesReturned' /\ ListEmptyAtEnd'
    BY <1>6, <2>1 DEF SurfacesReturned, ListEmptyAtEnd, Built
  <2> QED BY <1>1, <2>3, <2>4, <2>5, <2>6, <2>7, <2>8
<1>5. CASE ~(m_bDecommitInProgress /\ H = {})
  <2>1. m_lFree' = F /\ UNCHANGED <<m_lAllocated, m_bDecommitInProgress, releasing>>
    BY <1>3, <1>5
  <2>2. TypeOK'
    BY <1>1, <2>1 DEF TypeOK
  <2>3. SamplesAccounted'
    BY <1>2, <2>1 DEF SamplesAccounted
  <2>4. DecommitPending' /\ RefsCounted' /\ KeptAsAgreed'
    BY <1>5, <2>1 DEF DecommitPending, RefsCounted, KeptAsAgreed
  <2>5. SurfacesReturned' /\ ListEmptyAtEnd'
    BY <1>6, <2>1 DEF SurfacesReturned, ListEmptyAtEnd
  <2> QED BY <1>1, <2>2, <2>3, <2>4, <2>5
<1> QED BY <1>4, <1>5

\* When the last reference goes nothing is committed and nothing is out.
LEMMA LastReference ==
  ASSUME IInv, Release, owner \/ releasing > 0
  PROVE  /\ m_cRef' \in Nat
         /\ \/ UNCHANGED <<m_lFree, m_lAllocated>>
            \/ /\ Built(0) /\ held = {} /\ ~m_bCommitted /\ ~m_bDecommitInProgress
               /\ ~(owner /\ releasing > 0)
         /\ (m_bCommitted \/ m_bDecommitInProgress => m_cRef > 1)
         /\ (m_cRef' = 0 => m_lFree' = {})
<1> USE DEF IInv
<1>1. /\ m_cRef' \in Nat
      /\ m_cRef = 1 => held = {} /\ ~m_bCommitted /\ ~m_bDecommitInProgress /\ ~(owner /\ releasing > 0)
      /\ (m_bCommitted \/ m_bDecommitInProgress => m_cRef > 1)
  BY DEF TypeOK, Release, RefsCounted, DecommitPending
<1>2. m_cRef' = 0 => m_lFree' = {}
  <2> SUFFICES ASSUME m_cRef = 1 PROVE m_lFree' = {}
    BY DEF Release, TypeOK
  <2>1. CASE kind = "memory"
    BY <2>1 DEF Release, Built
  <2>2. CASE kind # "memory"
    BY <2>2, <1>1 DEF Release, SurfacesReturned, SamplesAccounted
  <2> QED BY <2>1, <2>2
<1> QED BY <1>1, <1>2 DEF Release

LEMMA InvReleaseSelf == IInv /\ ReleaseSelf => IInv'
<1> SUFFICES ASSUME IInv, ReleaseSelf PROVE IInv'
  OBVIOUS
<1> USE DEF IInv, ReleaseSelf, stateVars, signalVars
<1>1. /\ m_cRef' \in Nat
      /\ \/ UNCHANGED <<m_lFree, m_lAllocated>>
         \/ /\ Built(0) /\ held = {} /\ ~m_bCommitted /\ ~m_bDecommitInProgress
            /\ ~owner
      /\ m_cRef' = 0 => m_lFree' = {}
  BY LastReference
<1>2. TypeOK' /\ SamplesAccounted'
  <2>1. /\ m_lAllocated' \in 0 .. MaxCount /\ m_lFree' \subseteq 1 .. MaxCount
        /\ SamplesAccounted'
    <3>1. CASE Built(0) /\ held = {}
      BY <3>1, BuiltFree, AllocatorAssumption
    <3>2. CASE UNCHANGED <<m_lFree, m_lAllocated>>
      BY <3>2, KeepSamples, TypeParts DEF Numbers
    <3> QED BY <1>1, <3>1, <3>2
  <2>2. Numbers'
    BY <1>1, <2>1, TypeParts, AllocatorAssumption DEF Numbers
  <2>3. Flags'
    BY TypeParts DEF Flags
  <2> QED BY <2>1, <2>2, <2>3, TypePartsNext
<1>3. DecommitPending' /\ KeptAsAgreed'
  BY <1>1 DEF DecommitPending, KeptAsAgreed
<1>4. RefsCounted'
  BY DEF RefsCounted, Release, TypeOK
<1>5. LazySignalling'
  BY <1>1 DEF LazySignalling, Waiters, Built
<1>6. SurfacesReturned' /\ ListEmptyAtEnd'
  BY <1>1 DEF SurfacesReturned, ListEmptyAtEnd, Built
<1> QED BY <1>2, <1>3, <1>4, <1>5, <1>6

LEMMA InvOwnerReleases == IInv /\ OwnerReleases => IInv'
<1> SUFFICES ASSUME IInv, OwnerReleases PROVE IInv'
  OBVIOUS
<1> USE DEF IInv, OwnerReleases, stateVars, signalVars
<1>1. /\ m_cRef' \in Nat
      /\ \/ UNCHANGED <<m_lFree, m_lAllocated>>
         \/ /\ Built(0) /\ held = {} /\ ~m_bCommitted /\ ~m_bDecommitInProgress
      /\ m_cRef' = 0 => m_lFree' = {}
  BY LastReference
<1>2. TypeOK' /\ SamplesAccounted'
  <2>1. /\ m_lAllocated' \in 0 .. MaxCount /\ m_lFree' \subseteq 1 .. MaxCount
        /\ SamplesAccounted'
    <3>1. CASE Built(0) /\ held = {}
      BY <3>1, BuiltFree, AllocatorAssumption
    <3>2. CASE UNCHANGED <<m_lFree, m_lAllocated>>
      BY <3>2, KeepSamples, TypeParts DEF Numbers
    <3> QED BY <1>1, <3>1, <3>2
  <2>2. Numbers'
    BY <1>1, <2>1, TypeParts, AllocatorAssumption DEF Numbers
  <2>3. Flags'
    BY TypeParts DEF Flags
  <2> QED BY <2>1, <2>2, <2>3, TypePartsNext
<1>3. DecommitPending' /\ KeptAsAgreed'
  BY <1>1 DEF DecommitPending, KeptAsAgreed
<1>4. RefsCounted'
  BY DEF RefsCounted, Release, TypeOK
<1>5. LazySignalling'
  BY <1>1 DEF LazySignalling, Waiters, Built
<1>6. SurfacesReturned' /\ ListEmptyAtEnd'
  BY <1>1 DEF SurfacesReturned, ListEmptyAtEnd, Built
<1> QED BY <1>2, <1>3, <1>4, <1>5, <1>6

LEMMA InvStutter == IInv /\ UNCHANGED vars => IInv'
<1> SUFFICES ASSUME IInv, UNCHANGED vars PROVE IInv'
  OBVIOUS
<1> USE DEF IInv, vars, poolVars, stateVars, signalVars, refVars
<1>1. TypeOK'
  BY DEF TypeOK
<1>2. SamplesAccounted' /\ DecommitPending' /\ KeptAsAgreed' /\ RefsCounted'
  BY DEF SamplesAccounted, DecommitPending, KeptAsAgreed, RefsCounted
<1>3. LazySignalling'
  BY KeepSignals
<1>4. SurfacesReturned' /\ ListEmptyAtEnd'
  BY DEF SurfacesReturned, ListEmptyAtEnd
<1> QED BY <1>1, <1>2, <1>3, <1>4

LEMMA InvNext == IInv /\ [Next]_vars => IInv'
<1> SUFFICES ASSUME IInv, [Next]_vars PROVE IInv'
  OBVIOUS
<1>1. ASSUME NEW c \in 0 .. MaxCount, SetProperties(c) PROVE IInv'
  BY <1>1, InvSetProperties
<1>2. CASE CommitCancels
  BY <1>2, InvCommitCancels
<1>3. CASE CommitAllocs
  BY <1>3, InvCommitAllocs
<1>4. CASE Decommit
  BY <1>4, InvDecommit
<1>5. ASSUME NEW t \in Threads, GetBuffer(t) \/ GetTimesOut(t) \/ WaitEnds(t) PROVE IInv'
  BY <1>5, InvGetRefused, InvGetSample, InvGetWaits, InvGetTimesOut, InvWaitEnds DEF GetBuffer
<1>6. ASSUME NEW s \in 1 .. MaxCount, ReleaseBuffer(s) PROVE IInv'
  BY <1>6, InvReleaseBuffer
<1>7. CASE ReleaseSelf
  BY <1>7, InvReleaseSelf
<1>8. CASE OwnerReleases
  BY <1>8, InvOwnerReleases
<1>9. CASE UNCHANGED vars
  BY <1>9, InvStutter
<1> QED BY <1>1, <1>2, <1>3, <1>4, <1>5, <1>6, <1>7, <1>8, <1>9 DEF Next

LEMMA Invariance == Spec => []IInv
BY InvInit, InvNext, PTL DEF Spec

-----------------------------------------------------------------------------
(* The theorems *)

\* Every variable keeps its type; the reference count never falls below zero.
THEOREM TypeCorrect == Spec => []TypeOK
<1>1. IInv => TypeOK
  BY DEF IInv
<1> QED BY <1>1, Invariance, PTL

\* No sample that is handed out is deleted or handed out twice.
THEOREM SamplesSafe == Spec => []SamplesAccounted
<1>1. IInv => SamplesAccounted
  BY DEF IInv
<1> QED BY <1>1, Invariance, PTL

\* A decommit is pending exactly while samples are out.
THEOREM DecommitsComplete == Spec => []DecommitPending
<1>1. IInv => DecommitPending
  BY DEF IInv
<1> QED BY <1>1, Invariance, PTL

\* A committed allocator has the samples last agreed on.
THEOREM CommitsAgreed == Spec => []AsAgreed
<1>1. IInv => AsAgreed
  BY DEF IInv, KeptAsAgreed, AsAgreed
<1> QED BY <1>1, Invariance, PTL

\* The allocator lives while a sample may return to it.
THEOREM StaysAlive == Spec => []AliveWhileUsed
<1>1. IInv => AliveWhileUsed
  BY DEF IInv, TypeOK, RefsCounted, DecommitPending, AliveWhileUsed
<1> QED BY <1>1, Invariance, PTL

\* The argument in the comment on the lazy signalling: no thread sleeps while
\* a sample is free, nor after a decommit.
THEOREM NoDeadlock == Spec => []WaiterIsWoken
<1>1. IInv => WaiterIsWoken
  BY WaitersFinite DEF IInv, TypeOK, LazySignalling, WaiterIsWoken
<1> QED BY <1>1, Invariance, PTL

\* Nothing is left on the free list of an allocator that is deleted.
THEOREM NothingLeaked == Spec => []ListEmptyAtEnd
<1>1. IInv => ListEmptyAtEnd
  BY DEF IInv
<1> QED BY <1>1, Invariance, PTL

\* Where the samples are decides what the allocator is (amfilter.cpp 4791-4966).
THEOREM SamplesDecide == Spec => []AllAccounted
<1>1. SamplesAccounted /\ AsAgreed /\ DecommitPending /\ ListEmptyAtEnd => AllAccounted
  BY DEF AllAccounted
<1> QED BY <1>1, SamplesSafe, CommitsAgreed, DecommitsComplete, NothingLeaked, PTL
=============================================================================
