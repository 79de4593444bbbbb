-------------------------- MODULE SampleAllocator --------------------------
(***************************************************************************)
(* CBaseAllocator (BaseClasses/amfilter.cpp) with the three kinds of       *)
(* allocator the decoder uses: CMemAllocator, which keeps its memory until *)
(* it is deleted, and CDXVA2Allocator and CD3D11Allocator, which give      *)
(* their surfaces back as soon as the last one is returned.                *)
(*                                                                         *)
(* Threads wait in GetBuffer on a semaphore that is signalled lazily, for  *)
(* the threads that said they would wait.  Decommit may find samples       *)
(* outstanding; the last ReleaseBuffer then completes it, and drops the    *)
(* reference that the allocator holds on itself.                           *)
(***************************************************************************)
EXTENDS Integers, FiniteSets

CONSTANTS
  Threads,       \* callers of GetBuffer
  MaxCount,      \* bound: samples asked for
  MaxSignals,    \* bound: signals a caller that does not wait may leave behind
  MaxReleasing   \* bound: threads about to drop a reference at a time

ASSUME AllocatorAssumption ==
  /\ IsFiniteSet(Threads)
  /\ MaxCount \in Nat /\ MaxSignals \in Nat /\ MaxReleasing \in Nat

Kinds == {"memory", "DXVA2", "D3D11"}

VARIABLES
  kind,                   \* which of the three allocators this is
  m_lFree,                \* samples on the free list; a sample is its number
  m_lAllocated,           \* samples that exist are 1 .. m_lAllocated
  m_lCount,               \* samples agreed on, 0 before SetProperties
  m_bChanged,
  m_bCommitted,
  m_bDecommitInProgress,
  m_hSem,                 \* count of the semaphore
  m_lWaiting,
  pc,                     \* of each caller: outside, before the lock, at the wait
  held,                   \* samples handed out, with whoever has them now
  owner,                  \* the pin has its reference
  m_cRef,                 \* references to the allocator
  releasing               \* threads that left the lock to drop one of them

poolVars == <<m_lFree, m_lAllocated, m_lCount, m_bChanged>>
stateVars == <<m_bCommitted, m_bDecommitInProgress>>
signalVars == <<m_hSem, m_lWaiting>>
refVars == <<owner, m_cRef, releasing>>
vars == <<kind, poolVars, stateVars, signalVars, pc, held, refVars>>

TypeOK ==
  /\ kind \in Kinds
  /\ m_lAllocated \in 0 .. MaxCount
  /\ m_lCount \in 0 .. MaxCount
  /\ m_lFree \subseteq 1 .. MaxCount
  /\ held \subseteq 1 .. MaxCount
  /\ m_bChanged \in BOOLEAN /\ m_bCommitted \in BOOLEAN /\ m_bDecommitInProgress \in BOOLEAN
  /\ m_hSem \in Nat /\ m_lWaiting \in Nat
  /\ pc \in [Threads -> {"idle", "get", "wait"}]
  /\ owner \in BOOLEAN
  /\ releasing \in 0 .. MaxReleasing
  /\ m_cRef \in Nat

Init ==
  /\ kind \in Kinds
  /\ m_lFree = {} /\ m_lAllocated = 0 /\ m_lCount = 0
  /\ m_bChanged = FALSE /\ m_bCommitted = FALSE /\ m_bDecommitInProgress = FALSE
  /\ m_hSem = 0 /\ m_lWaiting = 0
  /\ pc = [t \in Threads |-> "idle"]
  /\ held = {}
  /\ owner = TRUE /\ m_cRef = 1 /\ releasing = 0

-----------------------------------------------------------------------------
(* Memory and surfaces *)

\* The samples that exist are as many as c, all free.
Built(c) == m_lAllocated' = c /\ m_lFree' = 1 .. c

\* Free: the memory stays with CMemAllocator, the surfaces go.
Free == IF kind = "memory" THEN UNCHANGED <<m_lFree, m_lAllocated>> ELSE Built(0)

\* Fault: as the commented-out lines had it, surfaces are not created again
\* when the requirements are the same.
AllocIfChanged ==
  /\ m_lCount > 0
  /\ IF m_bChanged THEN Built(m_lCount) ELSE UNCHANGED <<m_lFree, m_lAllocated>>
  /\ m_bChanged' = FALSE

\* Alloc succeeds.  CMemAllocator keeps what it has if nothing changed.
Alloc ==
  /\ m_lCount > 0
  /\ IF kind = "memory" /\ ~m_bChanged THEN UNCHANGED <<m_lFree, m_lAllocated>> ELSE Built(m_lCount)
  /\ m_bChanged' = FALSE

\* Alloc fails: nothing was asked for, or there is no device; or there is no
\* memory, for some samples at least, or for the surfaces, which are then
\* given back.
AllocFails ==
  /\ UNCHANGED m_bChanged
  /\ \/ /\ m_lCount = 0 \/ kind # "memory"
        /\ UNCHANGED <<m_lFree, m_lAllocated>>
     \/ /\ m_lCount > 0
        /\ kind = "memory" => m_bChanged
        /\ \E c \in 0 .. m_lCount - 1 :
             /\ c > 0 => kind = "memory"
             /\ Built(c)

\* Fault: only one of the waiting threads is told.
NotifyOne ==
  IF m_lWaiting = 0 THEN UNCHANGED signalVars
  ELSE m_hSem' = m_hSem + 1 /\ m_lWaiting' = 0

\* NotifySample: one signal for each thread that said it would wait.
NotifySample == m_hSem' = m_hSem + m_lWaiting /\ m_lWaiting' = 0

\* One reference less.  The destructor finds the allocator decommitted and so
\* leaves the free list of surfaces alone; CMemAllocator frees its memory.
Release ==
  /\ m_cRef' = m_cRef - 1
  /\ IF m_cRef = 1 /\ kind = "memory" THEN Built(0) ELSE UNCHANGED <<m_lFree, m_lAllocated>>

-----------------------------------------------------------------------------
(* IMemAllocator *)

SetProperties(c) ==
  /\ owner
  /\ ~m_bCommitted
  /\ m_lAllocated = Cardinality(m_lFree)
  /\ m_lCount' = c
  /\ m_bChanged' = TRUE
  /\ UNCHANGED <<kind, m_lFree, m_lAllocated, stateVars, signalVars, pc, held, refVars>>

\* Commit cancels a decommit that is not complete: the samples and the
\* reference the allocator has on itself are still there.
CommitCancels ==
  /\ owner
  /\ ~m_bCommitted /\ m_bDecommitInProgress
  /\ m_bCommitted' = TRUE
  /\ m_bDecommitInProgress' = FALSE
  /\ UNCHANGED <<kind, poolVars, signalVars, pc, held, refVars>>

\* Fault: the allocator does not hold itself.
CommitWithoutRef ==
  /\ owner
  /\ ~m_bCommitted /\ ~m_bDecommitInProgress
  /\ \/ Alloc /\ m_bCommitted' = TRUE
     \/ AllocFails /\ UNCHANGED m_bCommitted
  /\ UNCHANGED <<kind, m_lCount, m_bDecommitInProgress, signalVars, pc, held, refVars>>

CommitAllocs ==
  /\ owner
  /\ ~m_bCommitted /\ ~m_bDecommitInProgress
  /\ \/ Alloc /\ m_bCommitted' = TRUE /\ m_cRef' = m_cRef + 1
     \/ AllocFails /\ UNCHANGED <<m_bCommitted, m_cRef>>
  /\ UNCHANGED <<kind, m_lCount, m_bDecommitInProgress, signalVars, pc, held, owner, releasing>>

\* Fault: whoever waits goes on waiting.
DecommitSilently ==
  /\ owner
  /\ m_bCommitted \/ m_bDecommitInProgress
  /\ releasing < MaxReleasing
  /\ m_bCommitted' = FALSE
  /\ IF Cardinality(m_lFree) < m_lAllocated
     THEN m_bDecommitInProgress' = TRUE /\ UNCHANGED <<m_lFree, m_lAllocated, releasing>>
     ELSE m_bDecommitInProgress' = FALSE /\ Free /\ releasing' = releasing + 1
  /\ UNCHANGED <<kind, m_lCount, m_bChanged, signalVars, pc, held, owner, m_cRef>>

\* Fault: the reference is dropped although samples are out.
DecommitReleases ==
  /\ owner
  /\ m_bCommitted \/ m_bDecommitInProgress
  /\ releasing < MaxReleasing
  /\ m_bCommitted' = FALSE
  /\ IF Cardinality(m_lFree) < m_lAllocated
     THEN m_bDecommitInProgress' = TRUE /\ UNCHANGED <<m_lFree, m_lAllocated>>
     ELSE m_bDecommitInProgress' = FALSE /\ Free
  /\ releasing' = releasing + 1
  /\ NotifySample
  /\ UNCHANGED <<kind, m_lCount, m_bChanged, pc, held, owner, m_cRef>>

Decommit ==
  /\ owner
  /\ m_bCommitted \/ m_bDecommitInProgress
  /\ releasing < MaxReleasing
  /\ m_bCommitted' = FALSE
  /\ IF Cardinality(m_lFree) < m_lAllocated
     THEN m_bDecommitInProgress' = TRUE /\ UNCHANGED <<m_lFree, m_lAllocated, releasing>>
     ELSE m_bDecommitInProgress' = FALSE /\ Free /\ releasing' = releasing + 1
  /\ NotifySample
  /\ UNCHANGED <<kind, m_lCount, m_bChanged, pc, held, owner, m_cRef>>

\* The critical section of GetBuffer, at the call and after each wait.
GetRefused(t) ==
  /\ owner /\ pc[t] # "wait"
  /\ ~m_bCommitted
  /\ pc' = [pc EXCEPT ![t] = "idle"]
  /\ UNCHANGED <<kind, poolVars, stateVars, signalVars, held, refVars>>

GetSample(t) ==
  /\ owner /\ pc[t] # "wait"
  /\ m_bCommitted
  /\ \E s \in m_lFree : m_lFree' = m_lFree \ {s} /\ held' = held \cup {s}
  /\ pc' = [pc EXCEPT ![t] = "idle"]
  /\ UNCHANGED <<kind, m_lAllocated, m_lCount, m_bChanged, stateVars, signalVars, refVars>>

\* There is none: say that this thread will wait (SetWaiting).
GetWaits(t) ==
  /\ owner /\ pc[t] # "wait"
  /\ m_bCommitted /\ m_lFree = {}
  /\ m_lWaiting' = m_lWaiting + 1
  /\ pc' = [pc EXCEPT ![t] = "wait"]
  /\ UNCHANGED <<kind, poolVars, stateVars, m_hSem, held, refVars>>

\* With AM_GBF_NOWAIT the thread has said so, and does not.
GetTimesOut(t) ==
  /\ owner /\ pc[t] = "idle"
  /\ m_bCommitted /\ m_lFree = {}
  /\ m_hSem + m_lWaiting < MaxSignals
  /\ m_lWaiting' = m_lWaiting + 1
  /\ UNCHANGED <<kind, poolVars, stateVars, m_hSem, pc, held, refVars>>

\* WaitForSingleObject returns; the thread looks again.
WaitEnds(t) ==
  /\ pc[t] = "wait"
  /\ m_hSem > 0
  /\ m_hSem' = m_hSem - 1
  /\ pc' = [pc EXCEPT ![t] = "get"]
  /\ UNCHANGED <<kind, poolVars, stateVars, m_lWaiting, held, refVars>>

\* The last reference to a sample is released, by whoever has it.
ReleaseBuffer(s) ==
  /\ s \in held
  /\ releasing < MaxReleasing
  /\ held' = held \ {s}
  /\ IF m_bDecommitInProgress /\ Cardinality(m_lFree \cup {s}) = m_lAllocated
     THEN /\ m_bDecommitInProgress' = FALSE
          /\ releasing' = releasing + 1
          /\ IF kind = "memory" THEN m_lFree' = m_lFree \cup {s} /\ UNCHANGED m_lAllocated ELSE Built(0)
     ELSE m_lFree' = m_lFree \cup {s} /\ UNCHANGED <<m_lAllocated, m_bDecommitInProgress, releasing>>
  /\ NotifySample
  /\ UNCHANGED <<kind, m_lCount, m_bChanged, m_bCommitted, pc, owner, m_cRef>>

\* Decommit and ReleaseBuffer drop the allocator's reference after the lock.
ReleaseSelf ==
  /\ releasing > 0
  /\ releasing' = releasing - 1
  /\ Release
  /\ UNCHANGED <<kind, m_lCount, m_bChanged, stateVars, signalVars, pc, held, owner>>

\* The pin lets go of the allocator, with no call in progress.
OwnerReleases ==
  /\ owner
  /\ \A t \in Threads : pc[t] = "idle"
  /\ owner' = FALSE
  /\ Release
  /\ UNCHANGED <<kind, m_lCount, m_bChanged, stateVars, signalVars, pc, held, releasing>>

GetBuffer(t) == GetRefused(t) \/ GetSample(t) \/ GetWaits(t)

Next ==
  \/ \E c \in 0 .. MaxCount : SetProperties(c)
  \/ CommitCancels \/ CommitAllocs \/ Decommit
  \/ \E t \in Threads : GetBuffer(t) \/ GetTimesOut(t) \/ WaitEnds(t)
  \/ \E s \in 1 .. MaxCount : ReleaseBuffer(s)
  \/ ReleaseSelf \/ OwnerReleases

Spec == Init /\ [][Next]_vars

\* A thread inside GetBuffer is scheduled, and one that was signalled wakes.
FairSpec ==
  /\ Spec
  /\ \A t \in Threads : WF_vars(pc[t] = "get" /\ GetBuffer(t)) /\ WF_vars(WaitEnds(t))

-----------------------------------------------------------------------------
(* Properties *)

\* A sample is free or handed out, never both, and none that is handed out is
\* deleted, whatever is committed and decommitted meanwhile.
SamplesAccounted == held \cap m_lFree = {} /\ held \cup m_lFree = 1 .. m_lAllocated

\* A decommit is pending exactly while samples are out: it does not complete
\* too early, and is not forgotten when the last sample comes back.
DecommitPending == ~m_bCommitted => (m_bDecommitInProgress <=> held # {})

\* While samples can be had there are as many as were agreed on last.
AsAgreed == m_bCommitted => m_lAllocated = m_lCount

\* ... which is so because they stay while a decommit may still be cancelled,
\* and CMemAllocator knows when what it has kept will do.
KeptAsAgreed ==
  /\ m_bCommitted \/ m_bDecommitInProgress => m_lAllocated = m_lCount
  /\ kind = "memory" /\ owner /\ ~m_bChanged => m_lAllocated = m_lCount

\* The allocator outlives the samples that will return to it, and the
\* threads that are about to drop a reference to it.
AliveWhileUsed == held # {} \/ releasing > 0 => m_cRef > 0

\* ... since each reference is accounted for.
RefsCounted ==
  /\ ~(m_bCommitted /\ m_bDecommitInProgress)
  /\ m_cRef = (IF owner THEN 1 ELSE 0) + (IF m_bCommitted \/ m_bDecommitInProgress THEN 1 ELSE 0)
              + releasing

Waiters == {t \in Threads : pc[t] = "wait"}

\* No thread sleeps although a sample is free, or although no sample will
\* come: a signal is there for each.
WaiterIsWoken == m_lFree # {} \/ ~m_bCommitted => Cardinality(Waiters) <= m_hSem

\* ... by the two facts the comment on the lazy signalling states, the second
\* of which is an equality only without AM_GBF_NOWAIT.
LazySignalling ==
  /\ m_lFree # {} \/ ~m_bCommitted => m_lWaiting = 0
  /\ Cardinality(Waiters) <= m_lWaiting + m_hSem

\* After a decommit every call of GetBuffer returns.
DecommitEndsCalls ==
  \A t \in Threads : (pc[t] # "idle" /\ ~m_bCommitted) ~> (pc[t] = "idle" \/ m_bCommitted)

\* When the allocator is deleted nothing is left on its free list, as the
\* list's destructor asserts, and so no surface is leaked: whoever decommits,
\* and whichever sample comes back last.
ListEmptyAtEnd == m_cRef = 0 => m_lFree = {}

\* Where the samples are decides what the allocator is: committed with the
\* agreed number, decommitting while some are out, or empty.
AllAccounted == SamplesAccounted /\ AsAgreed /\ DecommitPending /\ ListEmptyAtEnd

\* ... since surfaces exist only between a commit and the end of a decommit.
SurfacesReturned ==
  kind # "memory" /\ ~m_bCommitted /\ ~m_bDecommitInProgress => m_lAllocated = 0
=============================================================================
