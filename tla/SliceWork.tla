------------------------------ MODULE SliceWork ------------------------------
(***************************************************************************)
(* What the slice layer promises to the parser above it, whatever threads  *)
(* it uses: slices are handed over while a picture is open, each is        *)
(* decoded once or given up with the picture, and a picture is opened and  *)
(* closed only when no slice is outstanding.                               *)
(*                                                                         *)
(* The contract of mpeg2_parse (libmpeg2/libmpeg2/decode.c) without the    *)
(* pool: with one thread mpeg2_slice runs inside the loop and pending      *)
(* never outlives the call.                                                *)
(***************************************************************************)
EXTENDS Integers

CONSTANT MaxSlices

VARIABLES
  phase,    \* "none", "between" pictures, in a "picture", "abandoned"
  pending,  \* slices handed over and not decoded yet
  done,     \* slices of the picture that are decoded
  count     \* slices of the picture that were handed over

abstractVars == <<phase, pending, done, count>>

Init ==
  /\ phase = "none"
  /\ pending = {}
  /\ done = {}
  /\ count = 0

Open ==
  /\ phase = "none"
  /\ phase' = "between"
  /\ done' = {}
  /\ count' = 0
  /\ UNCHANGED pending

\* The picture's state is set up: nothing may be reading it.
Begin ==
  /\ phase = "between"
  /\ pending = {}
  /\ phase' = "picture"
  /\ done' = {}
  /\ count' = 0
  /\ UNCHANGED pending

Submit ==
  /\ phase = "picture"
  /\ count < MaxSlices
  /\ count' = count + 1
  /\ pending' = pending \cup {count'}
  /\ UNCHANGED <<phase, done>>

Decode(s) ==
  /\ s \in pending
  /\ pending' = pending \ {s}
  /\ done' = done \cup {s}
  /\ UNCHANGED <<phase, count>>

\* The picture is over: every slice handed over has been decoded.
End ==
  /\ phase = "picture"
  /\ pending = {}
  /\ done = 1 .. count
  /\ phase' = "between"
  /\ UNCHANGED <<pending, done, count>>

\* Slices that no thread has started may be given up; no slice follows.
Abandon ==
  /\ phase \in {"between", "picture"}
  /\ phase' = "abandoned"
  /\ pending' \in SUBSET pending
  /\ UNCHANGED <<done, count>>

Close ==
  /\ phase = "abandoned"
  /\ pending = {}
  /\ phase' = "none"
  /\ UNCHANGED <<pending, done, count>>

Next ==
  \/ Open \/ Begin \/ Submit \/ End \/ Abandon \/ Close
  \/ \E s \in 1 .. MaxSlices : Decode(s)

Spec ==
  /\ Init
  /\ [][Next]_abstractVars
  /\ \A s \in 1 .. MaxSlices : WF_abstractVars(Decode(s))
=============================================================================
