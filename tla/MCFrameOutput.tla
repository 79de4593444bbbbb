--------------------------- MODULE MCFrameOutput ---------------------------
(* Bounds for TLC: the software decoder gets the streams that tell the      *)
(* telecine detection apart, the others more changes.                       *)
EXTENDS FrameOutput

Interlaced == {}
Repeated == {"repeat", "frame"}
Progressive == {"sequence", "frame"}

MCMethods ==
  [software |-> {"BOB", "YADIF"},
   d3d11    |-> {"WEAVE", "YADIF"},
   object   |-> {"BOB", "YADIF", "YADIF_BOB"}]
MCFlagSets ==
  [software |-> {Interlaced, Repeated, {"repeat"}, Progressive},
   d3d11    |-> {Interlaced, Progressive},
   object   |-> {Interlaced}]
MCMaxFrames == [software |-> 5, d3d11 |-> 6, object |-> 5]
MCMaxChanges == [software |-> 1, d3d11 |-> 1, object |-> 3]
=============================================================================
