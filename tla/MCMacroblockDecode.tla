------------------------- MODULE MCMacroblockDecode -------------------------
(* Pictures for the runs of MacroblockDecode. *)
EXTENDS MacroblockDecode

Frame(type, frame_pred, conceal) ==
  [type |-> type, structure |-> "frame", second |-> FALSE, mpeg1 |-> FALSE,
   frame_pred_frame_dct |-> frame_pred, conceal |-> conceal, top_field_first |-> TRUE,
   chroma |-> 420, half |-> <<16, 16>>, unit |-> 1]

Field(type, structure, second) ==
  [Frame(type, FALSE, FALSE) EXCEPT !.structure = structure, !.second = second]

Mpeg1(type, unit) ==
  [Frame(type, TRUE, FALSE) EXCEPT !.mpeg1 = TRUE, !.unit = unit, !.half = <<16 * unit, 16 * unit>>]

MCPictures ==
  {Frame("I", FALSE, TRUE), Frame("P", FALSE, FALSE), Frame("B", FALSE, TRUE), Frame("B", TRUE, FALSE),
   [Frame("P", FALSE, TRUE) EXCEPT !.chroma = 422, !.top_field_first = FALSE],
   Field("P", "top", FALSE), Field("P", "bottom", TRUE), Field("B", "top", TRUE),
   Mpeg1("P", 2), Mpeg1("B", 1)}

MCVectors == {<<-15, 7>>, <<13, -16>>}
\* Bound: the slices of a B frame with field motion, which has the most
\* choices, are followed up to their second macroblock.
Shorter ==
  pic.type = "B" /\ pic.structure = "frame" /\ ~pic.frame_pred_frame_dct => Len(history) < 2

MCSelects == {<<0, 1>>, <<1, 1>>}
=============================================================================
