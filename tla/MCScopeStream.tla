--------------------------- MODULE MCScopeStream ---------------------------
(* Small instances of ScopeStream.                                          *)
EXTENDS ScopeStream

(* Three captures: A and B, B alone with a sample missing, and B before A  *)
(* on other ranges and clipped.                                            *)
Input(code, scale, offset, measured, clipped) ==
  [code |-> code, scale |-> scale, offset |-> offset, volts |-> measured, clipped |-> clipped]

MCShots == <<
  <<Input(0, 2, 0, <<10, 12>>, FALSE), Input(1, 3, 1, <<7, -2>>, FALSE)>>,
  <<Input(1, 3, 1, <<Missing, 4>>, FALSE)>>,
  <<Input(1, 1, 0, <<20, 21>>, TRUE), Input(0, 2, -4, <<30, Missing>>, FALSE)>> >>

MCLabels == {0, 1}

(* Every damage there is, over the three captures.                         *)
MCSpoilt == <<{"header", "half", "descriptors"}, {"sample", "magic"}, {"promise", "version", "code"}>>
=============================================================================
