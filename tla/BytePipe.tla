------------------------------ MODULE BytePipe ------------------------------
(***************************************************************************)
(* What a streaming session promises about the bytes of a device: a pipe.  *)
(* Every byte the device sent while the session lives is handed to the     *)
(* caller once and in order, in pieces of any size, or is still on its way.*)
(***************************************************************************)
EXTENDS Naturals, Sequences

CONSTANT Byte

VARIABLES
  pipe,   \* bytes sent and not yet handed out
  out     \* bytes handed out

Init == pipe = <<>> /\ out = <<>>

Send == \E b \in Byte : pipe' = Append(pipe, b) /\ UNCHANGED out

Deliver ==
  \E n \in 1..Len(pipe) :
    /\ out' = out \o SubSeq(pipe, 1, n)
    /\ pipe' = SubSeq(pipe, n + 1, Len(pipe))

Next == Send \/ Deliver

Spec == Init /\ [][Next]_<<pipe, out>>
=============================================================================
