--------------------------- MODULE ChunkedDecoder ---------------------------
(***************************************************************************)
(* The decoders of an RTT stream's body (src/src/chunked.rs):              *)
(* ChunkedReader over a blocking reader and AsyncBody over one that is     *)
(* polled, which hands out its bytes in pieces of any length.              *)
(*                                                                         *)
(* wire is all that arrives before the connection closes.  A byte is one   *)
(* of the symbols the decoders tell apart: a hexadecimal digit, ";", CR    *)
(* ("C"), LF ("L") or something else.  Pending and Interrupted change      *)
(* nothing: a piece is what arrives between two of them.  A size beyond    *)
(* u64 is not reached.                                                     *)
(***************************************************************************)
EXTENDS Naturals, Sequences, SequencesExt

CONSTANTS
  Wires,   \* what may arrive: a set of sequences of symbols
  Length,  \* the value of Content-Length
  MaxLine  \* MAX_SIZE_LINE

(* blocking: ChunkedReader.  chunked, length, close: AsyncBody's Framing.  *)
Decoders == {"blocking", "chunked", "length", "close"}
Digit == {"0", "1", "2"}
Symbol == Digit \cup {";", "C", "L", "p"}

ASSUME DecoderAssumption ==
  Length \in Nat /\ MaxLine \in Nat /\ Wires \subseteq Seq(Symbol)

VARIABLES
  wire, kind,
  pos,  \* bytes of wire the decoder has taken
  dec,  \* its state: st (of State), left (payload bytes), line (read so far)
  out,  \* payload delivered
  res   \* "none", or how the body ended: "end", "eof", "invalid"

decoderVars == <<wire, kind, pos, dec, out, res>>

Chunked == kind \in {"blocking", "chunked"}
State == {"size", "data", "dataend", "trailers"}
More == Len(wire) - pos
Piece(n) == SubSeq(wire, pos + 1, pos + n)

-----------------------------------------------------------------------------
(* parse_size: the hexadecimal digits before an extension, trimmed; -1     *)
(* when there are none or something else is among them.                    *)
Digits(text) ==
  LET semi == SelectInSeq(text, LAMBDA c : c = ";")
      head == IF semi = 0 THEN text ELSE SubSeq(text, 1, semi - 1)
      from == SelectInSeq(head, LAMBDA c : c # "C")
      to   == SelectLastInSeq(head, LAMBDA c : c # "C")
  IN IF from = 0 THEN <<>> ELSE SubSeq(head, from, to)
Value(c) == CASE c = "0" -> 0 [] c = "1" -> 1 [] c = "2" -> 2
IsSize(text) == Digits(text) # <<>> /\ ToSet(Digits(text)) \subseteq Digit
Shift(n, c) == 16 * n + Value(c)
Size(text) ==
  LET d == Digits(text)
      n[i \in 0..Len(d)] == IF i = 0 THEN 0 ELSE Shift(n[i - 1], d[i])
  IN n[Len(d)]

(* A line without its terminator.                                          *)
Chomp(l) == LET f == Front(l) IN IF f # <<>> /\ Last(f) = "C" THEN Front(f) ELSE f

Finish(r) == res' = r /\ UNCHANGED <<out, dec>>
Goto(st, n) == dec' = [st |-> st, left |-> n, line |-> <<>>] /\ UNCHANGED <<out, res>>

(* What each state makes of a line, and of the end of the stream there.    *)
OnLine(text) ==
  CASE dec.st = "size" /\ ~IsSize(text)     -> Finish("invalid")
    [] dec.st = "size" /\ IsSize(text)      -> IF Size(text) = 0 THEN Goto("trailers", 0)
                                                                 ELSE Goto("data", Size(text))
    [] dec.st = "dataend" /\ text = <<>>    -> Goto("size", 0)
    [] dec.st = "dataend" /\ text # <<>>    -> Finish("invalid")
    [] dec.st = "trailers" /\ text # <<>>   -> Goto("trailers", 0)
    [] dec.st = "trailers" /\ text = <<>>   -> Finish("end")
OnEnd == IF dec.st = "dataend" THEN Finish("eof") ELSE Finish("end")

Reading == res = "none" /\ dec.st \in {"size", "dataend", "trailers"}
LineEnd == SelectInSubSeq(wire, pos + 1, Len(wire), LAMBDA c : c = "L")
Same == UNCHANGED <<wire, kind>>

(* ChunkedReader::read_line: to the next LF, within MAX_SIZE_LINE + 2.     *)
Read_line ==
  /\ kind = "blocking" /\ Reading /\ Same
  /\ LET n == IF LineEnd = 0 THEN More ELSE LineEnd - pos
         m == IF n > MaxLine + 2 THEN MaxLine + 2 ELSE n
     IN /\ pos' = pos + m
        /\ \/ m = 0 /\ OnEnd
           \/ m > 0 /\ Last(Piece(m)) = "L" /\ OnLine(Chomp(Piece(m)))
           \/ m > 0 /\ Last(Piece(m)) # "L" /\ Finish(IF m > MaxLine THEN "invalid" ELSE "eof")

(* Mutant: a line that comes in pieces loses all but the last.             *)
Poll_line_Forgets ==
  /\ kind = "chunked" /\ Reading /\ Same
  /\ \/ More = 0 /\ pos' = pos /\ OnEnd
     \/ \E n \in 1..More :
          /\ LineEnd = 0 \/ pos + n <= LineEnd
          /\ pos' = pos + n
          /\ \/ Last(Piece(n)) = "L" /\ OnLine(Chomp(Piece(n)))
             \/ Last(Piece(n)) # "L" /\ UNCHANGED <<dec, out, res>>

(* AsyncBody::poll_line: what has arrived, to its first LF at most, joins  *)
(* the line; the line's length is looked at only when no LF has come.      *)
Poll_line ==
  /\ kind = "chunked" /\ Reading /\ Same
  /\ \/ /\ More = 0 /\ pos' = pos
        /\ \/ dec.line = <<>> /\ OnEnd
           \/ dec.line # <<>> /\ Finish("eof")
     \/ \E n \in 1..More :
          /\ LineEnd = 0 \/ pos + n <= LineEnd
          /\ pos' = pos + n
          /\ LET l == dec.line \o Piece(n) IN
               \/ Last(l) = "L" /\ OnLine(Chomp(l))
               \/ Last(l) # "L" /\ Len(l) > MaxLine + 1 /\ Finish("invalid")
               \/ Last(l) # "L" /\ Len(l) <= MaxLine + 1
                    /\ dec' = [dec EXCEPT !.line = l] /\ UNCHANGED <<out, res>>

(* Payload, to the end of the caller's buffer or of what has arrived.      *)
Payload ==
  /\ res = "none" /\ dec.st = "data" /\ Same
  /\ \/ /\ More = 0 /\ pos' = pos
        /\ Chunked \/ (kind = "length" /\ dec.left > 0)
        /\ Finish("eof")
     \/ \E n \in 1..More :
          /\ kind # "close" => n <= dec.left
          /\ pos' = pos + n /\ out' = out \o Piece(n) /\ res' = res
          /\ dec' = IF kind = "close" THEN dec
                    ELSE [dec EXCEPT !.left = @ - n,
                                     !.st = IF Chunked /\ dec.left = n
                                              THEN "dataend" ELSE "data"]

(* The length has been read; the connection is closed.                     *)
Ended ==
  /\ res = "none" /\ Same /\ pos' = pos
  /\ (kind = "length" /\ dec.left = 0) \/ (kind = "close" /\ More = 0)
  /\ Finish("end")

-----------------------------------------------------------------------------
DecoderInit ==
  /\ kind \in Decoders /\ wire \in Wires /\ pos = 0 /\ out = <<>> /\ res = "none"
  /\ dec = [st   |-> IF Chunked THEN "size" ELSE "data",
            left |-> IF kind = "length" THEN Length ELSE 0, line |-> <<>>]

Decode == Read_line \/ Poll_line \/ Payload \/ Ended

-----------------------------------------------------------------------------
(* The body a wire stands for, by the format alone: what is in it, and     *)
(* how it ends.                                                            *)
Upto(w, i) == SelectInSubSeq(w, i, Len(w), LAMBDA c : c = "L")
Text(w, i) == Chomp(SubSeq(w, i, Upto(w, i)))

(* How the trailer section at i ends: after an empty line or with the      *)
(* stream, but not within a line.                                          *)
Begins(w, i) == {k \in i..Len(w) : k = i \/ w[k - 1] = "L"}
Trailer(w, i) ==
  IF \/ i > Len(w) \/ w[Len(w)] = "L"
     \/ \E k \in Begins(w, i) : Upto(w, k) # 0 /\ Text(w, k) = <<>>
    THEN "end" ELSE "eof"

(* The body from the payload at i on, n bytes of it, and the one from the  *)
(* size line at i on; rest[k] is the one from the size line at k on.       *)
Then(p, body) == [out |-> p \o body.out, res |-> body.res]
FromPayload(w, i, n, rest) ==
  LET k == i + n  \* the CRLF behind the payload
      p == SubSeq(w, i, IF k - 1 < Len(w) THEN k - 1 ELSE Len(w))
  IN IF k > Len(w) \/ Upto(w, k) = 0 THEN [out |-> p, res |-> "eof"]
     ELSE IF Text(w, k) # <<>> THEN [out |-> p, res |-> "invalid"]
     ELSE Then(p, rest[Upto(w, k) + 1])
FromSize(w, i, rest) ==
  LET j == Upto(w, i) IN
  IF i > Len(w) THEN [out |-> <<>>, res |-> "end"]
  ELSE IF j = 0 THEN [out |-> <<>>, res |-> "eof"]
  ELSE IF ~IsSize(Text(w, i)) THEN [out |-> <<>>, res |-> "invalid"]
  ELSE IF Size(Text(w, i)) = 0 THEN [out |-> <<>>, res |-> Trailer(w, j + 1)]
  ELSE FromPayload(w, j + 1, Size(Text(w, i)), rest)

BodyFrom(w) == LET b[i \in 1..Len(w) + 1] == FromSize(w, i, b) IN b
Body(w) == BodyFrom(w)[1]

(* The body the wire stands for under a framing.  A body of a known length *)
(* stops there and is an error when it is short; one without is all there  *)
(* is.                                                                     *)
Meant(framing) ==
  CASE framing = "chunked" -> Body(wire)
    [] framing = "length"  -> IF Length <= Len(wire) THEN [out |-> SubSeq(wire, 1, Length), res |-> "end"]
         ELSE [out |-> wire, res |-> "eof"]
    [] framing = "close"   -> [out |-> wire, res |-> "end"]

(* No line of the wire is longer than MAX_SIZE_LINE.                       *)
Fits(w) == \A i \in 1..Len(w) - MaxLine : \E j \in i..i + MaxLine : w[j] = "L"

-----------------------------------------------------------------------------
(* PROPERTIES *)

(* "Nothing is lost": a body that ends well is complete, wherever the      *)
(* connection was cut.  (For the wires in which "p" is payload and nothing *)
(* else is.)                                                               *)
NothingLost ==
  Chunked /\ Contains(wire, "p") /\ res = "end" => out = SelectSeq(wire, LAMBDA c : c = "p")
=============================================================================
