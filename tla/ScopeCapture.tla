---------------------------- MODULE ScopeCapture ----------------------------
(***************************************************************************)
(* LSCP/1, the frame a capture travels in, and ScopeCapture, what the      *)
(* crate makes of it (src/src/nets/scope_trace.rs).  Bytes are counted,    *)
(* not spelled: a frame is its header's fields, its descriptors, its       *)
(* counts, and how many bytes of it arrived.  Timing and flags are copied  *)
(* as they stand and left out.                                             *)
(***************************************************************************)
EXTENDS Integers, Sequences

CONSTANTS
  Shots,   \* the captures the scope takes, in order: see ShotsAssumption
  Labels,  \* the channel codes a caller asks for, 0 for 'A'
  Missing  \* a voltage that was not captured (NaN)

HEADER_SIZE == 64
CHANNEL_DESC_SIZE == 16
VERSION == 1
NO_SAMPLE == -32768

Newest == Len(Shots)

-----------------------------------------------------------------------------
(* A voltage in counts of a channel.                                       *)
Count(c, v) == IF v = Missing THEN NO_SAMPLE ELSE (v - c.offset) \div c.scale

(* A shot is a sequence of channels with their calibration, the voltages   *)
(* measured, as many in each, and whether the input clipped.  Voltages are *)
(* those of a count; the header has a bit for each of 16 channels.         *)
Channel == [code : 0..25, scale : Int, offset : Int, volts : Seq(Int \cup {Missing}),
            clipped : BOOLEAN]
ASSUME ShotsAssumption ==
  /\ Shots \in Seq(Seq(Channel))
  /\ \A n \in DOMAIN Shots : Len(Shots[n]) \in 1..16
  /\ \A n \in DOMAIN Shots : \A i, j \in DOMAIN Shots[n] :
       /\ Len(Shots[n][i].volts) = Len(Shots[n][j].volts)
       /\ Shots[n][i].code = Shots[n][j].code => i = j
  /\ \A n \in DOMAIN Shots : \A i \in DOMAIN Shots[n] :
       LET c == Shots[n][i] IN
       \A k \in DOMAIN c.volts : c.volts[k] # Missing =>
         /\ Count(c, c.volts[k]) \in Int \ {NO_SAMPLE}
         /\ Count(c, c.volts[k]) * c.scale + c.offset = c.volts[k]

(* What the daemon sends for shot n: the counts channel-major.             *)

Encode(n) ==
  LET s == Shots[n]
      size == Len(s[1].volts)
  IN [magic |-> TRUE, version |-> VERSION, seq |-> n, samples_per_channel |-> size,
      overflow_mask |-> {i \in 0..15 : i < Len(s) /\ s[i + 1].clipped},
      channels |-> [i \in 1..Len(s) |->
                      [code |-> s[i].code, scale |-> s[i].scale, offset |-> s[i].offset]],
      samples |-> [k \in 1..(size * Len(s)) |->
                     LET c == s[((k - 1) \div size) + 1] IN Count(c, c.volts[((k - 1) % size) + 1])],
      len |-> HEADER_SIZE + CHANNEL_DESC_SIZE * Len(s) + 2 * size * Len(s)]

(* What can be wrong with a frame: it is cut within the header, within the *)
(* descriptors, or within the samples (by half of one, or by one); it is   *)
(* another protocol's or version's; its header promises more samples than  *)
(* it carries; a descriptor names no channel.                              *)
Damage == {"none", "header", "descriptors", "half", "sample", "magic", "version", "promise", "code"}

Damaged(f, how) ==
  CASE how = "none" -> f
    [] how = "header" -> [f EXCEPT !.len = HEADER_SIZE - 1]
    [] how = "descriptors" -> [f EXCEPT !.len = HEADER_SIZE + CHANNEL_DESC_SIZE - 1]
    [] how = "half" -> [f EXCEPT !.len = @ - 1]
    [] how = "sample" -> [f EXCEPT !.len = @ - 2]
    [] how = "magic" -> [f EXCEPT !.magic = FALSE]
    [] how = "version" -> [f EXCEPT !.version = VERSION + 1]
    [] how = "promise" -> [f EXCEPT !.samples_per_channel = @ + 1]
    [] how = "code" -> [f EXCEPT !.channels[1].code = 26]

-----------------------------------------------------------------------------
DescriptorsEnd(f) == HEADER_SIZE + Len(f.channels) * CHANNEL_DESC_SIZE

(* Mutant: the payload is not measured.                                    *)
Decodes_AnyLength(f) ==
  /\ f.len >= HEADER_SIZE /\ f.magic /\ f.version = VERSION
  /\ f.len >= DescriptorsEnd(f)
  /\ \A i \in DOMAIN f.channels : f.channels[i].code <= 25

(* ScopeCapture::decode: when it succeeds, and the samples it takes from   *)
(* the bytes that arrived.                                                 *)
Decodes(f) ==
  /\ f.len >= HEADER_SIZE /\ f.magic /\ f.version = VERSION
  /\ f.len >= DescriptorsEnd(f)
  /\ \A i \in DOMAIN f.channels : f.channels[i].code <= 25
  /\ f.len - DescriptorsEnd(f) = f.samples_per_channel * Len(f.channels) * 2

Payload(f) == SubSeq(f.samples, 1, (f.len - DescriptorsEnd(f)) \div 2)

(* peek_seq: 0 for None; the daemon numbers its captures from 1.           *)
peek_seq(f) == IF f.len >= HEADER_SIZE /\ f.magic THEN f.seq ELSE 0

-----------------------------------------------------------------------------
(* A decoded capture, read one channel at a time.  channel_index is the    *)
(* position of the first channel of that label, the length of the list for *)
(* none (indices from 0, as in the code).                                  *)
channel_index(f, l) ==
  LET at == {i \in 0..(Len(f.channels) - 1) : f.channels[i + 1].code = l}
  IN IF at = {} THEN Len(f.channels) ELSE CHOOSE i \in at : \A j \in at : i <= j
Captured(f, l) == channel_index(f, l) < Len(f.channels)

counts(f, l) ==
  LET n == f.samples_per_channel
      i == channel_index(f, l)
  IN IF (i + 1) * n <= Len(Payload(f)) THEN SubSeq(Payload(f), i * n + 1, (i + 1) * n) ELSE <<>>

volts(f, l) ==
  LET c == f.channels[channel_index(f, l) + 1]
      raw == counts(f, l)
  IN [k \in DOMAIN raw |-> IF raw[k] = NO_SAMPLE THEN Missing ELSE raw[k] * c.scale + c.offset]

overflowed(f, l) ==
  /\ Captured(f, l) /\ channel_index(f, l) < 16
  /\ channel_index(f, l) \in f.overflow_mask

(* What a caller reads of a capture, label by label.                       *)
Reading(f) ==
  [l \in Labels |-> [volts |-> IF Captured(f, l) THEN volts(f, l) ELSE <<>>,
                    over |-> overflowed(f, l)]]

(* The same of the shot itself: what the scope measured.                   *)
Measured(n) ==
  [l \in Labels |->
     IF \E i \in DOMAIN Shots[n] : Shots[n][i].code = l
       THEN LET i == CHOOSE i \in DOMAIN Shots[n] : Shots[n][i].code = l
            IN [volts |-> Shots[n][i].volts, over |-> Shots[n][i].clipped]
       ELSE [volts |-> <<>>, over |-> FALSE]]
=============================================================================
