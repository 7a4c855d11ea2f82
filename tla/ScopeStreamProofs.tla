-------------------------- MODULE ScopeStreamProofs --------------------------
(***************************************************************************)
(* Theorems about ScopeStream and ScopeCapture, for any number of credits, *)
(* any shots and any damage.                                               *)
(*                                                                         *)
(* The window is an account: every credit is with the daemon, on its way,  *)
(* spent on a capture under way, or lost with a capture that was taken     *)
(* unpaid.  The captures under way are in order, and all behind the one    *)
(* last returned and the ones lost.                                        *)
(***************************************************************************)
EXTENDS ScopeStream, TLAPS, SequenceTheorems, FiniteSetTheorems

IsCapture(m) == m.kind = "capture"
NoCaptures == \A i \in DOMAIN toClient : ~IsCapture(toClient[i])
Total == CapturesUnderWay + daemon.credits + CreditsUnderWay + Cardinality(lost)

(* Before the daemon has read a Subscribe nothing has been captured or     *)
(* spent.                                                                  *)
Unspent ==
  /\ ~daemon.subscribed /\ daemon.credits = 0 /\ daemon.sent = 0
  /\ NoCaptures /\ lost = {} /\ cl.got = 0
  /\ \A i \in DOMAIN toBox : toBox[i] # "Credit"
Starts ==
  /\ cl.pc \in {"new", "refused", "ask"} =>
       cl.mode = "stream" /\ cl.res # "ok" /\ toBox = <<>> /\ Unspent
  /\ \A i \in DOMAIN toBox : toBox[i] = "Subscribe" => i = 1 /\ Unspent

(* What is sent in one mode is never sent in the other.                    *)
Modes ==
  /\ cl.mode = "stream" =>
       /\ cl.pc # "wait"
       /\ \A i \in DOMAIN toBox : toBox[i] # "GetTriggeredData"
  /\ cl.mode = "capture" =>
       /\ cl.pc \notin {"idle", "next"} /\ (cl.pc # "closed" => cl.got = 0 /\ cl.res # "ok")
       /\ ~daemon.subscribed /\ daemon.credits = 0
       /\ \A i \in DOMAIN toBox : toBox[i] \notin {"Subscribe", "Credit"}

(* The account of a stream.                                                *)
Account ==
  cl.mode = "stream" => Total <= Credits /\ (daemon.subscribed => Total = Credits)

(* The order of a stream.                                                  *)
Ordered ==
  /\ daemon.sent <= taken
  /\ cl.mode = "stream" =>
       /\ cl.got <= daemon.sent /\ \A n \in lost : n <= daemon.sent
       /\ \A i \in DOMAIN toClient : IsCapture(toClient[i]) =>
            /\ toClient[i].seq <= daemon.sent /\ toClient[i].seq > cl.got
            /\ \A n \in lost : toClient[i].seq > n
            /\ \A j \in DOMAIN toClient : IsCapture(toClient[j]) /\ i < j =>
                 toClient[i].seq < toClient[j].seq

(* A reply that names a capture names one no older than the question.      *)
Acked(n) == n = 0 \/ (cl.mode = "capture" /\ n >= cl.asked)
Replies ==
  /\ cl.asked <= taken /\ Acked(cl.acked)
  /\ \A i \in DOMAIN toClient : toClient[i].kind = "reply" => Acked(toClient[i].seq)

IInv ==
  /\ TypeOK /\ Starts /\ Modes /\ Account /\ Ordered /\ Replies
  /\ CaptureIsLatest /\ ReadsAsMeasured

-----------------------------------------------------------------------------
(* ScopeCapture: a frame that decodes is the one that was sent, and reads  *)
(* as it was measured.                                                     *)
LEMMA DivMod ==
  ASSUME NEW n \in Nat \ {0}, NEW a \in Nat, NEW r \in 0..(n - 1)
  PROVE  (a * n + r) \div n = a /\ (a * n + r) % n = r
BY SMT

LEMMA Times ==
  ASSUME NEW n \in Nat, NEW a \in Nat, NEW b \in Nat, a <= b
  PROVE  a * n \in Nat /\ b * n \in Nat /\ a * n <= b * n
BY SMT

(* How many samples each channel of a shot has.                            *)
Size(n) == Len(Shots[n][1].volts)

LEMMA ShotIs ==
  ASSUME NEW n \in 1..Newest
  PROVE  /\ Shots[n] \in Seq(Channel) /\ Len(Shots[n]) \in 1..16 /\ Size(n) \in Nat
         /\ DOMAIN Shots[n] = 1..Len(Shots[n])
         /\ \A i \in 1..Len(Shots[n]) :
              /\ Shots[n][i] \in Channel /\ Len(Shots[n][i].volts) = Size(n)
              /\ Shots[n][i].volts \in [1..Size(n) -> Int \cup {Missing}]
<1>1. n \in DOMAIN Shots /\ Shots[n] \in Seq(Channel) /\ Len(Shots[n]) \in 1..16
  BY ShotsAssumption DEF Newest
<1>2. DOMAIN Shots[n] = 1..Len(Shots[n]) /\ 1 \in DOMAIN Shots[n]
  BY <1>1
<1>3. \A i \in 1..Len(Shots[n]) : Shots[n][i] \in Channel /\ Len(Shots[n][i].volts) = Size(n)
  BY <1>1, <1>2, ShotsAssumption DEF Size
<1>4. \A i \in 1..Len(Shots[n]) : Shots[n][i].volts \in Seq(Int \cup {Missing})
  BY <1>3 DEF Channel
<1>5. Size(n) \in Nat /\ \A i \in 1..Len(Shots[n]) :
        Shots[n][i].volts \in [1..Size(n) -> Int \cup {Missing}]
  BY <1>2, <1>3, <1>4, LenProperties
<1> QED BY <1>1, <1>2, <1>3, <1>5

(* The frame of a shot.                                                    *)
Flags(n) == {i \in 0..15 : i < Len(Shots[n]) /\ Shots[n][i + 1].clipped}
Descriptors(n) == [i \in 1..Len(Shots[n]) |->
  [code |-> Shots[n][i].code, scale |-> Shots[n][i].scale, offset |-> Shots[n][i].offset]]
Sample(n, k) ==
  LET c == Shots[n][((k - 1) \div Size(n)) + 1] IN Count(c, c.volts[((k - 1) % Size(n)) + 1])
Samples(n) == [k \in 1..(Size(n) * Len(Shots[n])) |-> Sample(n, k)]
Length(n) == HEADER_SIZE + CHANNEL_DESC_SIZE * Len(Shots[n]) + 2 * Size(n) * Len(Shots[n])

LEMMA EncodeIs ==
  ASSUME NEW n
  PROVE  Encode(n) = [magic |-> TRUE, version |-> VERSION, seq |-> n,
                      samples_per_channel |-> Size(n), overflow_mask |-> Flags(n),
                      channels |-> Descriptors(n), samples |-> Samples(n), len |-> Length(n)]
BY Zenon DEF Encode, Size, Flags, Descriptors, Sample, Samples, Length

LEMMA FrameIs ==
  ASSUME NEW n
  PROVE  /\ Encode(n).magic = TRUE /\ Encode(n).version = 1 /\ Encode(n).seq = n
         /\ Encode(n).samples_per_channel = Size(n) /\ Encode(n).overflow_mask = Flags(n)
         /\ Encode(n).channels = Descriptors(n) /\ Encode(n).samples = Samples(n)
         /\ Encode(n).len = Length(n)
         /\ DOMAIN Encode(n) = {"magic", "version", "seq", "samples_per_channel",
                                "overflow_mask", "channels", "samples", "len"}
BY EncodeIs DEF VERSION

(* What multiplies where: each fact below is used with the products named. *)
LEMMA Products ==
  ASSUME NEW s \in Nat, NEW k \in Nat
  PROVE  s * k \in Nat /\ 2 * s * k = 2 * (s * k) /\ s * k * 2 = 2 * (s * k) /\ k * s = s * k
BY SMT

LEMMA NextMultiple ==
  ASSUME NEW s \in Nat, NEW i \in Nat
  PROVE  i * s = (i - 1) * s + s
BY SMT

(* How many bytes the frame of a shot has.                                 *)
LEMMA LengthIs ==
  ASSUME NEW n \in 1..Newest
  PROVE  Encode(n).len = 64 + 16 * Len(Shots[n]) + 2 * (Size(n) * Len(Shots[n]))
<1>1. Size(n) \in Nat /\ Len(Shots[n]) \in Nat
  BY ShotIs
<1>2. 2 * Size(n) * Len(Shots[n]) = 2 * (Size(n) * Len(Shots[n]))
  BY <1>1, Products, Zenon
<1>3. Encode(n).len = Length(n)
  BY FrameIs, Zenon
<1> QED BY <1>2, <1>3, Zenon DEF Length, HEADER_SIZE, CHANNEL_DESC_SIZE

LEMMA DescriptorsAre ==
  ASSUME NEW n \in 1..Newest
  PROVE  /\ Len(Descriptors(n)) = Len(Shots[n]) /\ DOMAIN Descriptors(n) = 1..Len(Shots[n])
         /\ \A i \in 1..Len(Shots[n]) :
              Descriptors(n)[i] = [code |-> Shots[n][i].code, scale |-> Shots[n][i].scale,
                                   offset |-> Shots[n][i].offset]
<1>1. Len(Shots[n]) \in Nat
  BY ShotIs
<1>2. DOMAIN Descriptors(n) = 1..Len(Shots[n]) /\ Len(Descriptors(n)) = Len(Shots[n])
  BY <1>1 DEF Descriptors
<1> QED BY <1>2 DEF Descriptors

(* Whatever happens to a frame, it keeps its number, and a damaged one     *)
(* does not decode.                                                        *)
LEMMA DamageShows ==
  ASSUME NEW n \in 1..Newest, NEW how \in Damage
  PROVE  /\ Damaged(Encode(n), how).seq = n
         /\ Decodes(Damaged(Encode(n), how)) => how = "none"
<1> DEFINE f == Encode(n)
           k == Len(Shots[n])
           p == Size(n) * k
           d == Damaged(f, how)
<1> SUFFICES d.seq = n /\ (Decodes(d) => how = "none")
  OBVIOUS
<1>a. k \in 1..16
  BY ShotIs
<1>1. k \in 1..16 /\ Size(n) \in Nat /\ p \in Nat
  <2>1. k \in Nat /\ Size(n) \in Nat
    BY ShotIs
  <2>2. p \in Nat
    BY <2>1, Products, Zenon
  <2> QED BY <1>a, <2>1, <2>2
<1>2. f.len = 64 + 16 * k + 2 * p
  BY LengthIs, Zenon
<1>3. /\ f.seq = n /\ f.samples_per_channel = Size(n) /\ f.channels = Descriptors(n)
      /\ "magic" \in DOMAIN f /\ "version" \in DOMAIN f /\ "seq" \in DOMAIN f
      /\ "samples_per_channel" \in DOMAIN f /\ "channels" \in DOMAIN f /\ "len" \in DOMAIN f
  BY FrameIs
<1>4. Len(f.channels) = k /\ DOMAIN f.channels = 1..k /\ "code" \in DOMAIN f.channels[1]
  <2>1. Len(Descriptors(n)) = k /\ DOMAIN Descriptors(n) = 1..k
    BY DescriptorsAre
  <2>5. \A m \in 1..16 : 1 \in 1..m
    OBVIOUS
  <2>2. 1 \in 1..Len(Shots[n])
    BY <1>a, <2>5, Zenon
  <2>3. Descriptors(n)[1] = [code |-> Shots[n][1].code, scale |-> Shots[n][1].scale,
                             offset |-> Shots[n][1].offset]
    BY <2>2, DescriptorsAre
  <2>4. "code" \in DOMAIN Descriptors(n)[1]
    BY <2>3
  <2> QED BY <1>3, <2>1, <2>4
<1> HIDE DEF f, k
<1>5. Decodes(d) =>
        /\ d.len >= 64 /\ d.magic /\ d.version = 1
        /\ \A i \in DOMAIN d.channels : d.channels[i].code <= 25
        /\ d.len - (64 + Len(d.channels) * 16) = d.samples_per_channel * Len(d.channels) * 2
  BY DEF Decodes, DescriptorsEnd, HEADER_SIZE, CHANNEL_DESC_SIZE, VERSION
<1>6. CASE how = "none"
  <2>1. d = f
    BY <1>6 DEF Damaged
  <2> QED BY <1>3, <1>6, <2>1
<1>7. CASE how \in {"header", "descriptors", "half", "sample"}
  <2>1. PICK m \in Int : d = [f EXCEPT !.len = m] /\ m # 64 + 16 * k + 2 * p
    <3>1. CASE how = "header"
      <4>1. d = [f EXCEPT !.len = 63] /\ 63 # 64 + 16 * k + 2 * p
        BY <1>1, <3>1 DEF Damaged, HEADER_SIZE
      <4> QED BY <4>1
    <3>2. CASE how = "descriptors"
      <4>1. d = [f EXCEPT !.len = 79] /\ 79 # 64 + 16 * k + 2 * p
        BY <1>1, <3>2 DEF Damaged, HEADER_SIZE, CHANNEL_DESC_SIZE
      <4> QED BY <4>1
    <3>3. CASE how = "half"
      <4>1. d = [f EXCEPT !.len = f.len - 1] /\ f.len - 1 # 64 + 16 * k + 2 * p /\ f.len - 1 \in Int
        BY <1>1, <1>2, <3>3 DEF Damaged
      <4> QED BY <4>1
    <3>4. CASE how = "sample"
      <4>1. d = [f EXCEPT !.len = f.len - 2] /\ f.len - 2 # 64 + 16 * k + 2 * p /\ f.len - 2 \in Int
        BY <1>1, <1>2, <3>4 DEF Damaged
      <4> QED BY <4>1
    <3> QED BY <1>7, <3>1, <3>2, <3>3, <3>4
  <2>2. /\ d.len = m /\ d.seq = n /\ d.channels = f.channels
        /\ d.samples_per_channel = Size(n)
    BY <1>3, <2>1
  <2> HIDE DEF d
  <2>3. Size(n) * k * 2 = 2 * p
    <3>1. k \in Nat
      BY <1>1
    <3> QED BY <1>1, <3>1, Products, Zenon
  <2> HIDE DEF p
  <2>4. m - (64 + k * 16) # 2 * p
    BY <1>1, <2>1
  <2>5. ~Decodes(d)
    BY <1>4, <1>5, <2>2, <2>3, <2>4
  <2> QED BY <2>2, <2>5
<1>8. CASE how = "magic"
  <2>1. d.magic = FALSE /\ d.seq = n
    BY <1>3, <1>8 DEF Damaged
  <2> HIDE DEF d
  <2>2. ~Decodes(d)
    BY <1>5, <2>1
  <2> QED BY <2>1, <2>2
<1>9. CASE how = "version"
  <2>1. d.version = 2 /\ d.seq = n
    BY <1>3, <1>9 DEF Damaged, VERSION
  <2> HIDE DEF d
  <2>2. ~Decodes(d)
    BY <1>5, <2>1
  <2> QED BY <2>1, <2>2
<1>10. CASE how = "promise"
  <2>1. d.samples_per_channel = Size(n) + 1 /\ d.seq = n /\ d.len = f.len /\ d.channels = f.channels
    BY <1>3, <1>10 DEF Damaged
  <2>2. (Size(n) + 1) * k * 2 = 2 * p + 2 * k
    BY <1>1
  <2> HIDE DEF d, p
  <2>3. f.len - (64 + k * 16) # 2 * p + 2 * k
    BY <1>1, <1>2
  <2>4. ~Decodes(d)
    BY <1>4, <1>5, <2>1, <2>2, <2>3
  <2> QED BY <2>1, <2>4
<1>11. CASE how = "code"
  <2>1. d = [f EXCEPT !.channels[1].code = 26]
    BY <1>11 DEF Damaged
  <2>2. d.seq = n /\ d.channels = [f.channels EXCEPT ![1].code = 26]
    BY <1>3, <2>1
  <2>3. 1 \in DOMAIN d.channels /\ d.channels[1].code = 26
    <3> DEFINE g == f.channels
               h == d.channels
    <3>1. h = [g EXCEPT ![1].code = 26]
      BY <2>2
    <3>3. 1 \in DOMAIN g /\ "code" \in DOMAIN g[1]
      BY <1>1, <1>4
    <3> HIDE DEF g, h
    <3>2. 1 \in DOMAIN h /\ h[1].code = 26
      BY <3>1, <3>3
    <3> QED BY <3>2 DEF h
  <2> HIDE DEF d
  <2>4. ~Decodes(d)
    BY <1>5, <2>3
  <2> QED BY <2>2, <2>4
<1> QED BY <1>6, <1>7, <1>8, <1>9, <1>10, <1>11 DEF Damage

(* A slice of a sequence.                                                  *)
LEMMA SliceIs ==
  ASSUME NEW s, NEW n \in Nat, DOMAIN s = 1..n, NEW a \in Nat, NEW z \in Nat, a + z <= n,
         NEW t, t = SubSeq(s, a + 1, a + z)
  PROVE  DOMAIN t = 1..z /\ \A q \in 1..z : t[q] = s[a + q]
<1> DEFINE x == a + 1
           y == a + z
           S == {s[i] : i \in x..y}
<1>1. x \in Int /\ y \in Int /\ y - x + 1 = z /\ (x <= y <=> z > 0) /\ \A q \in 1..z : x + q - 1 = a + q
  OBVIOUS
<1>2. t = SubSeq(s, x, y) /\ \A i \in x..y : s[i] \in S
  OBVIOUS
<1> HIDE DEF S, x, y
<1>3. /\ SubSeq(s, x, y) \in Seq(S) /\ Len(SubSeq(s, x, y)) = IF x <= y THEN y - x + 1 ELSE 0
      /\ \A i \in 1..y - x + 1 : SubSeq(s, x, y)[i] = s[x + i - 1]
  BY <1>1, <1>2, SubSeqProperties
<1>4. Len(t) = z /\ t \in Seq(S)
  BY <1>1, <1>2, <1>3
<1>5. DOMAIN t = 1..z
  BY <1>4, LenProperties
<1>6. \A q \in 1..z : t[q] = s[x + q - 1]
  BY <1>1, <1>2, <1>3, Zenon
<1>7. \A q \in 1..z : t[q] = s[a + q]
  BY <1>1, <1>6, Zenon
<1> QED BY <1>5, <1>7

(* The counts of channel i are a slice of the samples.                     *)
LEMMA CountsAre ==
  ASSUME NEW n \in 1..Newest, NEW i \in 1..Len(Shots[n])
  PROVE  LET raw == SubSeq(Payload(Encode(n)), (i - 1) * Size(n) + 1, i * Size(n))
         IN /\ i * Size(n) <= Len(Payload(Encode(n))) /\ DOMAIN raw = 1..Size(n)
            /\ \A q \in 1..Size(n) : raw[q] = Count(Shots[n][i], Shots[n][i].volts[q])
<1> DEFINE k == Len(Shots[n])
           p == Size(n) * k
           a == (i - 1) * Size(n)
           b == i * Size(n)
           f == Encode(n)
           raw == SubSeq(Payload(f), a + 1, b)
<1> SUFFICES /\ b <= Len(Payload(f)) /\ DOMAIN raw = 1..Size(n)
             /\ \A q \in 1..Size(n) : raw[q] = Count(Shots[n][i], Shots[n][i].volts[q])
  OBVIOUS
<1>1. k \in 1..16 /\ Size(n) \in Nat /\ p \in Nat
  <2>1. k \in 1..16 /\ k \in Nat /\ Size(n) \in Nat
    BY ShotIs
  <2>2. p \in Nat
    BY <2>1, Products, Zenon
  <2> QED BY <2>1, <2>2
<1>2. a \in Nat /\ b \in Nat /\ b <= p /\ b = a + Size(n)
  <2>1. i \in Nat /\ i - 1 \in Nat /\ k \in Nat /\ i <= k
    BY <1>1
  <2>2. b \in Nat /\ b <= k * Size(n)
    BY <1>1, <2>1, Times, Zenon
  <2>3. a \in Nat
    BY <1>1, <2>1, Products, Zenon
  <2>4. k * Size(n) = p
    BY <1>1, <2>1, Products, Zenon
  <2>5. b = a + Size(n)
    BY <1>1, <2>1, NextMultiple, Zenon
  <2> QED BY <2>2, <2>3, <2>4, <2>5, Zenon
<1>3. f.len = 64 + 16 * k + 2 * p /\ Len(f.channels) = k /\ f.samples = Samples(n)
  <2>1. f.len = 64 + 16 * k + 2 * p
    BY LengthIs, Zenon
  <2>2. f.channels = Descriptors(n) /\ f.samples = Samples(n)
    BY FrameIs
  <2>3. Len(Descriptors(n)) = k
    BY DescriptorsAre
  <2> QED BY <2>1, <2>2, <2>3
<1>4. DOMAIN Samples(n) = 1..p /\ \A x \in 1..p : Samples(n)[x] = Sample(n, x)
  BY DEF Samples
<1> HIDE DEF k, p, a, b, f
<1>5. (f.len - DescriptorsEnd(f)) \div 2 = p
  BY <1>1, <1>3 DEF DescriptorsEnd, HEADER_SIZE, CHANNEL_DESC_SIZE
<1>6. Payload(f) = SubSeq(Samples(n), 0 + 1, 0 + p)
  BY <1>1, <1>3, <1>5 DEF Payload
<1>7. DOMAIN Payload(f) = 1..p /\ \A x \in 1..p : Payload(f)[x] = Sample(n, x)
  BY <1>1, <1>4, <1>6, SliceIs
<1>8. Len(Payload(f)) = p
  BY <1>1, <1>6
<1>9. DOMAIN raw = 1..Size(n) /\ \A q \in 1..Size(n) : raw[q] = Sample(n, a + q)
  <2>1. raw = SubSeq(Payload(f), a + 1, a + Size(n)) /\ a + Size(n) <= p
    BY <1>2
  <2> DEFINE all == Payload(f)
             z == Size(n)
  <2>2. DOMAIN all = 1..p /\ p \in Nat /\ a \in Nat /\ z \in Nat
    BY <1>1, <1>2, <1>7
  <2>4. raw = SubSeq(all, a + 1, a + z) /\ a + z <= p
    BY <2>1
  <2> HIDE DEF raw, all, z
  <2>5. DOMAIN raw = 1..z /\ \A q \in 1..z : raw[q] = all[a + q]
    BY <2>2, <2>4, SliceIs
  <2>3. \A q \in 1..z : a + q \in 1..p
    BY <2>2, <2>4
  <2> QED BY <1>7, <2>3, <2>5 DEF all, z
<1>10. ASSUME NEW q \in 1..Size(n)
       PROVE  Sample(n, a + q) = Count(Shots[n][i], Shots[n][i].volts[q])
  <2>1. Size(n) \in Nat \ {0} /\ i - 1 \in Nat /\ q - 1 \in 0..(Size(n) - 1)
    BY <1>1, ShotIs
  <2>2. /\ ((i - 1) * Size(n) + (q - 1)) \div Size(n) = i - 1
        /\ ((i - 1) * Size(n) + (q - 1)) % Size(n) = q - 1
    BY <2>1, DivMod
  <2>3. (a + q) - 1 = a + (q - 1)
    BY <1>2, <2>1
  <2>4. ((a + q) - 1) \div Size(n) = i - 1 /\ ((a + q) - 1) % Size(n) = q - 1
    BY <2>2, <2>3, Zenon DEF a
  <2>5. (i - 1) + 1 = i /\ (q - 1) + 1 = q
    BY <1>1 DEF k
  <2> QED BY <2>4, <2>5, Zenon DEF Sample
<1> QED BY <1>2, <1>8, <1>9, <1>10

(* The position of the channel with a label.                               *)
LEMMA IndexIs ==
  ASSUME NEW n \in 1..Newest, NEW l
  PROVE  /\ \A i \in 1..Len(Shots[n]) : Shots[n][i].code = l =>
              channel_index(Encode(n), l) = i - 1
         /\ (\A i \in 1..Len(Shots[n]) : Shots[n][i].code # l) =>
              channel_index(Encode(n), l) = Len(Shots[n])
<1> DEFINE k == Len(Shots[n])
           at == {i \in 0..(Len(Encode(n).channels) - 1) : Encode(n).channels[i + 1].code = l}
<1>1. k \in 1..16 /\ Encode(n).channels = Descriptors(n) /\ Len(Descriptors(n)) = k
  BY ShotIs, FrameIs, DescriptorsAre
<1>2. ASSUME NEW i \in 1..Len(Shots[n])
      PROVE  Descriptors(n)[i].code = Shots[n][i].code
  <2>1. Descriptors(n)[i] = [code |-> Shots[n][i].code, scale |-> Shots[n][i].scale,
                             offset |-> Shots[n][i].offset]
    BY DescriptorsAre
  <2> QED BY <2>1
<1>3. channel_index(Encode(n), l) =
        IF at = {} THEN Len(Encode(n).channels) ELSE CHOOSE i \in at : \A j \in at : i <= j
  BY Zenon DEF channel_index
<1>4. at = {i \in 0..(k - 1) : Shots[n][i + 1].code = l}
  BY <1>1, <1>2
<1> HIDE DEF at
<1>5. ASSUME NEW i \in 1..Len(Shots[n]), Shots[n][i].code = l
      PROVE  channel_index(Encode(n), l) = i - 1
  <2>1. \A j \in 1..Len(Shots[n]) : Shots[n][j].code = l => j = i
    <3>1. n \in DOMAIN Shots /\ DOMAIN Shots[n] = 1..Len(Shots[n])
      BY ShotIs, ShotsAssumption DEF Newest
    <3> QED BY <1>5, <3>1, ShotsAssumption
  <2>2. at = {i - 1}
    BY <1>1, <1>4, <1>5, <2>1
  <2>3. (CHOOSE x \in at : \A j \in at : x <= j) = i - 1
    BY <1>1, <2>2
  <2> QED BY <1>3, <2>2, <2>3
<1>6. ASSUME \A i \in 1..Len(Shots[n]) : Shots[n][i].code # l
      PROVE  channel_index(Encode(n), l) = Len(Shots[n])
  <2>1. at = {}
    BY <1>1, <1>4, <1>6
  <2> QED BY <1>1, <1>3, <2>1
<1> QED BY <1>5, <1>6

(* What a caller reads of the frame of a shot is what the shot measured.   *)
LEMMA ReadsRight ==
  ASSUME NEW n \in 1..Newest
  PROVE  Reading(Encode(n)) = Measured(n)
<1> DEFINE f == Encode(n)
           read(l) == [volts |-> IF Captured(f, l) THEN volts(f, l) ELSE <<>>,
                       over |-> overflowed(f, l)]
           shot(l) == IF \E i \in DOMAIN Shots[n] : Shots[n][i].code = l
                        THEN LET i == CHOOSE i \in DOMAIN Shots[n] : Shots[n][i].code = l
                             IN [volts |-> Shots[n][i].volts, over |-> Shots[n][i].clipped]
                        ELSE [volts |-> <<>>, over |-> FALSE]
<1>1. Reading(f) = [l \in Labels |-> read(l)] /\ Measured(n) = [l \in Labels |-> shot(l)]
  BY Zenon DEF Reading, Measured
<1>2. /\ n \in DOMAIN Shots /\ DOMAIN Shots[n] = 1..Len(Shots[n]) /\ Len(Shots[n]) \in 1..16
      /\ Size(n) \in Nat
  BY ShotIs, ShotsAssumption DEF Newest
<1>3. f.channels = Descriptors(n) /\ Len(Descriptors(n)) = Len(Shots[n]) /\ f.overflow_mask = Flags(n)
      /\ f.samples_per_channel = Size(n)
  BY FrameIs, DescriptorsAre
<1>4. ASSUME NEW l \in Labels, NEW i \in 1..Len(Shots[n]), Shots[n][i].code = l
      PROVE  read(l) = shot(l)
  <2> DEFINE c == Shots[n][i]
  <2>1. shot(l) = [volts |-> c.volts, over |-> c.clipped]
    <3>1. \A j \in DOMAIN Shots[n] : Shots[n][j].code = l => j = i
      BY <1>2, <1>4, ShotsAssumption
    <3>2. (CHOOSE j \in DOMAIN Shots[n] : Shots[n][j].code = l) = i
      BY <1>2, <1>4, <3>1
    <3> QED BY <1>2, <1>4, <3>2, Zenon
  <2>2. channel_index(f, l) = i - 1 /\ Captured(f, l)
    BY <1>2, <1>3, <1>4, IndexIs DEF Captured
  <2>3. overflowed(f, l) <=> c.clipped
    <3>1. overflowed(f, l) <=> i - 1 \in Flags(n)
      <4>1. i - 1 < 16
        <5>1. \A k \in 1..16 : \A j \in 1..k : j - 1 < 16
          OBVIOUS
        <5> QED BY <1>2, <5>1, Zenon
      <4> QED BY <1>3, <2>2, <4>1, Zenon DEF overflowed
    <3>2. i - 1 \in 0..15 /\ i - 1 < Len(Shots[n]) /\ (i - 1) + 1 = i
      <4>1. \A k \in 1..16 : \A j \in 1..k : j - 1 \in 0..15 /\ j - 1 < k /\ (j - 1) + 1 = j
        OBVIOUS
      <4> QED BY <1>2, <4>1, Zenon
    <3> QED BY <3>1, <3>2, Zenon DEF Flags
  <2>4. volts(f, l) = c.volts
    <3> DEFINE raw == SubSeq(Payload(f), (i - 1) * Size(n) + 1, i * Size(n))
    <3>1. /\ i * Size(n) <= Len(Payload(f)) /\ DOMAIN raw = 1..Size(n)
          /\ \A q \in 1..Size(n) : raw[q] = Count(c, c.volts[q])
      BY CountsAre, Zenon
    <3>2. counts(f, l) = raw
      <4>1. (i - 1) + 1 = i
        BY <1>2
      <4> QED BY <1>3, <2>2, <3>1, <4>1, Zenon DEF counts
    <3> HIDE DEF raw
    <3>3. volts(f, l) = [q \in DOMAIN raw |-> IF raw[q] = NO_SAMPLE THEN Missing
                                               ELSE raw[q] * c.scale + c.offset]
      <4>1. (i - 1) + 1 = i
        BY <1>2
      <4>2. /\ f.channels[channel_index(f, l) + 1].scale = c.scale
            /\ f.channels[channel_index(f, l) + 1].offset = c.offset
        <5>1. Descriptors(n)[i].scale = c.scale /\ Descriptors(n)[i].offset = c.offset
          <6>1. Descriptors(n)[i] = [code |-> c.code, scale |-> c.scale, offset |-> c.offset]
            BY DescriptorsAre
          <6> QED BY <6>1
        <5> QED BY <1>3, <2>2, <4>1, <5>1, Zenon
      <4> HIDE DEF c, f
      <4> QED BY <3>2, <4>2, Zenon DEF volts
    <3>4. c.volts \in [1..Size(n) -> Int \cup {Missing}]
      BY ShotIs
    <3>5. \A q \in 1..Size(n) : c.volts[q] # Missing =>
            Count(c, c.volts[q]) # NO_SAMPLE /\ Count(c, c.volts[q]) * c.scale + c.offset = c.volts[q]
      <4>1. i \in DOMAIN Shots[n] /\ DOMAIN c.volts = 1..Size(n)
        BY <1>2, <3>4
      <4> QED BY <1>2, <4>1, ShotsAssumption
    <3>6. \A q \in 1..Size(n) : c.volts[q] = Missing => Count(c, c.volts[q]) = NO_SAMPLE
      BY DEF Count
    <3> DEFINE v == c.volts
               r == [q \in DOMAIN raw |-> IF raw[q] = NO_SAMPLE THEN Missing
                                          ELSE raw[q] * c.scale + c.offset]
    <3>7. \A q \in 1..Size(n) : r[q] = v[q]
      <4> SUFFICES ASSUME NEW q \in 1..Size(n)
                   PROVE  r[q] = v[q]
        OBVIOUS
      <4>1. raw[q] = Count(c, v[q])
        BY <3>1, Zenon
      <4>2. r[q] = IF raw[q] = NO_SAMPLE THEN Missing ELSE raw[q] * c.scale + c.offset
        BY <3>1, Zenon
      <4>3. CASE v[q] = Missing
        BY <3>6, <4>1, <4>2, <4>3, Zenon
      <4>4. CASE v[q] # Missing
        BY <3>5, <4>1, <4>2, <4>4, Zenon
      <4> QED BY <4>3, <4>4, Zenon
    <3>8. r = [q \in 1..Size(n) |-> r[q]]
      BY <3>1, Zenon
    <3>9. v = [q \in 1..Size(n) |-> v[q]]
      BY <3>4
    <3> HIDE DEF r, v
    <3>10. [q \in 1..Size(n) |-> r[q]] = [q \in 1..Size(n) |-> v[q]]
      BY <3>7, Zenon
    <3>11. r = v
      BY <3>8, <3>9, <3>10, Zenon
    <3> QED BY <3>3, <3>11, Zenon DEF r, v
  <2>5. c.clipped \in BOOLEAN /\ overflowed(f, l) \in BOOLEAN
    BY ShotIs DEF Channel, overflowed
  <2>6. overflowed(f, l) = c.clipped
    BY <2>3, <2>5, Zenon
  <2> QED BY <2>1, <2>2, <2>4, <2>6, Zenon
<1>5. ASSUME NEW l \in Labels, \A i \in 1..Len(Shots[n]) : Shots[n][i].code # l
      PROVE  read(l) = shot(l)
  <2>1. shot(l) = [volts |-> <<>>, over |-> FALSE]
    BY <1>2, <1>5, Zenon
  <2>2. channel_index(f, l) = Len(Shots[n])
    BY <1>5, IndexIs
  <2>3. ~Captured(f, l)
    BY <1>2, <1>3, <2>2 DEF Captured
  <2>4. overflowed(f, l) = FALSE
    BY <2>3, Zenon DEF overflowed
  <2> QED BY <2>1, <2>3, <2>4, Zenon
<1>6. \A l \in Labels : read(l) = shot(l)
  BY <1>4, <1>5, Zenon
<1> HIDE DEF read, shot
<1> QED BY <1>1, <1>6, Zenon

-----------------------------------------------------------------------------
(* Counting the messages of a queue.                                       *)
LEMMA NumberIs ==
  ASSUME NEW S, NEW q \in Seq(S), NEW K
  PROVE  /\ Number(q, K) \in Nat /\ IsFiniteSet({i \in DOMAIN q : q[i] \in K})
         /\ Number(q, K) = 0 <=> \A i \in DOMAIN q : q[i] \notin K
<1> DEFINE I == {i \in DOMAIN q : q[i] \in K}
<1>1. Len(q) \in Nat /\ DOMAIN q = 1..Len(q)
  BY LenProperties
<1>2. IsFiniteSet(1..Len(q)) /\ I \subseteq 1..Len(q)
  BY <1>1, FS_Interval
<1>3. IsFiniteSet(I)
  BY <1>2, FS_Subset
<1>4. Cardinality(I) \in Nat /\ (Cardinality(I) = 0 <=> I = {})
  BY <1>3, FS_CardinalityType, FS_EmptySet
<1>5. Number(q, K) = Cardinality(I)
  BY DEF Number
<1> QED BY <1>3, <1>4, <1>5

LEMMA NumberAppend ==
  ASSUME NEW S, NEW q \in Seq(S), NEW m \in S, NEW K
  PROVE  /\ m \in K => Number(Append(q, m), K) = Number(q, K) + 1
         /\ m \notin K => Number(Append(q, m), K) = Number(q, K)
<1> DEFINE I == {i \in DOMAIN q : q[i] \in K}
           J == {i \in DOMAIN Append(q, m) : Append(q, m)[i] \in K}
           n == Len(q)
<1>1. n \in Nat /\ DOMAIN q = 1..n
  BY LenProperties
<1>2. /\ DOMAIN Append(q, m) = 1..(n + 1) /\ Append(q, m)[n + 1] = m
      /\ \A i \in 1..n : Append(q, m)[i] = q[i]
  BY <1>1, AppendProperties, LenProperties
<1>3. IsFiniteSet(I) /\ Cardinality(I) \in Nat
  BY NumberIs, FS_CardinalityType
<1>7. n + 1 \notin I
  BY <1>1
<1>4. J = IF m \in K THEN I \cup {n + 1} ELSE I
  BY <1>1, <1>2
<1> HIDE DEF I, J
<1>5. /\ m \in K => Cardinality(J) = Cardinality(I) + 1
      /\ m \notin K => Cardinality(J) = Cardinality(I)
  <2>1. Cardinality(I \cup {n + 1}) = Cardinality(I) + 1
    BY <1>3, <1>7, FS_AddElement
  <2> QED BY <1>3, <1>4, <2>1
<1>6. Number(q, K) = Cardinality(I) /\ Number(Append(q, m), K) = Cardinality(J)
  BY DEF Number, I, J
<1> QED BY <1>5, <1>6

LEMMA NumberTail ==
  ASSUME NEW S, NEW q \in Seq(S), q # <<>>, NEW K
  PROVE  /\ Head(q) \in K => Number(q, K) = Number(Tail(q), K) + 1
         /\ Head(q) \notin K => Number(q, K) = Number(Tail(q), K)
<1> DEFINE I == {i \in DOMAIN q : q[i] \in K}
           J == {i \in DOMAIN Tail(q) : Tail(q)[i] \in K}
           n == Len(q)
           f == [i \in J |-> i + 1]
<1>1. n \in Nat \ {0} /\ DOMAIN q = 1..n /\ Head(q) = q[1]
  BY LenProperties
<1>2. DOMAIN Tail(q) = 1..(n - 1) /\ \A i \in 1..(n - 1) : Tail(q)[i] = q[i + 1]
  BY <1>1, HeadTailProperties, LenProperties
<1>3. IsFiniteSet(I) /\ Cardinality(I) \in Nat
  BY NumberIs, FS_CardinalityType
<1>4. Tail(q) \in Seq(S)
  BY HeadTailProperties
<1>5. IsFiniteSet(J) /\ Cardinality(J) \in Nat
  BY <1>4, NumberIs, FS_CardinalityType
<1>6. f \in Bijection(J, I \ {1})
  <2>1. \A i \in J : i \in 1..(n - 1) /\ q[i + 1] \in K
    BY <1>2
  <2>2. \A i \in J : i + 1 \in I \ {1}
    BY <1>1, <2>1
  <2>3. \A j \in I \ {1} : j - 1 \in J /\ (j - 1) + 1 = j
    BY <1>1, <1>2
  <2>4. J \subseteq Int
    BY <1>2
  <2> HIDE DEF I, J
  <2>5. f \in [J -> I \ {1}] /\ \A j \in I \ {1} : \E i \in J : f[i] = j
    BY <2>2, <2>3
  <2>6. \A i, j \in J : f[i] = f[j] => i = j
    BY <2>4
  <2> HIDE DEF f
  <2> QED BY <2>5, <2>6 DEF Bijection, Injection, Surjection, IsInjective
<1>7. Cardinality(I \ {1}) = Cardinality(J)
  BY <1>5, <1>6, FS_Bijection DEF ExistsBijection
<1>8. Cardinality(I \ {1}) = IF 1 \in I THEN Cardinality(I) - 1 ELSE Cardinality(I)
  BY <1>3, FS_RemoveElement
<1>9. 1 \in I <=> Head(q) \in K
  BY <1>1
<1>10. Number(q, K) = Cardinality(I) /\ Number(Tail(q), K) = Cardinality(J)
  BY DEF Number
<1> HIDE DEF I, J
<1> QED BY <1>3, <1>5, <1>7, <1>8, <1>9, <1>10

-----------------------------------------------------------------------------
(* The two queues and what is under way on them.                           *)
LEMMA UnderWay ==
  ASSUME TypeOK
  PROVE  /\ CapturesUnderWay \in Nat /\ CreditsUnderWay \in Nat /\ Cardinality(lost) \in Nat
         /\ IsFiniteSet(lost)
         /\ NoCaptures => CapturesUnderWay = 0
         /\ (\A i \in DOMAIN toBox : toBox[i] # "Credit") => CreditsUnderWay = 0
<1>1. toClient \in Seq(Captures \cup Texts) /\ toBox \in Seq(Commands) /\ lost \subseteq 1..Newest
      /\ Newest \in Nat
  BY ShotsAssumption DEF TypeOK, Newest
<1>2. CapturesUnderWay \in Nat /\ CreditsUnderWay \in Nat
  BY <1>1, NumberIs DEF CapturesUnderWay, CreditsUnderWay
<1>3. IsFiniteSet(lost) /\ Cardinality(lost) \in Nat
  <2>1. IsFiniteSet(1..Newest)
    BY <1>1, FS_Interval
  <2>2. IsFiniteSet(lost)
    BY <1>1, <2>1, FS_Subset
  <2> QED BY <2>2, FS_CardinalityType
<1>4. ASSUME NoCaptures
      PROVE  CapturesUnderWay = 0
  <2>1. \A i \in DOMAIN toClient : toClient[i] \notin Captures
    BY <1>4 DEF NoCaptures, IsCapture, Captures
  <2> QED BY <1>1, <2>1, NumberIs DEF CapturesUnderWay
<1>5. ASSUME \A i \in DOMAIN toBox : toBox[i] # "Credit"
      PROVE  CreditsUnderWay = 0
  <2>1. \A i \in DOMAIN toBox : toBox[i] \notin {"Credit"}
    BY <1>5
  <2> QED BY <1>1, <2>1, NumberIs DEF CreditsUnderWay
<1> QED BY <1>2, <1>3, <1>4, <1>5

LEMMA Kinds ==
  ASSUME NEW m \in Captures \cup Texts
  PROVE  /\ m \in Captures <=> IsCapture(m)
         /\ IsCapture(m) => m.seq \in 1..Newest /\ m.how \in Damage
         /\ m.seq \in 0..Newest
BY ShotsAssumption DEF Captures, Texts, IsCapture, Unasked, Newest

LEMMA Reads ==
  ASSUME TypeOK, Arrived, Received
  PROVE  /\ Msg \in Captures \cup Texts /\ toClient' \in Seq(Captures \cup Texts)
         /\ 1 \in DOMAIN toClient /\ Msg = toClient[1]
         /\ DOMAIN toClient \subseteq Nat \ {0} /\ DOMAIN toClient' \subseteq Nat \ {0}
         /\ \E d \in {0, 1} :
              /\ IsCapture(Msg) => d = 1
              /\ \A i \in DOMAIN toClient' : i + d \in DOMAIN toClient /\ toClient'[i] = toClient[i + d]
         /\ CapturesUnderWay' \in Nat
         /\ IsCapture(Msg) => CapturesUnderWay = CapturesUnderWay' + 1
         /\ ~IsCapture(Msg) => CapturesUnderWay = CapturesUnderWay'
<1>1. toClient \in Seq(Captures \cup Texts) /\ toClient # <<>>
  BY DEF TypeOK, Arrived
<1>2. /\ DOMAIN toClient = 1..Len(toClient) /\ Len(toClient) \in Nat \ {0}
      /\ Msg \in Captures \cup Texts /\ Msg = toClient[1]
  BY <1>1, HeadTailProperties, LenProperties DEF Msg
<1>3. CASE Msg.kind = "close"
  <2>1. toClient' = toClient /\ ~IsCapture(Msg)
    BY <1>3 DEF Received, IsCapture
  <2>2. CapturesUnderWay' = CapturesUnderWay /\ CapturesUnderWay \in Nat
    BY <2>1, UnderWay DEF CapturesUnderWay
  <2>3. \A i \in DOMAIN toClient' : i + 0 \in DOMAIN toClient /\ toClient'[i] = toClient[i + 0]
    BY <1>2, <2>1
  <2> QED BY <1>1, <1>2, <2>1, <2>2, <2>3
<1>4. CASE Msg.kind # "close"
  <2>1. toClient' = Tail(toClient)
    BY <1>4 DEF Received
  <2>2. toClient' \in Seq(Captures \cup Texts) /\ DOMAIN toClient' = 1..(Len(toClient) - 1)
        /\ \A i \in 1..(Len(toClient) - 1) : toClient'[i] = toClient[i + 1]
    BY <1>1, <1>2, <2>1, HeadTailProperties, LenProperties
  <2>3. /\ Msg \in Captures => CapturesUnderWay = CapturesUnderWay' + 1
        /\ Msg \notin Captures => CapturesUnderWay = CapturesUnderWay'
    BY <1>1, <2>1, NumberTail DEF CapturesUnderWay, Msg
  <2>6. CapturesUnderWay' \in Nat
    BY <2>2, NumberIs DEF CapturesUnderWay
  <2>4. \A i \in DOMAIN toClient' : i + 1 \in DOMAIN toClient /\ toClient'[i] = toClient[i + 1]
    BY <1>2, <2>2
  <2>5. Msg \in Captures <=> IsCapture(Msg)
    BY <1>2, Kinds
  <2> QED BY <1>2, <2>2, <2>3, <2>4, <2>5, <2>6
<1> QED BY <1>3, <1>4

LEMMA Delivers ==
  ASSUME TypeOK, NEW m \in Captures \cup Texts, toClient' = Append(toClient, m)
  PROVE  /\ toClient' \in Seq(Captures \cup Texts) /\ Len(toClient) \in Nat
         /\ DOMAIN toClient = 1..Len(toClient) /\ DOMAIN toClient' = 1..(Len(toClient) + 1)
         /\ toClient'[Len(toClient) + 1] = m
         /\ \A i \in 1..Len(toClient) : toClient'[i] = toClient[i]
         /\ IsCapture(m) => CapturesUnderWay' = CapturesUnderWay + 1
         /\ ~IsCapture(m) => CapturesUnderWay' = CapturesUnderWay
<1>1. toClient \in Seq(Captures \cup Texts)
  BY DEF TypeOK
<1>2. /\ m \in Captures => CapturesUnderWay' = CapturesUnderWay + 1
      /\ m \notin Captures => CapturesUnderWay' = CapturesUnderWay
  BY <1>1, NumberAppend DEF CapturesUnderWay
<1>3. m \in Captures <=> IsCapture(m)
  BY Kinds
<1>4. Len(toClient) \in Nat /\ DOMAIN toClient = 1..Len(toClient)
  BY <1>1, LenProperties
<1>5. /\ toClient' \in Seq(Captures \cup Texts) /\ DOMAIN toClient' = 1..(Len(toClient) + 1)
      /\ toClient'[Len(toClient) + 1] = m
      /\ \A i \in 1..Len(toClient) : toClient'[i] = toClient[i]
  BY <1>1, AppendProperties, LenProperties
<1> QED BY <1>2, <1>3, <1>4, <1>5

LEMMA Sends ==
  ASSUME TypeOK, NEW c \in Commands, Send(c)
  PROVE  /\ toBox' \in Seq(Commands) /\ Len(toBox) \in Nat
         /\ DOMAIN toBox = 1..Len(toBox) /\ DOMAIN toBox' = 1..(Len(toBox) + 1)
         /\ toBox'[Len(toBox) + 1] = c
         /\ \A i \in 1..Len(toBox) : toBox'[i] = toBox[i]
         /\ c = "Credit" => CreditsUnderWay' = CreditsUnderWay + 1
         /\ c # "Credit" => CreditsUnderWay' = CreditsUnderWay
<1>1. toBox \in Seq(Commands) /\ toBox' = Append(toBox, c)
  BY DEF TypeOK, Send
<1>2. /\ c \in {"Credit"} => CreditsUnderWay' = CreditsUnderWay + 1
      /\ c \notin {"Credit"} => CreditsUnderWay' = CreditsUnderWay
  BY <1>1, NumberAppend DEF CreditsUnderWay
<1>4. Len(toBox) \in Nat /\ DOMAIN toBox = 1..Len(toBox)
  BY <1>1, LenProperties
<1>5. /\ toBox' \in Seq(Commands) /\ DOMAIN toBox' = 1..(Len(toBox) + 1)
      /\ toBox'[Len(toBox) + 1] = c
      /\ \A i \in 1..Len(toBox) : toBox'[i] = toBox[i]
  BY <1>1, AppendProperties, LenProperties
<1> QED BY <1>2, <1>4, <1>5

LEMMA Commanded ==
  ASSUME TypeOK, NEW c \in Commands, Command(c)
  PROVE  /\ toBox' \in Seq(Commands) /\ 1 \in DOMAIN toBox /\ toBox[1] = c /\ toBox # <<>>
         /\ DOMAIN toBox \subseteq Nat /\ DOMAIN toBox' \subseteq Nat \ {0}
         /\ \A i \in DOMAIN toBox' : i + 1 \in DOMAIN toBox /\ toBox'[i] = toBox[i + 1]
         /\ c = "Credit" => CreditsUnderWay = CreditsUnderWay' + 1
         /\ c # "Credit" => CreditsUnderWay = CreditsUnderWay'
         /\ CreditsUnderWay' \in Nat
<1>1. toBox \in Seq(Commands) /\ toBox # <<>> /\ toBox' = Tail(toBox) /\ Head(toBox) = c
  BY DEF TypeOK, Command
<1>2. /\ c \in {"Credit"} => CreditsUnderWay = CreditsUnderWay' + 1
      /\ c \notin {"Credit"} => CreditsUnderWay = CreditsUnderWay'
  BY <1>1, NumberTail DEF CreditsUnderWay
<1>3. /\ DOMAIN toBox = 1..Len(toBox) /\ Len(toBox) \in Nat \ {0} /\ toBox[1] = c
  BY <1>1, LenProperties
<1>4. toBox' \in Seq(Commands) /\ DOMAIN toBox' = 1..(Len(toBox) - 1)
      /\ \A i \in 1..(Len(toBox) - 1) : toBox'[i] = toBox[i + 1]
  BY <1>1, <1>3, HeadTailProperties, LenProperties
<1>5. CreditsUnderWay' \in Nat
  BY <1>4, NumberIs DEF CreditsUnderWay
<1> QED BY <1>2, <1>3, <1>4, <1>5

(* A capture under way: its frame keeps its number, and reads right when   *)
(* it decodes.                                                             *)
LEMMA FrameOfIs ==
  ASSUME NEW m \in Captures
  PROVE  /\ peek_seq(FrameOf(m)) \in {0, m.seq}
         /\ Decodes(FrameOf(m)) => Reading(FrameOf(m)) = Measured(m.seq)
         /\ Reading(FrameOf(m)) \in Readings
<1>1. m.seq \in 1..Newest /\ m.how \in Damage
  BY DEF Captures
<1>6. FrameOf(m) = Damaged(Encode(m.seq), m.how)
  BY <1>1 DEF FrameOf, Frames
<1>2. FrameOf(m).seq = m.seq /\ (Decodes(FrameOf(m)) => m.how = "none")
  BY <1>1, <1>6, DamageShows
<1>3. m.how = "none" => FrameOf(m) = Encode(m.seq)
  BY <1>6 DEF Damaged
<1>4. Reading(FrameOf(m)) \in Readings
  BY Zenon DEF Readings
<1>5. peek_seq(FrameOf(m)) \in {0, m.seq}
  BY <1>2, Zenon DEF peek_seq
<1> QED BY <1>1, <1>2, <1>3, <1>4, <1>5, ReadsRight

-----------------------------------------------------------------------------
(* The invariant, action by action.                                        *)
Typed ==
  /\ taken \in 0..Newest /\ Newest \in Nat /\ daemon.sent \in 0..Newest
  /\ daemon.subscribed \in BOOLEAN /\ daemon.owes \in BOOLEAN
  /\ Credits \in Nat \ {0} /\ daemon.credits \in 0..Credits
  /\ cl.got \in 0..Newest /\ cl.asked \in 0..Newest /\ cl.acked \in 0..Newest
  /\ CapturesUnderWay \in Nat /\ CreditsUnderWay \in Nat /\ Cardinality(lost) \in Nat
Parts ==
  /\ Typed /\ TypeOK /\ Starts /\ Modes /\ Account /\ Ordered /\ Replies
  /\ CaptureIsLatest /\ ReadsAsMeasured

LEMMA Unpacked ==
  ASSUME IInv
  PROVE  Parts
<1>1. TypeOK
  BY DEF IInv
<1>2. Newest \in Nat /\ Credits \in Nat \ {0}
  BY ShotsAssumption, StreamAssumption DEF Newest
<1>3. CapturesUnderWay \in Nat /\ CreditsUnderWay \in Nat /\ Cardinality(lost) \in Nat
  BY <1>1, UnderWay
<1>4. Typed
  BY <1>1, <1>2, <1>3 DEF Typed, TypeOK, Subscriber, Reader
<1> QED BY <1>1, <1>4 DEF IInv, Parts

(* What an action leaves alone.                                            *)
Still == UNCHANGED <<daemon, toBox, toClient, lost>>
Same ==
  /\ cl'.mode = cl.mode /\ cl'.asked = cl.asked /\ cl'.acked = cl.acked
  /\ cl'.got = cl.got /\ cl'.read = cl.read

LEMMA StillCounts ==
  ASSUME Still
  PROVE  /\ CapturesUnderWay' = CapturesUnderWay /\ CreditsUnderWay' = CreditsUnderWay
         /\ Total' = Total /\ daemon' = daemon /\ toBox' = toBox /\ toClient' = toClient
         /\ lost' = lost
BY DEF Still, CapturesUnderWay, CreditsUnderWay, Total

LEMMA OpenKeeps ==
  ASSUME IInv, Open
  PROVE  IInv'
<1>1. Parts
  BY Unpacked
<1>2. Still
  BY DEF Open, Still
<1>3. /\ CapturesUnderWay' = CapturesUnderWay /\ CreditsUnderWay' = CreditsUnderWay
      /\ Total' = Total /\ daemon' = daemon /\ toBox' = toBox /\ toClient' = toClient
      /\ lost' = lost
  BY <1>2, StillCounts
<1>4. /\ cl.pc = "new" /\ cl' \in Reader /\ Same /\ cl'.pc \in {"ask", "refused"}
      /\ cl'.res = cl.res \/ cl'.res \in OpenFailure
      /\ UNCHANGED <<taken, texts>>
  BY <1>1 DEF Parts, TypeOK, Open, Reader, Same
<1>5. TypeOK'
  BY <1>1, <1>2, <1>3, <1>4 DEF Parts, TypeOK
<1>6. Starts'
  BY <1>1, <1>2, <1>3, <1>4 DEF Parts, Starts, Unspent, NoCaptures, OpenFailure, Same
<1>7. Modes'
  BY <1>1, <1>2, <1>3, <1>4 DEF Parts, Modes, Same, Starts
<1>8. Account'
  BY <1>1, <1>2, <1>3, <1>4 DEF Parts, Account, Total, Same
<1>9. Ordered'
  BY <1>1, <1>2, <1>3, <1>4 DEF Parts, Ordered, Same
<1>10. Replies'
  BY <1>1, <1>2, <1>3, <1>4 DEF Parts, Replies, Acked, Same
<1>11. CaptureIsLatest'
  BY <1>1, <1>2, <1>3, <1>4 DEF Parts, CaptureIsLatest, Same, Starts
<1>12. ReadsAsMeasured'
  BY <1>1, <1>2, <1>3, <1>4 DEF Parts, ReadsAsMeasured, Same
<1> QED BY <1>5, <1>6, <1>7, <1>8, <1>9, <1>10, <1>11, <1>12 DEF IInv

LEMMA NextCaptureKeeps ==
  ASSUME IInv, NextCapture
  PROVE  IInv'
<1>1. Parts
  BY Unpacked
<1>2. Still
  BY DEF NextCapture, Still
<1>3. /\ CapturesUnderWay' = CapturesUnderWay /\ CreditsUnderWay' = CreditsUnderWay
      /\ Total' = Total /\ daemon' = daemon /\ toBox' = toBox /\ toClient' = toClient
      /\ lost' = lost
  BY <1>2, StillCounts
<1>4. /\ cl.pc = "idle" /\ cl' \in Reader /\ Same /\ cl'.pc = "next" /\ cl'.res = "none"
      /\ UNCHANGED <<taken, texts>>
  BY <1>1 DEF Parts, TypeOK, NextCapture, Reader, Same
<1>5. TypeOK'
  BY <1>1, <1>2, <1>3, <1>4 DEF Parts, TypeOK
<1>6. Starts'
  BY <1>1, <1>2, <1>3, <1>4 DEF Parts, Starts, Unspent, NoCaptures, Same
<1>7. Modes'
  BY <1>1, <1>2, <1>3, <1>4 DEF Parts, Modes, Same
<1>8. Account'
  BY <1>1, <1>2, <1>3, <1>4 DEF Parts, Account, Total, Same
<1>9. Ordered'
  BY <1>1, <1>2, <1>3, <1>4 DEF Parts, Ordered, Same
<1>10. Replies'
  BY <1>1, <1>2, <1>3, <1>4 DEF Parts, Replies, Acked, Same
<1>11. CaptureIsLatest'
  BY <1>1, <1>2, <1>3, <1>4 DEF Parts, CaptureIsLatest, Same
<1>12. ReadsAsMeasured'
  BY <1>1, <1>2, <1>3, <1>4 DEF Parts, ReadsAsMeasured, Same
<1> QED BY <1>5, <1>6, <1>7, <1>8, <1>9, <1>10, <1>11, <1>12 DEF IInv

LEMMA TakeKeeps ==
  ASSUME IInv, Take
  PROVE  IInv'
<1>1. Parts
  BY Unpacked
<1>2. Still
  BY DEF Take, Still
<1>3. /\ CapturesUnderWay' = CapturesUnderWay /\ CreditsUnderWay' = CreditsUnderWay
      /\ Total' = Total /\ daemon' = daemon /\ toBox' = toBox /\ toClient' = toClient
      /\ lost' = lost
  BY <1>2, StillCounts
<1>4. taken' = taken + 1 /\ taken < Newest /\ UNCHANGED <<cl, texts>>
  BY DEF Take
<1>5. TypeOK'
  BY <1>1, <1>2, <1>3, <1>4 DEF Parts, TypeOK, Typed
<1>6. Starts'
  BY <1>1, <1>2, <1>3, <1>4 DEF Parts, Starts, Unspent, NoCaptures
<1>7. Modes'
  BY <1>1, <1>2, <1>3, <1>4 DEF Parts, Modes
<1>8. Account'
  BY <1>1, <1>2, <1>3, <1>4 DEF Parts, Account, Total
<1>9. Ordered'
  BY <1>1, <1>2, <1>3, <1>4 DEF Parts, Ordered, Typed
<1>10. Replies'
  BY <1>1, <1>2, <1>3, <1>4 DEF Parts, Replies, Acked, Typed
<1>11. CaptureIsLatest'
  BY <1>1, <1>2, <1>3, <1>4 DEF Parts, CaptureIsLatest
<1>12. ReadsAsMeasured'
  BY <1>1, <1>2, <1>3, <1>4 DEF Parts, ReadsAsMeasured
<1> QED BY <1>5, <1>6, <1>7, <1>8, <1>9, <1>10, <1>11, <1>12 DEF IInv

(* The queue to the box gets a Close or nothing.                           *)
Hush == toBox' = toBox \/ Send("Close")

LEMMA HushKeeps ==
  ASSUME TypeOK, Hush
  PROVE  /\ toBox' \in Seq(Commands) /\ CreditsUnderWay' = CreditsUnderWay
         /\ \A i \in DOMAIN toBox' :
              \/ toBox'[i] = "Close"
              \/ i \in DOMAIN toBox /\ toBox'[i] = toBox[i]
<1>1. CASE toBox' = toBox
  BY <1>1 DEF TypeOK, CreditsUnderWay
<1>2. CASE Send("Close")
  <2>1. "Close" \in Commands
    BY DEF Commands
  <2> HIDE DEF Commands
  <2>2. CreditsUnderWay' = CreditsUnderWay /\ toBox' \in Seq(Commands)
    BY <1>2, <2>1, Sends, UnderWay
  <2>3. \A i \in DOMAIN toBox' :
          \/ toBox'[i] = "Close"
          \/ i \in DOMAIN toBox /\ toBox'[i] = toBox[i]
    BY <1>2, <2>1, Sends
  <2> QED BY <2>2, <2>3
<1> QED BY <1>1, <1>2 DEF Hush

(* A message read: what stays in order, and what of a reply.               *)
LEMMA ReadKeepsOrder ==
  ASSUME Parts, Arrived, Received, UNCHANGED <<taken, daemon>>, cl'.mode = cl.mode,
         cl'.got = cl.got \/ (IsCapture(Msg) /\ cl'.got = Msg.seq),
         lost' = lost \/ (IsCapture(Msg) /\ lost' = lost \cup {Msg.seq})
  PROVE  Ordered'
<1>1. TypeOK /\ Typed /\ Ordered
  BY DEF Parts
<1>2. /\ 1 \in DOMAIN toClient /\ Msg = toClient[1]
      /\ DOMAIN toClient \subseteq Nat \ {0} /\ DOMAIN toClient' \subseteq Nat \ {0}
  BY <1>1, Reads
<1>3. PICK d \in {0, 1} :
        /\ IsCapture(Msg) => d = 1
        /\ \A i \in DOMAIN toClient' : i + d \in DOMAIN toClient /\ toClient'[i] = toClient[i + d]
  BY <1>1, Reads
<1>4. \A i \in DOMAIN toClient : toClient[i].seq \in Nat
  <2>1. \A i \in DOMAIN toClient : toClient[i] \in Captures \cup Texts
    BY <1>1, LenProperties DEF TypeOK
  <2>2. Newest \in Nat
    BY <1>1 DEF Typed
  <2> QED BY <2>1, <2>2, Kinds
<1>5. daemon.sent' <= taken'
  BY <1>1 DEF Ordered
<1>6. SUFFICES ASSUME cl.mode = "stream"
               PROVE  /\ cl'.got <= daemon.sent /\ \A n \in lost' : n <= daemon.sent
                      /\ \A i \in DOMAIN toClient' : IsCapture(toClient'[i]) =>
                           /\ toClient'[i].seq <= daemon.sent /\ toClient'[i].seq > cl'.got
                           /\ \A n \in lost' : toClient'[i].seq > n
                           /\ \A j \in DOMAIN toClient' : IsCapture(toClient'[j]) /\ i < j =>
                                toClient'[i].seq < toClient'[j].seq
  BY <1>5 DEF Ordered
<1>7. /\ cl.got <= daemon.sent /\ \A n \in lost : n <= daemon.sent
      /\ \A i \in DOMAIN toClient : IsCapture(toClient[i]) =>
           /\ toClient[i].seq <= daemon.sent /\ toClient[i].seq > cl.got
           /\ \A n \in lost : toClient[i].seq > n
           /\ \A j \in DOMAIN toClient : IsCapture(toClient[j]) /\ i < j =>
                toClient[i].seq < toClient[j].seq
  BY <1>1, <1>6 DEF Ordered
<1>8. cl'.got <= daemon.sent /\ \A n \in lost' : n <= daemon.sent
  BY <1>2, <1>7
<1>9. ASSUME NEW i \in DOMAIN toClient', IsCapture(toClient'[i])
      PROVE  /\ toClient'[i].seq <= daemon.sent /\ toClient'[i].seq > cl'.got
             /\ \A n \in lost' : toClient'[i].seq > n
             /\ \A j \in DOMAIN toClient' : IsCapture(toClient'[j]) /\ i < j =>
                  toClient'[i].seq < toClient'[j].seq
  <2>1. i + d \in DOMAIN toClient /\ toClient'[i] = toClient[i + d] /\ i \in Nat \ {0}
    BY <1>2, <1>3
  <2>2. IsCapture(Msg) => 1 < i + d /\ Msg.seq < toClient[i + d].seq
    BY <1>2, <1>3, <1>7, <1>9, <2>1
  <2>3. toClient'[i].seq <= daemon.sent /\ toClient'[i].seq > cl'.got
        /\ \A n \in lost' : toClient'[i].seq > n
    BY <1>7, <1>9, <2>1, <2>2
  <2>4. ASSUME NEW j \in DOMAIN toClient', IsCapture(toClient'[j]), i < j
        PROVE  toClient'[i].seq < toClient'[j].seq
    <3>1. j + d \in DOMAIN toClient /\ toClient'[j] = toClient[j + d] /\ j \in Nat \ {0}
      BY <1>2, <1>3
    <3>2. i + d < j + d
      BY <1>3, <2>1, <2>4, <3>1
    <3> QED BY <1>7, <1>9, <2>1, <2>4, <3>1, <3>2
  <2> QED BY <2>3, <2>4
<1> QED BY <1>8, <1>9

LEMMA ReadKeepsReplies ==
  ASSUME Parts, Arrived, Received, taken' = taken, cl'.mode = cl.mode, cl'.asked = cl.asked,
         cl'.acked = cl.acked \/ (Msg.kind = "reply" /\ cl'.acked = Msg.seq)
  PROVE  Replies'
<1>1. TypeOK /\ Replies
  BY DEF Parts
<1>2. 1 \in DOMAIN toClient /\ Msg = toClient[1]
  BY <1>1, Reads
<1>3. \A i \in DOMAIN toClient' : \E j \in DOMAIN toClient : toClient'[i] = toClient[j]
  BY <1>1, Reads
<1>4. \A i \in DOMAIN toClient : toClient[i].kind = "reply" => Acked(toClient[i].seq)
  BY <1>1 DEF Replies
<1>5. Acked(cl'.acked) /\ cl.asked <= taken
  BY <1>1, <1>2, <1>4 DEF Replies
<1>6. \A i \in DOMAIN toClient' : toClient'[i].kind = "reply" => Acked(toClient'[i].seq)
  BY <1>3, <1>4
<1> QED BY <1>5, <1>6 DEF Replies, Acked

(* A message read for which no credit is given: lost when it is a capture. *)
LEMMA UnpaidCounts ==
  ASSUME Parts, Arrived, Received, cl.mode = "stream", daemon' = daemon,
         CreditsUnderWay' = CreditsUnderWay,
         IsCapture(Msg) => lost' = lost \cup {Msg.seq}, ~IsCapture(Msg) => lost' = lost
  PROVE  Total' = Total
<1>1. /\ 1 \in DOMAIN toClient /\ Msg = toClient[1] /\ Msg \in Captures \cup Texts
      /\ CapturesUnderWay' \in Nat
      /\ IsCapture(Msg) => CapturesUnderWay = CapturesUnderWay' + 1
      /\ ~IsCapture(Msg) => CapturesUnderWay = CapturesUnderWay'
  BY Reads DEF Parts
<1>2. /\ CapturesUnderWay \in Nat /\ CreditsUnderWay \in Nat /\ Cardinality(lost) \in Nat
      /\ daemon.credits \in Nat /\ Newest \in Nat
  BY DEF Parts, Typed
<1>3. CASE IsCapture(Msg)
  <2>1. \A n \in lost : Msg.seq > n
    BY <1>1, <1>3 DEF Parts, Ordered
  <2>2. Msg.seq \in 1..Newest
    BY <1>1, <1>3, Kinds
  <2>3. Msg.seq \notin lost
    BY <1>2, <2>1, <2>2
  <2>4. IsFiniteSet(lost)
    BY UnderWay DEF Parts
  <2>5. Cardinality(lost') = Cardinality(lost) + 1
    BY <1>3, <2>3, <2>4, FS_AddElement
  <2> QED BY <1>1, <1>2, <1>3, <2>5 DEF Total
<1>4. CASE ~IsCapture(Msg)
  BY <1>1, <1>2, <1>4 DEF Total
<1> QED BY <1>3, <1>4

LEMMA ReadReplyKeeps ==
  ASSUME IInv, ReadReply
  PROVE  IInv'
<1>1. Parts
  BY Unpacked
<1>2. /\ cl.pc = "reply" /\ cl' \in Reader /\ cl'.mode = cl.mode /\ cl'.asked = cl.asked
      /\ cl'.got = cl.got /\ cl'.read = cl.read
      /\ cl'.acked = cl.acked \/ (Msg.kind = "reply" /\ cl'.acked = Msg.seq)
      /\ \/ cl'.pc = "reply" /\ cl'.res = cl.res
         \/ cl'.pc = (IF cl.mode = "stream" THEN "idle" ELSE "wait") /\ cl'.res = cl.res
         \/ cl'.pc = "closed" /\ cl'.res = "error"
      /\ UNCHANGED <<taken, daemon, texts>>
  <2>1. cl \in Reader /\ TypeOK /\ Arrived /\ Received
    BY <1>1 DEF Parts, TypeOK, ReadReply
  <2>2. Msg \in Captures \cup Texts
    BY <2>1, Reads
  <2>3. Msg.seq \in 0..Newest
    BY <2>2, Kinds
  <2> QED BY <2>1, <2>3 DEF ReadReply, Over, Reader
<1>3. /\ 1 \in DOMAIN toClient /\ Msg = toClient[1] /\ Msg \in Captures \cup Texts
      /\ toClient' \in Seq(Captures \cup Texts)
      /\ \A i \in DOMAIN toClient' : \E j \in DOMAIN toClient : toClient'[i] = toClient[j]
      /\ CapturesUnderWay' \in Nat
      /\ IsCapture(Msg) => CapturesUnderWay = CapturesUnderWay' + 1
      /\ ~IsCapture(Msg) => CapturesUnderWay = CapturesUnderWay'
  <2>1. Arrived /\ Received /\ TypeOK
    BY <1>1 DEF Parts, ReadReply
  <2>2. toClient' \in Seq(Captures \cup Texts)
    BY <2>1, Reads
  <2> QED BY <2>1, <2>2, Reads
<1>4. /\ toBox' \in Seq(Commands) /\ CreditsUnderWay' = CreditsUnderWay
      /\ \A i \in DOMAIN toBox' :
           \/ toBox'[i] = "Close"
           \/ i \in DOMAIN toBox /\ toBox'[i] = toBox[i]
  <2>1. Hush /\ TypeOK
    BY <1>1 DEF Parts, ReadReply, Over, Hush
  <2> QED BY <2>1, HushKeeps
<1>5. /\ lost' \subseteq 1..Newest
      /\ lost' = lost \/ (IsCapture(Msg) /\ lost' = lost \cup {Msg.seq})
      /\ ~IsCapture(Msg) => lost' = lost
  <2>1. lost \subseteq 1..Newest
    BY <1>1 DEF Parts, TypeOK
  <2>2. IsCapture(Msg) => Msg.seq \in 1..Newest
    BY <1>3, Kinds
  <2> QED BY <2>1, <2>2 DEF ReadReply, Unpaid, IsCapture
<1>6. cl.mode = "stream" => Total' = Total
  BY <1>1, <1>2, <1>4, <1>5, UnpaidCounts DEF ReadReply, Unpaid, IsCapture
<1>7. TypeOK'
  BY <1>1, <1>2, <1>3, <1>4, <1>5, <1>6 DEF Parts, TypeOK
<1>8. Starts'
  BY <1>1, <1>2, <1>3, <1>4, <1>5, <1>6 DEF Parts, Starts, Unspent, NoCaptures
<1>9. Modes'
  BY <1>1, <1>2, <1>3, <1>4, <1>5, <1>6 DEF Parts, Modes
<1>10. Account'
  BY <1>1, <1>2, <1>6 DEF Parts, Account
<1>11. Ordered'
  BY <1>1, <1>2, <1>5, ReadKeepsOrder DEF ReadReply
<1>12. Replies'
  BY <1>1, <1>2, ReadKeepsReplies DEF ReadReply
<1>13. CaptureIsLatest'
  BY <1>1, <1>2, <1>3, <1>4, <1>5, <1>6 DEF Parts, CaptureIsLatest, Modes
<1>14. ReadsAsMeasured'
  BY <1>1, <1>2, <1>3, <1>4, <1>5, <1>6 DEF Parts, ReadsAsMeasured
<1> QED BY <1>7, <1>8, <1>9, <1>10, <1>11, <1>12, <1>13, <1>14 DEF IInv

LEMMA TookIs ==
  ASSUME Parts, NEW m \in Captures
  PROVE  /\ Took(cl, m) \in Reader /\ Took(cl, m).got = m.seq /\ Took(cl, m).res = "ok"
         /\ Took(cl, m).mode = cl.mode /\ Took(cl, m).asked = cl.asked
         /\ Took(cl, m).acked = cl.acked
         /\ Decodes(FrameOf(m)) => Took(cl, m).read = Measured(m.seq)
<1>1. cl \in Reader /\ m.seq \in 0..Newest
  BY Kinds DEF Parts, TypeOK
<1>2. Reading(FrameOf(m)) \in Readings
      /\ (Decodes(FrameOf(m)) => Reading(FrameOf(m)) = Measured(m.seq))
  BY FrameOfIs
<1> QED BY <1>1, <1>2 DEF Took, Reader

LEMMA ReadNextKeeps ==
  ASSUME IInv, ReadNext
  PROVE  IInv'
<1>1. Parts
  BY Unpacked
<1>2. cl.pc = "next" /\ UNCHANGED <<taken, daemon, texts>> /\ Arrived /\ Received
      /\ cl \in Reader /\ cl.mode = "stream"
  BY <1>1 DEF Parts, TypeOK, Modes, ReadNext, Reader, Mode
<1>3. /\ 1 \in DOMAIN toClient /\ Msg = toClient[1] /\ Msg \in Captures \cup Texts
      /\ toClient' \in Seq(Captures \cup Texts)
      /\ \A i \in DOMAIN toClient' : \E j \in DOMAIN toClient : toClient'[i] = toClient[j]
      /\ CapturesUnderWay' \in Nat
      /\ IsCapture(Msg) => CapturesUnderWay = CapturesUnderWay' + 1
      /\ ~IsCapture(Msg) => CapturesUnderWay = CapturesUnderWay'
  <2>1. Arrived /\ Received /\ TypeOK
    BY <1>1 DEF Parts, ReadNext
  <2>2. toClient' \in Seq(Captures \cup Texts)
    BY <2>1, Reads
  <2> QED BY <2>1, <2>2, Reads
<1>4. /\ IsCapture(Msg) => Msg \in Captures /\ Msg.seq \in 1..Newest
      /\ IsCapture(Msg) => Reading(FrameOf(Msg)) \in Readings
      /\ IsCapture(Msg) /\ Decodes(FrameOf(Msg)) => Reading(FrameOf(Msg)) = Measured(Msg.seq)
  BY <1>3, Kinds, FrameOfIs
<1>5. \/ /\ IsCapture(Msg) /\ Decodes(FrameOf(Msg)) /\ Send("Credit") /\ lost' = lost
         /\ cl'.got = Msg.seq /\ cl'.read = Measured(Msg.seq) /\ cl'.res = "ok"
      \/ /\ cl'.got = cl.got /\ cl'.read = cl.read /\ toBox' = toBox
         /\ IsCapture(Msg) => lost' = lost \cup {Msg.seq}
         /\ ~IsCapture(Msg) => lost' = lost
  <2>1. CASE /\ Msg.kind = "capture" /\ Decodes(FrameOf(Msg))
             /\ cl' = [Took(cl, Msg) EXCEPT !.pc = "idle"] /\ Send("Credit")
    <3>1. cl'.got = Msg.seq /\ cl'.read = Measured(Msg.seq) /\ cl'.res = "ok"
      <4> DEFINE t == Took(cl, Msg)
      <4>1. t \in Reader /\ t.got = Msg.seq /\ t.res = "ok" /\ t.read = Measured(Msg.seq)
        <5>1. Msg \in Captures /\ Decodes(FrameOf(Msg))
          BY <1>4, <2>1 DEF IsCapture
        <5> QED BY <1>1, <5>1, TookIs, Zenon
      <4>2. cl' = [t EXCEPT !.pc = "idle"]
        BY <2>1
      <4> HIDE DEF t
      <4> QED BY <4>1, <4>2 DEF Reader
    <3>2. lost' = lost
      BY <3>1 DEF ReadNext, Unpaid
    <3> QED BY <2>1, <3>1, <3>2 DEF IsCapture
  <2>2. CASE cl' = [cl EXCEPT !.pc = "idle", !.res = "error"] /\ UNCHANGED toBox
    <3>1. cl'.got = cl.got /\ cl'.read = cl.read /\ cl'.res = "error"
      BY <1>2, <2>2 DEF Reader
    <3> QED BY <2>2, <3>1 DEF ReadNext, Unpaid, IsCapture
  <2>3. CASE Skipped(Msg) /\ UNCHANGED <<cl, toBox>>
    <3>1. ~IsCapture(Msg)
      BY <2>3 DEF Skipped, IsCapture
    <3> QED BY <2>3, <3>1 DEF ReadNext, Unpaid, IsCapture
  <2> QED BY <2>1, <2>2, <2>3 DEF ReadNext
<1>6. cl' \in Reader /\ cl'.mode = cl.mode /\ cl'.pc \in {"idle", "next"}
      /\ cl'.acked = cl.acked /\ cl'.asked = cl.asked
  <2>1. CASE IsCapture(Msg) /\ cl' = [Took(cl, Msg) EXCEPT !.pc = "idle"]
    <3> DEFINE t == Took(cl, Msg)
    <3>1. t \in Reader /\ t.mode = cl.mode /\ t.asked = cl.asked /\ t.acked = cl.acked
      <4>1. Msg \in Captures
        BY <1>4, <2>1
      <4> QED BY <1>1, <4>1, TookIs, Zenon
    <3>2. cl' = [t EXCEPT !.pc = "idle"]
      BY <2>1
    <3> HIDE DEF t
    <3> QED BY <3>1, <3>2 DEF Reader
  <2>2. CASE cl' = [cl EXCEPT !.pc = "idle", !.res = "error"] \/ cl' = cl
    BY <1>2, <2>2 DEF Reader
  <2> QED BY <2>1, <2>2 DEF ReadNext, IsCapture
<1>7. toBox' \in Seq(Commands) /\ lost' \subseteq 1..Newest
      /\ \A i \in DOMAIN toBox' :
           \/ i \in DOMAIN toBox /\ toBox'[i] = toBox[i]
           \/ IsCapture(Msg) /\ toBox'[i] = "Credit"
  <2>1. "Credit" \in Commands
    BY DEF Commands
  <2>2. TypeOK /\ toBox \in Seq(Commands) /\ lost \subseteq 1..Newest
    BY <1>1 DEF Parts, TypeOK
  <2>3. CASE toBox' = toBox
    <3>1. ~IsCapture(Msg) => lost' = lost
      BY <1>5
    <3>2. IsCapture(Msg) => lost' = lost \/ lost' = lost \cup {Msg.seq}
      BY <1>5
    <3>3. lost' \subseteq 1..Newest
      <4>1. IsCapture(Msg) => Msg.seq \in 1..Newest
        BY <1>4
      <4> QED BY <2>2, <3>1, <3>2, <4>1, Zenon
    <3> QED BY <2>2, <2>3, <3>3
  <2>4. CASE IsCapture(Msg) /\ Send("Credit") /\ lost' = lost
    <3> HIDE DEF Commands
    <3> QED BY <2>1, <2>2, <2>4, Sends
  <2> QED BY <1>5, <2>3, <2>4
<1>8. Total' = Total
  <2>1. CASE IsCapture(Msg) /\ Send("Credit") /\ lost' = lost
    <3>1. CreditsUnderWay' = CreditsUnderWay + 1
      BY <1>1, <2>1, Sends DEF Parts, Commands
    <3>2. CapturesUnderWay = CapturesUnderWay' + 1 /\ CapturesUnderWay' \in Nat
      BY <1>3, <2>1
    <3>3. CreditsUnderWay \in Nat /\ Cardinality(lost) \in Nat /\ daemon.credits \in Nat
          /\ daemon' = daemon
      BY <1>1, <1>2 DEF Parts, Typed
    <3> QED BY <2>1, <3>1, <3>2, <3>3 DEF Total
  <2>2. CASE /\ toBox' = toBox
             /\ IsCapture(Msg) => lost' = lost \cup {Msg.seq}
             /\ ~IsCapture(Msg) => lost' = lost
    <3>1. CreditsUnderWay' = CreditsUnderWay
      BY <2>2 DEF CreditsUnderWay
    <3> QED BY <1>1, <1>2, <2>2, <3>1, UnpaidCounts
  <2> QED BY <1>5, <2>1, <2>2
<1>9. TypeOK'
  BY <1>1, <1>2, <1>3, <1>6, <1>7 DEF Parts, TypeOK
<1>10. Starts'
  <2>1. cl'.pc \notin {"new", "refused", "ask"}
    BY <1>6
  <2>2. ASSUME NEW i \in DOMAIN toBox', toBox'[i] = "Subscribe"
        PROVE  i = 1 /\ Unspent'
    <3>1. i = 1 /\ Unspent
      BY <1>1, <1>7, <2>2 DEF Parts, Starts
    <3>2. ~IsCapture(Msg) /\ toBox' = toBox /\ lost' = lost /\ cl'.got = cl.got
      BY <1>3, <1>5, <3>1 DEF Unspent, NoCaptures
    <3> QED BY <1>2, <1>3, <3>1, <3>2 DEF Unspent, NoCaptures
  <2> QED BY <2>1, <2>2 DEF Starts
<1>11. Modes'
  BY <1>1, <1>2, <1>6, <1>7 DEF Parts, Modes
<1>12. Account'
  BY <1>1, <1>2, <1>8 DEF Parts, Account
<1>13. Ordered'
  BY <1>1, <1>2, <1>3, <1>5, <1>6, ReadKeepsOrder
<1>14. Replies'
  BY <1>1, <1>2, <1>6, ReadKeepsReplies
<1>15. CaptureIsLatest'
  BY <1>2, <1>6 DEF CaptureIsLatest
<1>16. ReadsAsMeasured'
  BY <1>1, <1>5 DEF Parts, ReadsAsMeasured
<1> QED BY <1>9, <1>10, <1>11, <1>12, <1>13, <1>14, <1>15, <1>16 DEF IInv

LEMMA ReadCaptureKeeps ==
  ASSUME IInv, ReadCapture
  PROVE  IInv'
<1>1. Parts
  BY Unpacked
<1>2. /\ cl.pc = "wait" /\ UNCHANGED <<taken, daemon, texts, lost>> /\ Arrived /\ Received
      /\ cl \in Reader /\ cl.mode = "capture" /\ cl.got = 0 /\ cl.res # "ok"
  BY <1>1 DEF Parts, TypeOK, Modes, ReadCapture, Reader, Mode
<1>3. /\ 1 \in DOMAIN toClient /\ Msg = toClient[1] /\ Msg \in Captures \cup Texts
      /\ toClient' \in Seq(Captures \cup Texts)
      /\ \A i \in DOMAIN toClient' : \E j \in DOMAIN toClient : toClient'[i] = toClient[j]
      /\ CapturesUnderWay' \in Nat
      /\ IsCapture(Msg) => CapturesUnderWay = CapturesUnderWay' + 1
      /\ ~IsCapture(Msg) => CapturesUnderWay = CapturesUnderWay'
  <2>1. Arrived /\ Received /\ TypeOK
    BY <1>1 DEF Parts, ReadCapture
  <2>2. toClient' \in Seq(Captures \cup Texts)
    BY <2>1, Reads
  <2> QED BY <2>1, <2>2, Reads
<1>4. /\ toBox' \in Seq(Commands) /\ CreditsUnderWay' = CreditsUnderWay
      /\ \A i \in DOMAIN toBox' :
           \/ toBox'[i] = "Close"
           \/ i \in DOMAIN toBox /\ toBox'[i] = toBox[i]
  <2>1. Hush /\ TypeOK
    BY <1>1 DEF Parts, ReadCapture, Over, Hush
  <2> QED BY <2>1, HushKeeps
<1>5. /\ cl' \in Reader /\ cl'.mode = cl.mode /\ cl'.asked = cl.asked /\ cl'.acked = cl.acked
      /\ cl'.pc \in {"wait", "closed"}
      /\ cl'.pc = "wait" => cl' = cl
      /\ \/ cl'.got = cl.got /\ cl'.read = cl.read /\ cl'.res # "ok"
         \/ /\ cl'.got = Msg.seq /\ cl'.read = Measured(Msg.seq)
            /\ cl.acked = 0 \/ Msg.seq = cl.acked
  <2>1. CASE Answers(Msg) /\ Decodes(FrameOf(Msg)) /\ Over(Took(cl, Msg))
    <3> DEFINE t == Took(cl, Msg)
    <3>1. Msg \in Captures
      BY <1>3, <2>1, Kinds DEF Answers, IsCapture
    <3>2. /\ t \in Reader /\ t.got = Msg.seq /\ t.mode = cl.mode /\ t.asked = cl.asked
          /\ t.acked = cl.acked /\ t.read = Measured(Msg.seq)
      BY <1>1, <2>1, <3>1, TookIs, Zenon
    <3>3. cl.acked = 0 \/ Msg.seq = cl.acked
      <4>1. peek_seq(FrameOf(Msg)) \in {0, Msg.seq}
        BY <3>1, FrameOfIs
      <4> QED BY <2>1, <4>1 DEF Answers
    <3>4. cl' = [t EXCEPT !.pc = "closed"]
      BY <2>1 DEF Over
    <3> HIDE DEF t
    <3> QED BY <3>2, <3>3, <3>4 DEF Reader
  <2>2. CASE Over([cl EXCEPT !.res = "error"]) \/ cl' = cl
    BY <1>2, <2>2 DEF Over, Reader
  <2> QED BY <2>1, <2>2 DEF ReadCapture
<1>6. TypeOK'
  BY <1>1, <1>2, <1>3, <1>4, <1>5 DEF Parts, TypeOK
<1>7. Starts'
  <2>1. cl'.pc \notin {"new", "refused", "ask"}
    BY <1>5
  <2>2. \A i \in DOMAIN toBox' : toBox'[i] # "Subscribe"
    BY <1>1, <1>2, <1>4 DEF Parts, Modes
  <2> QED BY <2>1, <2>2 DEF Starts
<1>8. Modes'
  BY <1>1, <1>2, <1>4, <1>5 DEF Parts, Modes
<1>9. Account'
  BY <1>2, <1>5 DEF Account
<1>10. Ordered'
  BY <1>1, <1>2, <1>5 DEF Parts, Ordered
<1>11. Replies'
  BY <1>1, <1>2, <1>5, ReadKeepsReplies
<1>12. CaptureIsLatest'
  <2>1. cl.acked # 0 => cl.acked >= cl.asked
    BY <1>1 DEF Parts, Replies, Acked
  <2> QED BY <1>2, <1>5, <2>1 DEF CaptureIsLatest
<1>13. ReadsAsMeasured'
  BY <1>1, <1>5 DEF Parts, ReadsAsMeasured
<1> QED BY <1>6, <1>7, <1>8, <1>9, <1>10, <1>11, <1>12, <1>13 DEF IInv

LEMMA TimeoutKeeps ==
  ASSUME IInv, Timeout
  PROVE  IInv'
<1>1. Parts
  BY Unpacked
<1>2. /\ cl.pc \in {"next", "reply", "wait"} /\ cl' \in Reader /\ Same /\ cl'.pc \in {"idle", "closed"}
      /\ cl'.res = "timeout" /\ UNCHANGED <<taken, daemon, toClient, texts, lost>>
      /\ cl'.pc = "closed" \/ (cl.pc = "next" /\ cl'.pc = "idle")
  BY <1>1 DEF Parts, TypeOK, Timeout, Over, Reader, Same
<1>3. /\ toBox' \in Seq(Commands) /\ CreditsUnderWay' = CreditsUnderWay
      /\ CapturesUnderWay' = CapturesUnderWay /\ Total' = Total
      /\ \A i \in DOMAIN toBox' :
           \/ toBox'[i] = "Close"
           \/ i \in DOMAIN toBox /\ toBox'[i] = toBox[i]
  <2>1. Hush /\ TypeOK
    BY <1>1 DEF Parts, Timeout, Over, Hush
  <2>2. CapturesUnderWay' = CapturesUnderWay /\ daemon' = daemon /\ lost' = lost
    BY <1>2 DEF CapturesUnderWay
  <2>3. CreditsUnderWay' = CreditsUnderWay
    BY <2>1, HushKeeps
  <2>4. Total' = Total
    BY <2>2, <2>3 DEF Total
  <2> QED BY <2>1, <2>2, <2>4, HushKeeps
<1>4. TypeOK'
  BY <1>1, <1>2, <1>3 DEF Parts, TypeOK
<1>5. Starts'
  <2>1. cl'.pc \notin {"new", "refused", "ask"}
    BY <1>2
  <2>2. ASSUME NEW i \in DOMAIN toBox', toBox'[i] = "Subscribe"
        PROVE  i = 1 /\ Unspent'
    <3>1. i = 1 /\ Unspent
      BY <1>1, <1>3, <2>2 DEF Parts, Starts
    <3>2. \A j \in DOMAIN toBox' : toBox'[j] # "Credit"
      BY <1>3, <3>1 DEF Unspent
    <3> QED BY <1>2, <3>1, <3>2 DEF Unspent, NoCaptures, Same
  <2> QED BY <2>1, <2>2 DEF Starts
<1>6. Modes'
  BY <1>1, <1>2, <1>3 DEF Parts, Modes, Same
<1>7. Account'
  BY <1>1, <1>2, <1>3 DEF Parts, Account, Total, Same
<1>8. Ordered'
  BY <1>1, <1>2, <1>3 DEF Parts, Ordered, Same
<1>9. Replies'
  BY <1>1, <1>2, <1>3 DEF Parts, Replies, Acked, Same
<1>10. CaptureIsLatest'
  BY <1>1, <1>2, <1>3 DEF Parts, CaptureIsLatest, Same, Modes
<1>11. ReadsAsMeasured'
  BY <1>1, <1>2, <1>3 DEF Parts, ReadsAsMeasured, Same
<1> QED BY <1>4, <1>5, <1>6, <1>7, <1>8, <1>9, <1>10, <1>11 DEF IInv

LEMMA CloseKeeps ==
  ASSUME IInv, Close
  PROVE  IInv'
<1>1. Parts
  BY Unpacked
<1>2. /\ cl.pc \in {"idle"} /\ cl' \in Reader /\ Same /\ cl'.pc \in {"closed"}
      /\ cl'.res = cl.res /\ UNCHANGED <<taken, daemon, toClient, texts, lost>>
      /\ cl'.pc = "closed" \/ (cl.pc = "next" /\ cl'.pc = "idle")
  BY <1>1 DEF Parts, TypeOK, Close, Over, Reader, Same
<1>3. /\ toBox' \in Seq(Commands) /\ CreditsUnderWay' = CreditsUnderWay
      /\ CapturesUnderWay' = CapturesUnderWay /\ Total' = Total
      /\ \A i \in DOMAIN toBox' :
           \/ toBox'[i] = "Close"
           \/ i \in DOMAIN toBox /\ toBox'[i] = toBox[i]
  <2>1. Hush /\ TypeOK
    BY <1>1 DEF Parts, Close, Over, Hush
  <2>2. CapturesUnderWay' = CapturesUnderWay /\ daemon' = daemon /\ lost' = lost
    BY <1>2 DEF CapturesUnderWay
  <2>3. CreditsUnderWay' = CreditsUnderWay
    BY <2>1, HushKeeps
  <2>4. Total' = Total
    BY <2>2, <2>3 DEF Total
  <2> QED BY <2>1, <2>2, <2>4, HushKeeps
<1>4. TypeOK'
  BY <1>1, <1>2, <1>3 DEF Parts, TypeOK
<1>5. Starts'
  <2>1. cl'.pc \notin {"new", "refused", "ask"}
    BY <1>2
  <2>2. ASSUME NEW i \in DOMAIN toBox', toBox'[i] = "Subscribe"
        PROVE  i = 1 /\ Unspent'
    <3>1. i = 1 /\ Unspent
      BY <1>1, <1>3, <2>2 DEF Parts, Starts
    <3>2. \A j \in DOMAIN toBox' : toBox'[j] # "Credit"
      BY <1>3, <3>1 DEF Unspent
    <3> QED BY <1>2, <3>1, <3>2 DEF Unspent, NoCaptures, Same
  <2> QED BY <2>1, <2>2 DEF Starts
<1>6. Modes'
  BY <1>1, <1>2, <1>3 DEF Parts, Modes, Same
<1>7. Account'
  BY <1>1, <1>2, <1>3 DEF Parts, Account, Total, Same
<1>8. Ordered'
  BY <1>1, <1>2, <1>3 DEF Parts, Ordered, Same
<1>9. Replies'
  BY <1>1, <1>2, <1>3 DEF Parts, Replies, Acked, Same
<1>10. CaptureIsLatest'
  BY <1>1, <1>2, <1>3 DEF Parts, CaptureIsLatest, Same, Modes
<1>11. ReadsAsMeasured'
  BY <1>1, <1>2, <1>3 DEF Parts, ReadsAsMeasured, Same
<1> QED BY <1>4, <1>5, <1>6, <1>7, <1>8, <1>9, <1>10, <1>11 DEF IInv

LEMMA AskKeeps ==
  ASSUME IInv, Ask
  PROVE  IInv'
<1>1. Parts
  BY Unpacked
<1>2. /\ cl.pc = "ask" /\ cl.mode = "stream" /\ cl.res # "ok" /\ toBox = <<>> /\ Unspent
      /\ cl \in Reader /\ taken \in 0..Newest
      /\ UNCHANGED <<taken, daemon, toClient, texts, lost>>
  BY <1>1 DEF Parts, TypeOK, Starts, Ask
<1>3. PICK c \in {"Subscribe", "GetTriggeredData", "Close"} :
        /\ Send(c) /\ cl' \in Reader /\ cl'.got = cl.got /\ cl'.read = cl.read
        /\ cl'.acked = cl.acked /\ cl'.pc = (IF c = "Close" THEN "closed" ELSE "reply")
        /\ cl'.mode = (IF c = "GetTriggeredData" THEN "capture" ELSE "stream")
        /\ cl'.asked = (IF c = "Close" THEN cl.asked ELSE taken) /\ cl'.res # "ok"
  <2>1. CASE cl' = [cl EXCEPT !.pc = "reply", !.asked = taken] /\ Send("Subscribe")
    BY <1>2, <2>1 DEF Reader
  <2>2. CASE /\ cl' = [cl EXCEPT !.pc = "reply", !.asked = taken, !.mode = "capture"]
             /\ Send("GetTriggeredData")
    BY <1>2, <2>2 DEF Reader, Mode
  <2>3. CASE Over([cl EXCEPT !.res = "error"])
    BY <1>2, <2>3 DEF Reader, Over
  <2> QED BY <2>1, <2>2, <2>3 DEF Ask
<1>4. /\ toBox' \in Seq(Commands) /\ DOMAIN toBox' = {1} /\ toBox'[1] = c
      /\ Total' = 0
  <2>1. c \in Commands
    BY <1>3 DEF Commands
  <2>2. TypeOK /\ Len(toBox) = 0
    BY <1>1, <1>2 DEF Parts
  <2>3. toBox' \in Seq(Commands) /\ DOMAIN toBox' = {1} /\ toBox'[1] = c
        /\ CreditsUnderWay' = CreditsUnderWay
    <3> HIDE DEF Commands
    <3>1. Send(c) /\ c # "Credit"
      BY <1>3
    <3>2. /\ toBox' \in Seq(Commands) /\ DOMAIN toBox' = 1..(Len(toBox) + 1)
          /\ toBox'[Len(toBox) + 1] = c /\ CreditsUnderWay' = CreditsUnderWay
      BY <2>1, <2>2, <3>1, Sends
    <3> QED BY <2>2, <3>2
  <2>4. CreditsUnderWay = 0 /\ CapturesUnderWay = 0
    BY <1>2, <2>2, UnderWay DEF Unspent
  <2>5. daemon.credits = 0 /\ Cardinality(lost) = 0
    BY <1>2, FS_EmptySet DEF Unspent
  <2>6. CapturesUnderWay' = CapturesUnderWay
    BY <1>2 DEF CapturesUnderWay
  <2> QED BY <1>2, <2>3, <2>4, <2>5, <2>6 DEF Total
<1>5. TypeOK'
  BY <1>1, <1>2, <1>3, <1>4 DEF Parts, TypeOK
<1>6. Starts'
  BY <1>1, <1>2, <1>3, <1>4 DEF Parts, Starts, Unspent, NoCaptures
<1>7. Modes'
  BY <1>1, <1>2, <1>3, <1>4 DEF Parts, Modes, Unspent
<1>8. Account'
  BY <1>1, <1>2, <1>4 DEF Parts, Typed, Account, Unspent
<1>9. Ordered'
  BY <1>1, <1>2, <1>3 DEF Parts, Ordered
<1>10. Replies'
  <2>1. cl.acked = 0 /\ \A i \in DOMAIN toClient : toClient[i].kind = "reply" => toClient[i].seq = 0
    BY <1>1, <1>2 DEF Parts, Replies, Acked
  <2> QED BY <1>1, <1>2, <1>3, <2>1 DEF Parts, Replies, Acked, Typed
<1>11. CaptureIsLatest'
  BY <1>1, <1>2, <1>3, <1>4 DEF Parts, CaptureIsLatest, Replies
<1>12. ReadsAsMeasured'
  BY <1>1, <1>2, <1>3, <1>4 DEF Parts, ReadsAsMeasured
<1> QED BY <1>5, <1>6, <1>7, <1>8, <1>9, <1>10, <1>11, <1>12 DEF IInv

LEMMA DaemonSubscribesKeeps ==
  ASSUME IInv, DaemonSubscribes
  PROVE  IInv'
<1>1. Parts
  BY Unpacked
<1>2. /\ toBox' \in Seq(Commands) /\ 1 \in DOMAIN toBox /\ toBox[1] = "Subscribe" /\ toBox # <<>>
      /\ DOMAIN toBox' \subseteq Nat \ {0} /\ CreditsUnderWay' \in Nat
      /\ \A i \in DOMAIN toBox' : i + 1 \in DOMAIN toBox /\ toBox'[i] = toBox[i + 1]
      /\ CreditsUnderWay = CreditsUnderWay'
  <2>1. "Subscribe" \in Commands
    BY DEF Commands
  <2>2. TypeOK /\ Command("Subscribe")
    BY <1>1 DEF Parts, DaemonSubscribes
  <2> HIDE DEF Commands
  <2> QED BY <2>1, <2>2, Commanded
<1>3. /\ Unspent /\ cl.mode = "stream" /\ cl.pc \notin {"new", "refused", "ask"}
      /\ \A i \in DOMAIN toBox : toBox[i] = "Subscribe" => i = 1
  <2>1. Unspent /\ \A i \in DOMAIN toBox : toBox[i] = "Subscribe" => i = 1
    BY <1>1, <1>2 DEF Parts, Starts
  <2>2. cl.mode # "capture"
    BY <1>1, <1>2 DEF Parts, Modes
  <2>3. cl.mode \in Mode
    BY <1>1 DEF Parts, TypeOK, Reader
  <2> QED BY <1>1, <1>2, <2>1, <2>2, <2>3 DEF Mode, Parts, Starts
<1>4. /\ daemon' \in Subscriber /\ daemon'.subscribed /\ daemon'.credits = Credits
      /\ daemon'.sent = taken /\ UNCHANGED <<taken, toClient, texts, cl, lost>>
  <2>1. daemon \in Subscriber /\ taken \in 0..Newest /\ Credits \in Nat
    BY <1>1 DEF Parts, TypeOK, Typed
  <2>2. Credits \in 0..Credits
    BY <2>1
  <2> QED BY <2>1, <2>2 DEF DaemonSubscribes, Subscriber
<1>5. Total' = Credits
  <2>1. CreditsUnderWay = 0 /\ CapturesUnderWay = 0
    BY <1>1, <1>3, UnderWay DEF Parts, Unspent
  <2>2. CapturesUnderWay' = CapturesUnderWay
    BY <1>4 DEF CapturesUnderWay
  <2>3. Cardinality(lost) = 0
    BY <1>3, FS_EmptySet DEF Unspent
  <2>4. Credits \in Nat
    BY <1>1 DEF Parts, Typed
  <2> QED BY <1>2, <1>4, <2>1, <2>2, <2>3, <2>4 DEF Total
<1>6. TypeOK'
  BY <1>1, <1>2, <1>3, <1>4, <1>5 DEF Parts, TypeOK
<1>7. Starts'
  <2>1. \A i \in DOMAIN toBox' : toBox'[i] # "Subscribe"
    BY <1>2, <1>3
  <2> QED BY <1>3, <1>4, <2>1 DEF Starts
<1>8. Modes'
  BY <1>1, <1>2, <1>3, <1>4, <1>5 DEF Parts, Modes
<1>9. Account'
  BY <1>1, <1>5 DEF Account, Parts, Typed
<1>10. Ordered'
  <2>1. \A i \in DOMAIN toClient : ~IsCapture(toClient[i])
    BY <1>3 DEF Unspent, NoCaptures
  <2> QED BY <1>1, <1>3, <1>4, <2>1 DEF Parts, Typed, Unspent, Ordered
<1>11. Replies'
  BY <1>1, <1>2, <1>3, <1>4, <1>5 DEF Parts, Replies, Acked
<1>12. CaptureIsLatest'
  BY <1>1, <1>2, <1>3, <1>4, <1>5 DEF Parts, CaptureIsLatest
<1>13. ReadsAsMeasured'
  BY <1>1, <1>2, <1>3, <1>4, <1>5 DEF Parts, ReadsAsMeasured
<1> QED BY <1>6, <1>7, <1>8, <1>9, <1>10, <1>11, <1>12, <1>13 DEF IInv

LEMMA DaemonCreditsKeeps ==
  ASSUME IInv, DaemonCredits
  PROVE  IInv'
<1>1. Parts
  BY Unpacked
<1>2. /\ toBox' \in Seq(Commands) /\ 1 \in DOMAIN toBox /\ toBox[1] = "Credit" /\ toBox # <<>>
      /\ DOMAIN toBox' \subseteq Nat \ {0} /\ CreditsUnderWay' \in Nat
      /\ \A i \in DOMAIN toBox' : i + 1 \in DOMAIN toBox /\ toBox'[i] = toBox[i + 1]
      /\ CreditsUnderWay = CreditsUnderWay' + 1
  <2>1. "Credit" \in Commands
    BY DEF Commands
  <2>2. TypeOK /\ Command("Credit")
    BY <1>1 DEF Parts, DaemonCredits
  <2> HIDE DEF Commands
  <2> QED BY <2>1, <2>2, Commanded
<1>3. /\ cl.mode = "stream" /\ cl.pc \notin {"new", "refused", "ask"}
      /\ \A i \in DOMAIN toBox : toBox[i] # "Subscribe"
  <2>1. \A i \in DOMAIN toBox : toBox[i] # "Subscribe"
    BY <1>1, <1>2 DEF Parts, Starts, Unspent
  <2>2. cl.mode # "capture"
    BY <1>1, <1>2 DEF Parts, Modes
  <2>3. cl.mode \in Mode
    BY <1>1 DEF Parts, TypeOK, Reader
  <2> QED BY <1>1, <1>2, <2>1, <2>2, <2>3 DEF Mode, Parts, Starts
<1>4. daemon.credits + 1 <= Credits
  BY <1>1, <1>2, <1>3 DEF Parts, Typed, Account, Total
<1>5. /\ daemon' \in Subscriber /\ daemon'.subscribed = daemon.subscribed
      /\ daemon'.credits = daemon.credits + 1 /\ daemon'.sent = daemon.sent
      /\ UNCHANGED <<taken, toClient, texts, cl, lost>>
  <2>1. daemon \in Subscriber /\ daemon.credits \in Nat /\ Credits \in Nat
    BY <1>1 DEF Parts, TypeOK, Typed
  <2>2. daemon.credits + 1 \in 0..Credits
    BY <1>4, <2>1
  <2> QED BY <2>1, <2>2 DEF DaemonCredits, Subscriber
<1>6. Total' = Total
  <2>1. CapturesUnderWay' = CapturesUnderWay /\ Cardinality(lost') = Cardinality(lost)
    BY <1>5 DEF CapturesUnderWay
  <2>2. /\ CapturesUnderWay \in Nat /\ CreditsUnderWay' \in Nat /\ Cardinality(lost) \in Nat
        /\ daemon.credits \in Nat
    BY <1>1, <1>2 DEF Parts, Typed
  <2>3. CreditsUnderWay = CreditsUnderWay' + 1 /\ daemon'.credits = daemon.credits + 1
    BY <1>2, <1>5
  <2> QED BY <2>1, <2>2, <2>3 DEF Total
<1>7. TypeOK'
  BY <1>1, <1>2, <1>3, <1>4, <1>5, <1>6 DEF Parts, TypeOK
<1>8. Starts'
  <2>1. \A i \in DOMAIN toBox' : toBox'[i] # "Subscribe"
    BY <1>2, <1>3
  <2> QED BY <1>3, <1>5, <2>1 DEF Starts
<1>9. Modes'
  BY <1>1, <1>2, <1>3, <1>4, <1>5, <1>6 DEF Parts, Modes
<1>10. Account'
  BY <1>1, <1>5, <1>6 DEF Account, Parts
<1>11. Ordered'
  BY <1>1, <1>2, <1>3, <1>4, <1>5, <1>6 DEF Parts, Ordered
<1>12. Replies'
  BY <1>1, <1>2, <1>3, <1>4, <1>5, <1>6 DEF Parts, Replies, Acked
<1>13. CaptureIsLatest'
  BY <1>1, <1>2, <1>3, <1>4, <1>5, <1>6 DEF Parts, CaptureIsLatest
<1>14. ReadsAsMeasured'
  BY <1>1, <1>2, <1>3, <1>4, <1>5, <1>6 DEF Parts, ReadsAsMeasured
<1> QED BY <1>7, <1>8, <1>9, <1>10, <1>11, <1>12, <1>13, <1>14 DEF IInv

LEMMA DaemonClosesKeeps ==
  ASSUME IInv, DaemonCloses
  PROVE  IInv'
<1>1. Parts
  BY Unpacked
<1>2. /\ toBox' \in Seq(Commands) /\ 1 \in DOMAIN toBox /\ toBox[1] = "Close" /\ toBox # <<>>
      /\ DOMAIN toBox' \subseteq Nat \ {0} /\ CreditsUnderWay' \in Nat
      /\ \A i \in DOMAIN toBox' : i + 1 \in DOMAIN toBox /\ toBox'[i] = toBox[i + 1]
      /\ CreditsUnderWay = CreditsUnderWay'
  <2>1. "Close" \in Commands
    BY DEF Commands
  <2>2. TypeOK /\ Command("Close")
    BY <1>1 DEF Parts, DaemonCloses
  <2> HIDE DEF Commands
  <2> QED BY <2>1, <2>2, Commanded
<1>3. /\ daemon' \in Subscriber /\ ~daemon'.subscribed
      /\ daemon'.credits = daemon.credits /\ daemon'.sent = daemon.sent
      /\ UNCHANGED <<taken, toClient, texts, cl, lost>>
  BY <1>1 DEF Parts, TypeOK, DaemonCloses, Subscriber
<1>4. Total' = Total
  <2>1. CapturesUnderWay' = CapturesUnderWay
    BY <1>3 DEF CapturesUnderWay
  <2> QED BY <1>1, <1>2, <1>3, <2>1 DEF Parts, Typed, Total
<1>5. TypeOK'
  BY <1>1, <1>2, <1>3, <1>4 DEF Parts, TypeOK
<1>6. Starts'
  <2>1. cl.pc \notin {"new", "refused", "ask"}
    BY <1>1, <1>2 DEF Parts, Starts
  <2>2. \A i \in DOMAIN toBox' : toBox'[i] # "Subscribe"
    <3>1. \A i \in DOMAIN toBox : toBox[i] = "Subscribe" => i = 1
      BY <1>1 DEF Parts, Starts
    <3> QED BY <1>2, <3>1
  <2> QED BY <1>3, <2>1, <2>2 DEF Starts
<1>7. Modes'
  BY <1>1, <1>2, <1>3, <1>4 DEF Parts, Modes
<1>8. Account'
  BY <1>1, <1>2, <1>3, <1>4 DEF Parts, Account, Total
<1>9. Ordered'
  BY <1>1, <1>2, <1>3, <1>4 DEF Parts, Ordered
<1>10. Replies'
  BY <1>1, <1>2, <1>3, <1>4 DEF Parts, Replies, Acked
<1>11. CaptureIsLatest'
  BY <1>1, <1>2, <1>3, <1>4 DEF Parts, CaptureIsLatest
<1>12. ReadsAsMeasured'
  BY <1>1, <1>2, <1>3, <1>4 DEF Parts, ReadsAsMeasured
<1> QED BY <1>5, <1>6, <1>7, <1>8, <1>9, <1>10, <1>11, <1>12 DEF IInv

(* A text sent: no capture, and a reply only when it is one.               *)
LEMMA TextKeeps ==
  ASSUME TypeOK, NEW m \in Texts, toClient' = Append(toClient, m)
  PROVE  /\ toClient' \in Seq(Captures \cup Texts) /\ CapturesUnderWay' = CapturesUnderWay
         /\ NoCaptures => NoCaptures'
         /\ \A i \in DOMAIN toClient' :
              \/ i \in DOMAIN toClient /\ toClient'[i] = toClient[i]
              \/ toClient'[i] = m /\ ~IsCapture(m)
<1>1. ~IsCapture(m) /\ m \in Captures \cup Texts
  BY DEF Texts, Unasked, IsCapture
<1>2. \A i \in DOMAIN toClient' :
        \/ i \in DOMAIN toClient /\ toClient'[i] = toClient[i]
        \/ toClient'[i] = m
  BY <1>1, Delivers
<1>3. NoCaptures => NoCaptures'
  BY <1>1, <1>2 DEF NoCaptures
<1> QED BY <1>1, <1>2, <1>3, Delivers

LEMMA DaemonRepliesKeeps ==
  ASSUME IInv, DaemonReplies
  PROVE  IInv'
<1>1. Parts
  BY Unpacked
<1>2. PICK m \in Texts : toClient' = Append(toClient, m) /\ (m.kind = "reply" => m.seq = 0)
  <2>1. Newest \in Nat
    BY <1>1 DEF Parts, Typed
  <2> QED BY <2>1 DEF DaemonReplies, Deliver, Text, Texts, Unasked
<1>3. /\ toClient' \in Seq(Captures \cup Texts) /\ CapturesUnderWay' = CapturesUnderWay
      /\ NoCaptures => NoCaptures'
      /\ \A i \in DOMAIN toClient' :
              \/ i \in DOMAIN toClient /\ toClient'[i] = toClient[i]
              \/ toClient'[i] = m /\ ~IsCapture(m)
  BY <1>1, <1>2, TextKeeps DEF Parts
<1>4. /\ daemon' \in Subscriber /\ daemon'.subscribed = daemon.subscribed
      /\ daemon'.credits = daemon.credits /\ daemon'.sent = daemon.sent
      /\ UNCHANGED <<taken, toBox, cl, lost>> /\ texts' \in 0..MaxTexts
  BY <1>1, StreamAssumption DEF Parts, TypeOK, DaemonReplies, Subscriber
<1>5. CreditsUnderWay' = CreditsUnderWay /\ Total' = Total
  <2>1. CreditsUnderWay' = CreditsUnderWay
    BY <1>4 DEF CreditsUnderWay
  <2> QED BY <1>3, <1>4, <2>1 DEF Total
<1>6. TypeOK'
  BY <1>1, <1>2, <1>3, <1>4, <1>5 DEF Parts, TypeOK
<1>7. Starts'
  <2>1. Unspent => Unspent'
    BY <1>3, <1>4 DEF Unspent
  <2> QED BY <1>1, <1>4, <2>1 DEF Parts, Starts
<1>8. Modes'
  BY <1>1, <1>2, <1>3, <1>4, <1>5 DEF Parts, Modes
<1>9. Account'
  BY <1>1, <1>2, <1>3, <1>4, <1>5 DEF Parts, Account, Total
<1>10. Ordered'
  <2>1. \A i \in DOMAIN toClient' : IsCapture(toClient'[i]) =>
           i \in DOMAIN toClient /\ toClient'[i] = toClient[i]
    BY <1>3
  <2> QED BY <1>1, <1>4, <2>1 DEF Parts, Ordered
<1>11. Replies'
  BY <1>1, <1>2, <1>3, <1>4, <1>5 DEF Parts, Replies, Acked
<1>12. CaptureIsLatest'
  BY <1>1, <1>2, <1>3, <1>4, <1>5 DEF Parts, CaptureIsLatest
<1>13. ReadsAsMeasured'
  BY <1>1, <1>2, <1>3, <1>4, <1>5 DEF Parts, ReadsAsMeasured
<1> QED BY <1>6, <1>7, <1>8, <1>9, <1>10, <1>11, <1>12, <1>13 DEF IInv

LEMMA DaemonTellsKeeps ==
  ASSUME IInv, DaemonTells
  PROVE  IInv'
<1>1. Parts
  BY Unpacked
<1>2. PICK m \in Texts : toClient' = Append(toClient, m) /\ (m.kind = "reply" => m.seq = 0)
  <2>1. Newest \in Nat
    BY <1>1 DEF Parts, Typed
  <2> QED BY <2>1 DEF DaemonTells, Deliver, Text, Texts, Unasked
<1>3. /\ toClient' \in Seq(Captures \cup Texts) /\ CapturesUnderWay' = CapturesUnderWay
      /\ NoCaptures => NoCaptures'
      /\ \A i \in DOMAIN toClient' :
              \/ i \in DOMAIN toClient /\ toClient'[i] = toClient[i]
              \/ toClient'[i] = m /\ ~IsCapture(m)
  BY <1>1, <1>2, TextKeeps DEF Parts
<1>4. /\ daemon' \in Subscriber /\ daemon'.subscribed = daemon.subscribed
      /\ daemon'.credits = daemon.credits /\ daemon'.sent = daemon.sent
      /\ UNCHANGED <<taken, toBox, cl, lost>> /\ texts' \in 0..MaxTexts
  BY <1>1, StreamAssumption DEF Parts, TypeOK, DaemonTells, Subscriber
<1>5. CreditsUnderWay' = CreditsUnderWay /\ Total' = Total
  <2>1. CreditsUnderWay' = CreditsUnderWay
    BY <1>4 DEF CreditsUnderWay
  <2> QED BY <1>3, <1>4, <2>1 DEF Total
<1>6. TypeOK'
  BY <1>1, <1>2, <1>3, <1>4, <1>5 DEF Parts, TypeOK
<1>7. Starts'
  <2>1. Unspent => Unspent'
    BY <1>3, <1>4 DEF Unspent
  <2> QED BY <1>1, <1>4, <2>1 DEF Parts, Starts
<1>8. Modes'
  BY <1>1, <1>2, <1>3, <1>4, <1>5 DEF Parts, Modes
<1>9. Account'
  BY <1>1, <1>2, <1>3, <1>4, <1>5 DEF Parts, Account, Total
<1>10. Ordered'
  <2>1. \A i \in DOMAIN toClient' : IsCapture(toClient'[i]) =>
           i \in DOMAIN toClient /\ toClient'[i] = toClient[i]
    BY <1>3
  <2> QED BY <1>1, <1>4, <2>1 DEF Parts, Ordered
<1>11. Replies'
  BY <1>1, <1>2, <1>3, <1>4, <1>5 DEF Parts, Replies, Acked
<1>12. CaptureIsLatest'
  BY <1>1, <1>2, <1>3, <1>4, <1>5 DEF Parts, CaptureIsLatest
<1>13. ReadsAsMeasured'
  BY <1>1, <1>2, <1>3, <1>4, <1>5 DEF Parts, ReadsAsMeasured
<1> QED BY <1>6, <1>7, <1>8, <1>9, <1>10, <1>11, <1>12, <1>13 DEF IInv

LEMMA DaemonHangsUpKeeps ==
  ASSUME IInv, DaemonHangsUp
  PROVE  IInv'
<1>1. Parts
  BY Unpacked
<1>2. PICK m \in Texts : toClient' = Append(toClient, m) /\ (m.kind = "reply" => m.seq = 0)
  <2>1. Newest \in Nat
    BY <1>1 DEF Parts, Typed
  <2> QED BY <2>1 DEF DaemonHangsUp, Deliver, Text, Texts, Unasked
<1>3. /\ toClient' \in Seq(Captures \cup Texts) /\ CapturesUnderWay' = CapturesUnderWay
      /\ NoCaptures => NoCaptures'
      /\ \A i \in DOMAIN toClient' :
              \/ i \in DOMAIN toClient /\ toClient'[i] = toClient[i]
              \/ toClient'[i] = m /\ ~IsCapture(m)
  BY <1>1, <1>2, TextKeeps DEF Parts
<1>4. /\ daemon' \in Subscriber /\ ~daemon'.subscribed
      /\ daemon'.credits = daemon.credits /\ daemon'.sent = daemon.sent
      /\ UNCHANGED <<taken, toBox, cl, lost>> /\ texts' \in 0..MaxTexts
  BY <1>1, StreamAssumption DEF Parts, TypeOK, DaemonHangsUp, Subscriber
<1>5. CreditsUnderWay' = CreditsUnderWay /\ Total' = Total
  <2>1. CreditsUnderWay' = CreditsUnderWay
    BY <1>4 DEF CreditsUnderWay
  <2> QED BY <1>3, <1>4, <2>1 DEF Total
<1>6. TypeOK'
  BY <1>1, <1>2, <1>3, <1>4, <1>5 DEF Parts, TypeOK
<1>7. Starts'
  <2>1. Unspent => Unspent'
    BY <1>3, <1>4 DEF Unspent
  <2> QED BY <1>1, <1>4, <2>1 DEF Parts, Starts
<1>8. Modes'
  BY <1>1, <1>2, <1>3, <1>4, <1>5 DEF Parts, Modes
<1>9. Account'
  BY <1>1, <1>2, <1>3, <1>4, <1>5 DEF Parts, Account, Total
<1>10. Ordered'
  <2>1. \A i \in DOMAIN toClient' : IsCapture(toClient'[i]) =>
           i \in DOMAIN toClient /\ toClient'[i] = toClient[i]
    BY <1>3
  <2> QED BY <1>1, <1>4, <2>1 DEF Parts, Ordered
<1>11. Replies'
  BY <1>1, <1>2, <1>3, <1>4, <1>5 DEF Parts, Replies, Acked
<1>12. CaptureIsLatest'
  BY <1>1, <1>2, <1>3, <1>4, <1>5 DEF Parts, CaptureIsLatest
<1>13. ReadsAsMeasured'
  BY <1>1, <1>2, <1>3, <1>4, <1>5 DEF Parts, ReadsAsMeasured
<1> QED BY <1>6, <1>7, <1>8, <1>9, <1>10, <1>11, <1>12, <1>13 DEF IInv

LEMMA DamageIs ==
  ASSUME Parts, taken > 0, NEW how \in Arrivals(taken)
  PROVE  how \in Damage /\ taken \in 1..Newest
<1>1. taken \in 1..Newest
  BY DEF Parts, Typed
<1>2. Spoilt[taken] \subseteq Damage /\ "none" \in Damage
  BY <1>1, StreamAssumption DEF Damage
<1> QED BY <1>1, <1>2 DEF Arrivals

LEMMA DaemonSendsKeeps ==
  ASSUME IInv, DaemonSends
  PROVE  IInv'
<1>1. Parts
  BY Unpacked
<1>2. PICK m \in Captures : toClient' = Append(toClient, m) /\ m.seq = taken
  <2>1. taken > 0
    BY <1>1 DEF Parts, Typed, DaemonSends
  <2>2. PICK how \in Arrivals(taken) : toClient' = Append(toClient, Frame(taken, how))
    BY DEF DaemonSends, Deliver
  <2>3. how \in Damage /\ taken \in 1..Newest
    BY <1>1, <2>1, DamageIs
  <2>4. Frame(taken, how) \in Captures /\ Frame(taken, how).seq = taken
    BY <2>3 DEF Frame, Captures
  <2> QED BY <2>2, <2>4
<1>3. /\ IsCapture(m) /\ toClient' \in Seq(Captures \cup Texts) /\ Len(toClient) \in Nat
      /\ DOMAIN toClient = 1..Len(toClient) /\ DOMAIN toClient' = 1..(Len(toClient) + 1)
      /\ toClient'[Len(toClient) + 1] = m
      /\ \A i \in 1..Len(toClient) : toClient'[i] = toClient[i]
      /\ CapturesUnderWay' = CapturesUnderWay + 1
  <2>1. IsCapture(m)
    BY DEF Captures, IsCapture
  <2> QED BY <1>1, <1>2, <2>1, Delivers DEF Parts
<1>4. /\ daemon.subscribed /\ cl.mode = "stream" /\ cl.pc \notin {"new", "refused", "ask"}
      /\ daemon.sent < taken /\ \A i \in DOMAIN toBox : toBox[i] # "Subscribe"
  <2>1. daemon.subscribed /\ daemon.sent < taken
    BY DEF DaemonSends
  <2>2. cl.mode # "capture" /\ cl.pc \notin {"new", "refused", "ask"}
    BY <1>1, <2>1 DEF Parts, Modes, Starts, Unspent
  <2>3. cl.mode \in Mode
    BY <1>1 DEF Parts, TypeOK, Reader
  <2> QED BY <1>1, <2>1, <2>2, <2>3 DEF Parts, Starts, Unspent, Mode
<1>5. /\ daemon' \in Subscriber /\ daemon'.subscribed = daemon.subscribed
      /\ daemon'.credits = daemon.credits - 1 /\ daemon'.sent = taken
      /\ UNCHANGED <<taken, toBox, texts, cl, lost>>
  <2>1. /\ daemon \in Subscriber /\ daemon.credits \in 0..Credits /\ daemon.credits > 0
        /\ Credits \in Nat /\ taken \in 0..Newest
    BY <1>1 DEF Parts, TypeOK, Typed, DaemonSends
  <2>2. daemon.credits - 1 \in 0..Credits
    BY <2>1
  <2> QED BY <2>1, <2>2 DEF DaemonSends, Subscriber
<1>6. Total' = Total
  <2>1. CreditsUnderWay' = CreditsUnderWay
    BY <1>5 DEF CreditsUnderWay
  <2>2. /\ CapturesUnderWay \in Nat /\ CreditsUnderWay \in Nat /\ Cardinality(lost) \in Nat
        /\ daemon.credits \in Nat
    BY <1>1 DEF Parts, Typed
  <2>3. CapturesUnderWay' = CapturesUnderWay + 1 /\ daemon'.credits = daemon.credits - 1
    BY <1>3, <1>5
  <2> QED BY <1>5, <2>1, <2>2, <2>3 DEF Total
<1>7. TypeOK'
  BY <1>1, <1>3, <1>5 DEF Parts, TypeOK
<1>8. Starts'
  BY <1>4, <1>5 DEF Starts
<1>9. Modes'
  BY <1>1, <1>4, <1>5 DEF Parts, Modes
<1>10. Account'
  BY <1>1, <1>5, <1>6 DEF Parts, Account
<1>11. Ordered'
  <2>1. /\ cl.got <= daemon.sent /\ \A n \in lost : n <= daemon.sent
        /\ \A i \in DOMAIN toClient : IsCapture(toClient[i]) =>
             /\ toClient[i].seq <= daemon.sent /\ toClient[i].seq > cl.got
             /\ \A n \in lost : toClient[i].seq > n
             /\ \A j \in DOMAIN toClient : IsCapture(toClient[j]) /\ i < j =>
                  toClient[i].seq < toClient[j].seq
    BY <1>1, <1>4 DEF Parts, Ordered
  <2>2. /\ taken \in Nat /\ daemon.sent \in Nat /\ cl.got \in Nat /\ daemon.sent < taken
        /\ \A n \in lost : n \in Nat
    BY <1>1, <1>4 DEF Parts, Typed, TypeOK
  <2>3. \A i \in DOMAIN toClient : toClient[i].seq \in Nat
    <3>1. \A i \in DOMAIN toClient : toClient[i] \in Captures \cup Texts
      BY <1>1, LenProperties DEF Parts, TypeOK
    <3>2. Newest \in Nat
      BY <1>1 DEF Parts, Typed
    <3> QED BY <3>1, <3>2, Kinds
  <2>4. ASSUME NEW i \in DOMAIN toClient', IsCapture(toClient'[i])
        PROVE  /\ toClient'[i].seq <= taken /\ toClient'[i].seq > cl.got
               /\ \A n \in lost : toClient'[i].seq > n
               /\ \A j \in DOMAIN toClient' : IsCapture(toClient'[j]) /\ i < j =>
                    toClient'[i].seq < toClient'[j].seq
    <3>1. CASE i = Len(toClient) + 1
      <4>1. toClient'[i].seq = taken /\ \A j \in DOMAIN toClient' : ~(i < j)
        BY <1>2, <1>3, <3>1
      <4> QED BY <2>1, <2>2, <4>1
    <3>2. CASE i \in DOMAIN toClient /\ toClient'[i] = toClient[i]
      <4>1. ASSUME NEW j \in DOMAIN toClient', IsCapture(toClient'[j]), i < j
            PROVE  toClient'[i].seq < toClient'[j].seq
        <5>1. CASE j = Len(toClient) + 1
          <6>1. toClient'[j].seq = taken /\ toClient[i].seq <= daemon.sent
            BY <1>2, <1>3, <2>1, <2>4, <3>2, <5>1
          <6> QED BY <2>2, <2>3, <3>2, <6>1
        <5>2. CASE j \in DOMAIN toClient /\ toClient'[j] = toClient[j]
          BY <2>1, <2>4, <3>2, <4>1, <5>2
        <5> QED BY <1>3, <5>1, <5>2
      <4>2. /\ toClient[i].seq <= daemon.sent /\ toClient[i].seq > cl.got
            /\ \A n \in lost : toClient[i].seq > n
        BY <2>1, <2>4, <3>2
      <4>3. toClient[i].seq <= taken
        BY <2>2, <2>3, <3>2, <4>2
      <4> QED BY <3>2, <4>1, <4>2, <4>3
    <3> QED BY <1>3, <3>1, <3>2
  <2>5. cl.got <= taken /\ \A n \in lost : n <= taken
    BY <2>1, <2>2
  <2>6. taken <= taken
    BY <2>2
  <2> QED BY <1>5, <2>4, <2>5, <2>6 DEF Ordered
<1>12. Replies'
  <2>1. \A i \in DOMAIN toClient' : toClient'[i].kind = "reply" =>
           i \in DOMAIN toClient /\ toClient'[i] = toClient[i]
    BY <1>3 DEF IsCapture
  <2> QED BY <1>1, <1>5, <2>1 DEF Parts, Replies, Acked
<1>13. CaptureIsLatest'
  BY <1>1, <1>5 DEF Parts, CaptureIsLatest
<1>14. ReadsAsMeasured'
  BY <1>1, <1>5 DEF Parts, ReadsAsMeasured
<1> QED BY <1>7, <1>8, <1>9, <1>10, <1>11, <1>12, <1>13, <1>14 DEF IInv

(* What a triggered capture puts on the socket.                            *)
LEMMA TriggeredIs ==
  ASSUME Parts, DaemonTriggered
  PROVE  /\ toClient' \in Seq(Captures \cup Texts)
         /\ \A i \in DOMAIN toClient' : toClient'[i].kind = "reply" =>
              \/ toClient'[i].seq \in {0, taken}
              \/ i \in DOMAIN toClient /\ toClient'[i] = toClient[i]
<1> DEFINE pushed == IF "early" \in Events THEN {<<Frame(n, "none")>> : n \in 1..taken} ELSE {}
           M == Captures \cup Texts
<1>1. PICK acked \in {0, taken}, before \in {<<>>} \cup pushed, between \in {<<>>} \cup pushed,
           how \in Arrivals(taken) :
        toClient' = toClient \o before \o <<Text("reply", acked)>> \o between \o <<Frame(taken, how)>>
  BY DEF DaemonTriggered
<1>2. toClient \in Seq(M) /\ taken > 0 /\ taken \in 1..Newest
  BY DEF Parts, Typed, TypeOK, DaemonTriggered
<1>3. how \in Damage /\ "none" \in Damage
  BY <1>2, DamageIs DEF Damage
<1>4. \A n \in 1..taken : Frame(n, "none") \in Captures
  BY <1>2, <1>3 DEF Frame, Captures, Parts, Typed
<1>5. Frame(taken, how) \in Captures /\ Text("reply", acked) \in Texts
  BY <1>2, <1>3 DEF Frame, Captures, Text, Texts, Parts, Typed
<1>6. \A x \in {<<>>} \cup pushed :
        x \in Seq(M) /\ \A i \in DOMAIN x : x[i].kind # "reply"
  <2>1. ASSUME NEW n \in 1..taken
        PROVE  /\ <<Frame(n, "none")>> \in Seq(M)
               /\ \A i \in DOMAIN <<Frame(n, "none")>> : <<Frame(n, "none")>>[i].kind # "reply"
    <3>1. Frame(n, "none") \in M /\ Frame(n, "none").kind = "capture"
      BY <1>4 DEF Frame
    <3> HIDE DEF M
    <3> QED BY <3>1
  <2>2. <<>> \in Seq(M) /\ DOMAIN <<>> = {}
    OBVIOUS
  <2> HIDE DEF M
  <2> QED BY <2>1, <2>2
<1> DEFINE r == <<Text("reply", acked)>>
           z == <<Frame(taken, how)>>
           a == toClient \o before
           b == a \o r
           c == b \o between
<1>7. r \in Seq(M) /\ r[1].seq = acked /\ DOMAIN r = {1} /\ z \in Seq(M) /\ DOMAIN z = {1} /\ z[1].kind # "reply"
  <2>1. Text("reply", acked) \in M /\ Frame(taken, how) \in M
    BY <1>5
  <2>2. Text("reply", acked).seq = acked /\ Frame(taken, how).kind # "reply"
    BY DEF Text, Frame
  <2> HIDE DEF M
  <2> QED BY <2>1, <2>2
<1> DEFINE Good(s) == /\ s \in Seq(M)
                      /\ \A i \in DOMAIN s : s[i].kind = "reply" =>
                           \/ s[i].seq \in {0, taken}
                           \/ i \in DOMAIN toClient /\ s[i] = toClient[i]
<1>8. \A s, t : Good(s) /\ t \in Seq(M)
               /\ (\A i \in DOMAIN t : t[i].kind = "reply" => t[i].seq \in {0, taken})
               => Good(s \o t)
  <2> HIDE DEF M
  <2> SUFFICES ASSUME NEW s, NEW t, Good(s), t \in Seq(M),
                      \A i \in DOMAIN t : t[i].kind = "reply" => t[i].seq \in {0, taken}
               PROVE  Good(s \o t)
    OBVIOUS
  <2>1. /\ s \o t \in Seq(M) /\ DOMAIN (s \o t) = 1..(Len(s) + Len(t))
        /\ DOMAIN s = 1..Len(s) /\ DOMAIN t = 1..Len(t) /\ Len(s) \in Nat /\ Len(t) \in Nat
        /\ \A i \in 1..(Len(s) + Len(t)) : (s \o t)[i] = IF i <= Len(s) THEN s[i] ELSE t[i - Len(s)]
    BY ConcatProperties, LenProperties
  <2>2. ASSUME NEW i \in DOMAIN (s \o t), (s \o t)[i].kind = "reply"
        PROVE  \/ (s \o t)[i].seq \in {0, taken}
               \/ i \in DOMAIN toClient /\ (s \o t)[i] = toClient[i]
    <3>1. CASE i <= Len(s)
      <4>1. i \in DOMAIN s /\ (s \o t)[i] = s[i]
        BY <2>1, <3>1
      <4> QED BY <2>2, <4>1
    <3>2. CASE ~(i <= Len(s))
      <4>1. i - Len(s) \in DOMAIN t /\ (s \o t)[i] = t[i - Len(s)]
        BY <2>1, <3>2
      <4> QED BY <2>2, <4>1
    <3> QED BY <3>1, <3>2
  <2> QED BY <2>1, <2>2
<1>9. Good(toClient)
  BY <1>2
<1> HIDE DEF Good, M, pushed
<1>10. Good(a)
  BY <1>6, <1>8, <1>9 DEF a
<1>11. Good(b)
  BY <1>7, <1>8, <1>10 DEF b, r
<1>12. Good(c)
  BY <1>6, <1>8, <1>11 DEF c
<1>13. Good(c \o z)
  BY <1>7, <1>8, <1>12 DEF z
<1> QED BY <1>1, <1>13 DEF Good, M, a, b, c, r, z

LEMMA DaemonTriggeredKeeps ==
  ASSUME IInv, DaemonTriggered
  PROVE  IInv'
<1>1. Parts
  BY Unpacked
<1>2. /\ toBox' \in Seq(Commands) /\ 1 \in DOMAIN toBox /\ toBox[1] = "GetTriggeredData" /\ toBox # <<>>
      /\ DOMAIN toBox' \subseteq Nat \ {0} /\ CreditsUnderWay' \in Nat
      /\ \A i \in DOMAIN toBox' : i + 1 \in DOMAIN toBox /\ toBox'[i] = toBox[i + 1]
      /\ CreditsUnderWay = CreditsUnderWay'
  <2>1. "GetTriggeredData" \in Commands
    BY DEF Commands
  <2>2. TypeOK /\ Command("GetTriggeredData")
    BY <1>1 DEF Parts, DaemonTriggered
  <2> HIDE DEF Commands
  <2> QED BY <2>1, <2>2, Commanded
<1>3. /\ toClient' \in Seq(Captures \cup Texts)
      /\ \A i \in DOMAIN toClient' : toClient'[i].kind = "reply" =>
           \/ toClient'[i].seq \in {0, taken}
           \/ i \in DOMAIN toClient /\ toClient'[i] = toClient[i]
  BY <1>1, TriggeredIs
<1>4. /\ cl.mode = "capture" /\ cl.pc \notin {"new", "refused", "ask"}
      /\ UNCHANGED <<taken, daemon, texts, cl, lost>>
  <2>1. cl.mode # "stream"
    BY <1>1, <1>2 DEF Parts, Modes
  <2>2. cl.mode \in Mode
    BY <1>1 DEF Parts, TypeOK, Reader
  <2> QED BY <1>1, <1>2, <2>1, <2>2 DEF Mode, Parts, Starts, DaemonTriggered
<1>5. TypeOK'
  BY <1>1, <1>2, <1>3, <1>4 DEF Parts, TypeOK
<1>6. Starts'
  <2>1. \A i \in DOMAIN toBox' : toBox'[i] # "Subscribe"
    BY <1>1, <1>2, <1>4 DEF Parts, Modes
  <2> QED BY <1>4, <2>1 DEF Starts
<1>7. Modes'
  BY <1>1, <1>2, <1>3, <1>4 DEF Parts, Modes
<1>8. Account'
  BY <1>4 DEF Account
<1>9. Ordered'
  BY <1>1, <1>4 DEF Parts, Ordered
<1>10. Replies'
  BY <1>1, <1>3, <1>4 DEF Parts, Typed, Replies, Acked
<1>11. CaptureIsLatest'
  BY <1>1, <1>2, <1>3, <1>4 DEF Parts, CaptureIsLatest
<1>12. ReadsAsMeasured'
  BY <1>1, <1>2, <1>3, <1>4 DEF Parts, ReadsAsMeasured
<1> QED BY <1>5, <1>6, <1>7, <1>8, <1>9, <1>10, <1>11, <1>12 DEF IInv

-----------------------------------------------------------------------------
(* THEOREMS *)

LEMMA InitInv == Init => IInv
<1> SUFFICES ASSUME Init PROVE IInv
  OBVIOUS
<1>1. /\ taken = 0 /\ texts = 0 /\ toBox = <<>> /\ toClient = <<>> /\ cl = Fresh /\ lost = {}
      /\ daemon = [subscribed |-> FALSE, owes |-> FALSE, credits |-> 0, sent |-> 0]
  BY DEF Init
<1>2. Newest \in Nat /\ Credits \in Nat /\ MaxTexts \in Nat
  BY ShotsAssumption, StreamAssumption DEF Newest
<1>3. cl \in Reader /\ daemon \in Subscriber
  BY <1>1, <1>2 DEF Fresh, Reader, Subscriber, Mode, Readings
<1>4. toBox \in Seq(Commands) /\ toClient \in Seq(Captures \cup Texts)
      /\ DOMAIN toBox = {} /\ DOMAIN toClient = {}
  <2> HIDE DEF Commands, Captures, Texts
  <2> QED BY <1>1
<1>5. TypeOK
  BY <1>1, <1>2, <1>3, <1>4 DEF TypeOK
<1>6. cl.mode = "stream" /\ cl.got = 0 /\ cl.asked = 0 /\ cl.acked = 0 /\ cl.res # "ok" /\ cl.pc = "new"
  BY <1>1 DEF Fresh
<1>7. Total = 0
  <2>1. CreditsUnderWay = 0 /\ CapturesUnderWay = 0
    BY <1>4, <1>5, UnderWay DEF NoCaptures
  <2> QED BY <1>1, <2>1, FS_EmptySet DEF Total
<1>8. Starts
  BY <1>1, <1>4, <1>6 DEF Starts, Unspent, NoCaptures
<1>9. Modes /\ Replies /\ CaptureIsLatest /\ ReadsAsMeasured
  BY <1>1, <1>4, <1>6 DEF Modes, Replies, Acked, CaptureIsLatest, ReadsAsMeasured
<1>10. Account /\ Ordered
  BY <1>1, <1>2, <1>4, <1>6, <1>7 DEF Account, Ordered
<1> QED BY <1>5, <1>8, <1>9, <1>10 DEF IInv

LEMMA NextInv == IInv /\ [Next]_vars => IInv'
<1> SUFFICES ASSUME IInv, [Next]_vars PROVE IInv'
  OBVIOUS
<1>1. CASE Client
  BY <1>1, OpenKeeps, AskKeeps, ReadReplyKeeps, NextCaptureKeeps, ReadNextKeeps, ReadCaptureKeeps,
     TimeoutKeeps, CloseKeeps DEF Client
<1>2. CASE Take
  BY <1>2, TakeKeeps
<1>3. CASE Daemon
  BY <1>3, DaemonSubscribesKeeps, DaemonRepliesKeeps, DaemonCreditsKeeps, DaemonSendsKeeps,
     DaemonTriggeredKeeps, DaemonTellsKeeps, DaemonHangsUpKeeps, DaemonClosesKeeps DEF Daemon
<1>4. CASE UNCHANGED vars
  BY <1>4 DEF vars, IInv, TypeOK, Starts, Unspent, NoCaptures, Modes, Account, Total,
       CapturesUnderWay, CreditsUnderWay, Ordered, Replies, Acked, CaptureIsLatest, ReadsAsMeasured
<1> QED BY <1>1, <1>2, <1>3, <1>4 DEF Next

LEMMA Inductive == Spec => []IInv
BY InitInv, NextInv, PTL DEF Spec

(* The states are of their type.                                           *)
THEOREM TypeCorrect == Spec => []TypeOK
<1>1. IInv => TypeOK
  BY DEF IInv
<1> QED BY <1>1, Inductive, PTL

(* The daemon never has more captures on the socket than it was given      *)
(* credits, however reads, timeouts and damaged frames fall: no backlog.   *)
THEOREM NoBacklog == Spec => []WindowHolds
<1>1. IInv => WindowHolds
  <2> SUFFICES ASSUME IInv, cl.mode = "stream"
               PROVE  CapturesUnderWay + daemon.credits + CreditsUnderWay <= Credits
    BY DEF WindowHolds
  <2>1. Parts
    BY Unpacked
  <2> QED BY <2>1 DEF Parts, Typed, Account, Total
<1> QED BY <1>1, Inductive, PTL

(* The account balances: a subscriber's credits are with the daemon, on    *)
(* their way, in a capture under way, or lost with one skipped or damaged. *)
THEOREM CreditsBalance == Spec => []NoCreditLost
<1>1. IInv => NoCreditLost
  <2> SUFFICES ASSUME IInv, daemon.subscribed
               PROVE  CapturesUnderWay + daemon.credits + CreditsUnderWay + Cardinality(lost) >= Credits
    BY DEF NoCreditLost
  <2>1. Parts
    BY Unpacked
  <2>2. cl.mode = "stream"
    BY <2>1 DEF Parts, Modes, TypeOK, Reader, Mode
  <2> QED BY <2>1, <2>2 DEF Parts, Typed, Account, Total
<1> QED BY <1>1, Inductive, PTL

(* What is returned is newer than all that was returned before.            *)
THEOREM NeverBackwards == Spec => Forwards
<1>1. IInv /\ [Next]_vars => [cl'.got # cl.got => cl'.got > cl.got]_vars
  <2> SUFFICES ASSUME IInv, Next, cl'.got # cl.got
               PROVE  cl'.got > cl.got
    BY DEF vars
  <2>1. Parts /\ cl \in Reader
    BY Unpacked DEF Parts, TypeOK
  <2>2. cl' # cl /\ \A p, r : /\ cl' # [cl EXCEPT !.pc = p]
                              /\ cl' # [cl EXCEPT !.pc = p, !.res = r]
    BY <2>1 DEF Reader
  <2>3. CASE ReadNext
    <3>1. cl.mode = "stream" /\ Arrived /\ Received
      BY <2>1, <2>3 DEF Parts, Modes, ReadNext, Reader, Mode
    <3>2. IsCapture(Msg) /\ cl' = [Took(cl, Msg) EXCEPT !.pc = "idle"]
      BY <2>2, <2>3 DEF ReadNext, IsCapture
    <3>3. 1 \in DOMAIN toClient /\ Msg = toClient[1] /\ Msg \in Captures
      BY <2>1, <3>1, <3>2, Reads, Kinds DEF Parts
    <3>4. Msg.seq > cl.got
      BY <2>1, <3>1, <3>2, <3>3 DEF Parts, Ordered
    <3>5. Took(cl, Msg) \in Reader /\ Took(cl, Msg).got = Msg.seq
      BY <2>1, <3>3, TookIs, Zenon
    <3>6. cl'.got = Msg.seq
      BY <3>2, <3>5 DEF Reader
    <3> QED BY <3>4, <3>6
  <2>4. CASE ReadCapture
    <3>1. cl.got = 0 /\ Arrived /\ Received
      BY <2>1, <2>4 DEF Parts, Modes, ReadCapture, Reader, Mode
    <3>2. IsCapture(Msg) /\ Over(Took(cl, Msg))
      <4>1. ~Over([cl EXCEPT !.res = "error"])
        BY <2>1 DEF Over, Reader
      <4> QED BY <2>2, <2>4, <4>1 DEF ReadCapture, Answers, IsCapture
    <3>3. Msg \in Captures /\ Msg.seq \in 1..Newest /\ Newest \in Nat
      BY <2>1, <3>1, <3>2, Reads, Kinds DEF Parts, Typed
    <3>4. Took(cl, Msg) \in Reader /\ Took(cl, Msg).got = Msg.seq
      BY <2>1, <3>3, TookIs, Zenon
    <3>5. cl'.got = Msg.seq
      BY <3>2, <3>4 DEF Reader, Over
    <3> QED BY <3>1, <3>3, <3>5
  <2>5. CASE Open \/ Ask \/ ReadReply \/ NextCapture \/ Timeout \/ Close
    BY <2>1, <2>5 DEF Open, Ask, ReadReply, NextCapture, Timeout, Close, Over, Reader
  <2>6. ~Take /\ ~Daemon
    BY <2>2 DEF Take, Daemon, DaemonSubscribes, DaemonReplies, DaemonCredits, DaemonSends,
         DaemonTriggered, DaemonTells, DaemonHangsUp, DaemonCloses
  <2> QED BY <2>3, <2>4, <2>5, <2>6 DEF Next, Client
<1> QED BY <1>1, Inductive, PTL DEF Spec, Forwards

(* A single capture is no older than the newest there was on asking.       *)
THEOREM LatestIsLatest == Spec => []CaptureIsLatest
<1>1. IInv => CaptureIsLatest
  BY DEF IInv
<1> QED BY <1>1, Inductive, PTL

(* What is read is what was measured, for any shots and any damage.        *)
THEOREM ReadsTrue == Spec => []ReadsAsMeasured
<1>1. IInv => ReadsAsMeasured
  BY DEF IInv
<1> QED BY <1>1, Inductive, PTL

=============================================================================
