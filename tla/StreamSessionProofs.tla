------------------------- MODULE StreamSessionProofs -------------------------
(***************************************************************************)
(* Theorems about StreamSession, for any sessions, needle, timeouts and    *)
(* bounds: a session is a pipe (BytePipe), wait_for finds what it is asked *)
(* for, the async twins keep their timeouts, and writes keep their order.  *)
(***************************************************************************)
EXTENDS StreamSession, TLAPS, SequenceTheorems, WellFoundedInduction

(* What a session object is like between any two steps.                    *)
Timely(c) == (c.pc = "pump" => c.timer <= c.due) /\ ~c.late
Found(c) ==
  /\ c.res = "found" => Ends(c.found) = {Len(c.found)}
  /\ c.res = "timeout" /\ c.pc = "idle" => Ends(c.buf) = {}
Sound(c) ==
  /\ c.pc \in {"new", "connecting", "abandoned"} => c.buf = <<>>
  /\ c.pc \in {"new", "connecting", "abandoned", "opening", "check", "pump"} => c.res = "none"
  /\ c.timer <= c.wait /\ Found(c)
  /\ Async => Timely(c)

(* A write on the wire is over, and so is one that another began after.    *)
Ordered(s) ==
  /\ \A i \in DOMAIN wire[s] : writes[s][wire[s][i]].st \in {"ok", "over"}
  /\ \A n \in DOMAIN writes[s] : \A m \in writes[s][n].after : writes[s][m].st = "ok"
  /\ \A i, j \in DOMAIN wire[s] :
       i < j => wire[s][i] # wire[s][j] /\ wire[s][j] \notin writes[s][wire[s][i]].after

IInv == TypeOK /\ \A s \in Sessions : Sound(sess[s]) /\ Ordered(s)

-----------------------------------------------------------------------------
(* A set of numbers has a least one.                                       *)
LEMMA Least ==
  ASSUME NEW T, T \subseteq Nat, T # {}
  PROVE  \E m \in T : \A k \in T : m <= k
<1> DEFINE R == OpToRel(<, Nat)
<1>1. IsWellFoundedOn(R, Nat)
  BY NatLessThanWellFounded
<1>2. \A x, y \in Nat : x < y => <<x, y>> \in R
  BY DEF OpToRel
<1> HIDE DEF R
<1>3. PICK m \in T : \A k \in T : ~(<<k, m>> \in R)
  BY <1>1, WFMin
<1>4. \A k \in T : ~(k < m)
  BY <1>2, <1>3
<1> QED BY <1>4

(* The bytes of a queue, event by event: the recursion in Bytes is sound.  *)
Grow(f, q, n) == [i \in 0..n |-> IF i = 0 THEN <<>> ELSE Plus(f[i - 1], q[i])]
Grows(f, q) ==
  /\ f \in [0..Len(q) -> Seq(Byte)] /\ f[0] = <<>>
  /\ \A i \in 1..Len(q) : f[i] = Plus(f[i - 1], q[i])

LEMMA PlusIs ==
  ASSUME NEW b \in Seq(Byte), NEW e \in Event
  PROVE  /\ Plus(b, e) \in Seq(Byte)
         /\ e.kind = "data" => e.byte \in Byte /\ Plus(b, e) = Append(b, e.byte)
         /\ e.kind # "data" => Plus(b, e) = b
BY DEF Plus, Event

LEMMA PlusConcat ==
  ASSUME NEW a \in Seq(Byte), NEW b \in Seq(Byte), NEW e \in Event
  PROVE  Plus(a \o b, e) = a \o Plus(b, e)
<1>1. CASE e.kind = "data"
  <2>1. e.byte \in Byte
    BY <1>1, PlusIs
  <2>2. Append(a \o b, e.byte) = a \o Append(b, e.byte)
    BY <2>1
  <2> QED BY <1>1, <2>2 DEF Plus
<1>2. CASE e.kind # "data"
  BY <1>2 DEF Plus
<1> QED BY <1>1, <1>2

LEMMA BytesGrow ==
  ASSUME NEW q \in Seq(Event)
  PROVE  \E f : Grows(f, q) /\ Bytes(q) = f[Len(q)]
<1> DEFINE n == Len(q)
           Bad == {k \in 0..n : ~ \E f : f = Grow(f, q, k)}
<1>1. n \in Nat
  BY LenProperties
<1>2. Bad = {}
  <2> SUFFICES ASSUME Bad # {} PROVE FALSE
    OBVIOUS
  <2>4. Bad \subseteq Nat
    BY <1>1
  <2>1. PICK k \in Bad : \A j \in Bad : k <= j
    BY <2>4, Least, Zenon
  <2>2. CASE k = 0
    <3> DEFINE f == [i \in 0..0 |-> <<>>]
    <3>1. f = Grow(f, q, 0)
      BY DEF Grow
    <3> QED BY <2>1, <2>2, <3>1
  <2>3. CASE k # 0
    <3>1. k \in 1..n /\ k - 1 \in 0..n /\ k - 1 \notin Bad
      BY <1>1, <2>1, <2>3
    <3>2. PICK g : g = Grow(g, q, k - 1)
      BY <3>1
    <3> DEFINE f == [i \in 0..k |-> IF i = k THEN Plus(g[k - 1], q[k]) ELSE g[i]]
    <3>3. \A i \in 0..k : f[i] = IF i = 0 THEN <<>> ELSE Plus(f[i - 1], q[i])
      <4> SUFFICES ASSUME NEW i \in 0..k
                   PROVE  f[i] = IF i = 0 THEN <<>> ELSE Plus(f[i - 1], q[i])
        OBVIOUS
      <4>1. CASE i = k
        BY <3>1, <4>1
      <4>2. CASE i # k
        <5>1. f[i] = g[i] /\ i \in 0..(k - 1) /\ (i # 0 => i - 1 \in 0..(k - 1) /\ f[i - 1] = g[i - 1])
          BY <1>1, <3>1, <4>2
        <5>2. g[i] = IF i = 0 THEN <<>> ELSE Plus(g[i - 1], q[i])
          BY <3>2, <5>1, Zenon DEF Grow
        <5> QED BY <5>1, <5>2
      <4> QED BY <4>1, <4>2
    <3>4. f = Grow(f, q, k)
      <4>1. DOMAIN f = 0..k
        OBVIOUS
      <4>2. f = [i \in 0..k |-> f[i]]
        OBVIOUS
      <4> HIDE DEF f
      <4> QED BY <3>3, <4>2, Zenon DEF Grow
    <3> QED BY <2>1, <3>4
  <2> QED BY <2>2, <2>3
<1> DEFINE g == CHOOSE f : f = Grow(f, q, n)
<1>3. g = Grow(g, q, n)
  <2>1. n \in 0..n
    BY <1>1
  <2>2. \E f : f = Grow(f, q, n)
    BY <1>2, <2>1, Zenon
  <2> QED BY <2>2, Zenon
<1>4. Bytes(q) = g[n]
  BY Zenon DEF Bytes, Grow
<1> HIDE DEF g
<1>5. g[0] = <<>> /\ DOMAIN g = 0..n /\ \A i \in 1..n : g[i] = Plus(g[i - 1], q[i])
  <2>1. DOMAIN g = 0..n /\ \A i \in 0..n : g[i] = IF i = 0 THEN <<>> ELSE Plus(g[i - 1], q[i])
    BY <1>3, Zenon DEF Grow
  <2>2. 0 \in 0..n /\ \A i \in 1..n : i \in 0..n /\ i # 0
    BY <1>1
  <2> QED BY <2>1, <2>2, Zenon
<1>6. {k \in 0..n : g[k] \notin Seq(Byte)} = {}
  <2> DEFINE W == {k \in 0..n : g[k] \notin Seq(Byte)}
  <2> SUFFICES ASSUME W # {} PROVE FALSE
    OBVIOUS
  <2>6. W \subseteq Nat
    BY <1>1
  <2>1. PICK k \in W : \A j \in W : k <= j
    BY <2>6, Least, Zenon
  <2>2. k # 0
    <3>1. g[0] \in Seq(Byte)
      BY <1>5
    <3>2. g[k] \notin Seq(Byte)
      BY <2>1
    <3> QED BY <3>1, <3>2
  <2>3. k \in 1..n /\ k - 1 \in 0..n /\ g[k - 1] \in Seq(Byte)
    BY <1>1, <2>1, <2>2
  <2>4. q[k] \in Event
    BY <2>3, ElementOfSeq
  <2>5. g[k] \in Seq(Byte)
    BY <1>5, <2>3, <2>4, PlusIs
  <2> QED BY <2>1, <2>5
<1>7. g = [i \in 0..n |-> g[i]]
  BY <1>3 DEF Grow
<1>8. g \in [0..n -> Seq(Byte)]
  BY <1>6, <1>7
<1> QED BY <1>4, <1>5, <1>8 DEF Grows

(* Two queues that agree from some place on.                               *)
Agree(q, r, a, n) ==
  n <= Len(r) /\ a + n <= Len(q) /\ \A i \in 1..n : q[a + i] = r[i]
Continues(f, g, a, n) == f[a + n] = f[a] \o g[n]

LEMMA GrowAlike ==
  ASSUME NEW q \in Seq(Event), NEW r \in Seq(Event), NEW f, NEW g, Grows(f, q), Grows(g, r),
         NEW a \in Nat, NEW n \in Nat, Agree(q, r, a, n)
  PROVE  Continues(f, g, a, n)
<1> USE DEF Agree, Continues
<1> DEFINE W == {i \in 0..n : f[a + i] # f[a] \o g[i]}
<1>1. Len(q) \in Nat /\ Len(r) \in Nat
  BY LenProperties
<1>2. /\ \A i \in 0..Len(q) : f[i] \in Seq(Byte)
      /\ \A i \in 0..Len(r) : g[i] \in Seq(Byte)
      /\ f[0] = <<>> /\ g[0] = <<>>
      /\ \A i \in 1..Len(q) : f[i] = Plus(f[i - 1], q[i])
      /\ \A i \in 1..Len(r) : g[i] = Plus(g[i - 1], r[i])
  BY DEF Grows
<1>3. a \in 0..Len(q) /\ f[a] \in Seq(Byte)
  BY <1>1, <1>2
<1>4. W = {}
  <2> SUFFICES ASSUME W # {} PROVE FALSE
    OBVIOUS
  <2>4. W \subseteq Nat
    <3>1. 0..n \subseteq Nat
      OBVIOUS
    <3> QED BY <3>1, Zenon
  <2>1. PICK k \in W : \A j \in W : k <= j
    BY <2>4, Least, Zenon
  <2>2. CASE k = 0
    <3>1. f[a + 0] = f[a] /\ f[a] \o <<>> = f[a]
      BY <1>3
    <3> QED BY <1>2, <2>1, <2>2, <3>1
  <2>3. CASE k # 0
    <3>1. /\ k \in 1..n /\ k - 1 \in 0..n /\ k \in 1..Len(r) /\ k - 1 \in 0..Len(r)
          /\ a + k \in 1..Len(q) /\ (a + k) - 1 = a + (k - 1)
      BY <1>1, <2>1, <2>3
    <3>7. k - 1 \notin W
      <4>1. ~(k <= k - 1)
        BY <3>1
      <4> QED BY <2>1, <4>1
    <3>2. f[a + (k - 1)] = f[a] \o g[k - 1]
      BY <3>1, <3>7
    <3>3. f[a + k] = Plus(f[a] \o g[k - 1], r[k])
      BY <1>2, <3>1, <3>2
    <3>4. g[k - 1] \in Seq(Byte) /\ r[k] \in Event
      BY <1>2, <3>1, ElementOfSeq
    <3>5. f[a + k] = f[a] \o Plus(g[k - 1], r[k])
      BY <1>3, <3>3, <3>4, PlusConcat
    <3>6. g[k] = Plus(g[k - 1], r[k])
      BY <1>2, <3>1
    <3> QED BY <2>1, <3>5, <3>6
  <2> QED BY <2>2, <2>3
<1>5. n \in 0..n
  OBVIOUS
<1> QED BY <1>4, <1>5, Zenon

LEMMA BytesType ==
  ASSUME NEW q \in Seq(Event)
  PROVE  Bytes(q) \in Seq(Byte) /\ (q = <<>> => Bytes(q) = <<>>)
<1>1. PICK f : Grows(f, q) /\ Bytes(q) = f[Len(q)]
  BY BytesGrow
<1>2. Len(q) \in Nat /\ (q = <<>> => Len(q) = 0)
  BY LenProperties
<1>3. Len(q) \in 0..Len(q)
  BY <1>2
<1> QED BY <1>1, <1>2, <1>3 DEF Grows

LEMMA BytesAppend ==
  ASSUME NEW q \in Seq(Event), NEW e \in Event
  PROVE  Bytes(Append(q, e)) = Plus(Bytes(q), e)
<1> DEFINE r == Append(q, e)
           n == Len(q)
<1>1. /\ r \in Seq(Event) /\ Len(r) = n + 1 /\ r[n + 1] = e /\ n \in Nat
      /\ \A i \in 1..n : r[i] = q[i]
  BY AppendProperties, LenProperties
<1>2. PICK f : Grows(f, r) /\ Bytes(r) = f[Len(r)]
  BY <1>1, BytesGrow
<1>3. PICK g : Grows(g, q) /\ Bytes(q) = g[n]
  BY BytesGrow
<1> HIDE DEF r
<1>4. f[0 + n] = f[0] \o g[n]
  <2>1. Agree(r, q, 0, n) /\ n \in Nat /\ 0 \in Nat
    BY <1>1 DEF Agree
  <2>2. r \in Seq(Event) /\ Grows(f, r) /\ Grows(g, q)
    BY <1>1, <1>2, <1>3
  <2> HIDE DEF n
  <2>3. Continues(f, g, 0, n)
    BY <2>1, <2>2, GrowAlike, Zenon
  <2> QED BY <2>3 DEF Continues
<1>5. f[n] = Bytes(q)
  <2>1. 0 + n = n /\ n \in 0..n
    BY <1>1
  <2>2. f[0] = <<>> /\ g[n] \in Seq(Byte) /\ <<>> \o g[n] = g[n]
    BY <1>2, <1>3, <2>1 DEF Grows
  <2> QED BY <1>3, <1>4, <2>1, <2>2
<1>6. f[n + 1] = Plus(f[(n + 1) - 1], r[n + 1])
  <2>1. n + 1 \in 1..Len(r)
    BY <1>1
  <2> QED BY <1>2, <2>1, Zenon DEF Grows
<1>7. (n + 1) - 1 = n
  BY <1>1
<1> QED BY <1>1, <1>2, <1>5, <1>6, <1>7 DEF r

LEMMA BytesTail ==
  ASSUME NEW q \in Seq(Event), q # <<>>
  PROVE  Bytes(q) = Plus(<<>>, Head(q)) \o Bytes(Tail(q))
<1> DEFINE r == Tail(q)
           n == Len(q)
<1>1. /\ r \in Seq(Event) /\ Len(r) = n - 1 /\ n \in Nat \ {0} /\ Head(q) = q[1]
      /\ \A i \in 1..(n - 1) : r[i] = q[i + 1]
  BY HeadTailProperties, LenProperties
<1>2. PICK f : Grows(f, q) /\ Bytes(q) = f[n]
  BY BytesGrow
<1>3. PICK g : Grows(g, r) /\ Bytes(r) = g[Len(r)]
  BY <1>1, BytesGrow
<1> HIDE DEF r
<1>4. f[1 + (n - 1)] = f[1] \o g[n - 1]
  <2>1. Agree(q, r, 1, n - 1) /\ n - 1 \in Nat /\ 1 \in Nat
    BY <1>1 DEF Agree
  <2>2. r \in Seq(Event) /\ Grows(f, q) /\ Grows(g, r)
    BY <1>1, <1>2, <1>3
  <2> HIDE DEF n
  <2>3. Continues(f, g, 1, n - 1)
    BY <2>1, <2>2, GrowAlike, Zenon
  <2> QED BY <2>3 DEF Continues
<1>5. f[1] = Plus(<<>>, Head(q))
  <2>1. 1 \in 1..Len(q) /\ 1 - 1 = 0
    BY <1>1
  <2>2. f[1] = Plus(f[1 - 1], q[1]) /\ f[0] = <<>>
    BY <1>2, <2>1, Zenon DEF Grows
  <2> QED BY <1>1, <2>1, <2>2
<1>6. 1 + (n - 1) = n
  BY <1>1
<1> QED BY <1>1, <1>2, <1>3, <1>4, <1>5, <1>6 DEF r

(* An event that goes from the channel to the buffer changes no byte.      *)
Whole(b, q) == b \o Bytes(q)
LEMMA Refill ==
  ASSUME NEW b \in Seq(Byte), NEW q \in Seq(Event), q # <<>>
  PROVE  Whole(Plus(b, Head(q)), Tail(q)) = Whole(b, q)
<1> DEFINE e == Head(q)
           r == Tail(q)
           p == Plus(<<>>, e)
<1>1. e \in Event /\ r \in Seq(Event) /\ <<>> \in Seq(Byte)
  BY HeadTailProperties
<1>2. Bytes(q) = p \o Bytes(r)
  BY BytesTail
<1>3. p \in Seq(Byte) /\ Bytes(r) \in Seq(Byte)
  BY <1>1, PlusIs, BytesType
<1> HIDE DEF p, e, r
<1>4. Plus(b \o <<>>, e) = b \o p
  BY <1>1, PlusConcat DEF p
<1>5. b \o <<>> = b
  BY ConcatEmptySeq
<1>6. b \o (p \o Bytes(r)) = (b \o p) \o Bytes(r)
  <2> DEFINE t == Bytes(r)
  <2>1. p \in Seq(Byte) /\ t \in Seq(Byte) /\ b \in Seq(Byte)
    BY <1>3
  <2> HIDE DEF t
  <2>2. (b \o p) \o t = b \o (p \o t)
    BY <2>1, ConcatAssociative
  <2> QED BY <2>2 DEF t
<1> QED BY <1>2, <1>4, <1>5, <1>6 DEF Whole, e, r

-----------------------------------------------------------------------------
(* The pieces of a buffer and what is still in the channel behind it.      *)
LEMMA Cut ==
  ASSUME NEW b \in Seq(Byte), NEW c \in Seq(Byte), NEW n \in 0..Len(b)
  PROVE  /\ SubSeq(b \o c, 1, n) = SubSeq(b, 1, n)
         /\ SubSeq(b \o c, n + 1, Len(b \o c)) = SubSeq(b, n + 1, Len(b)) \o c
         /\ SubSeq(b, 1, n) \in Seq(Byte) /\ Len(SubSeq(b, 1, n)) = n
         /\ SubSeq(b, n + 1, Len(b)) \in Seq(Byte)
<1> DEFINE k == Len(b)
           m == Len(c)
           v == SubSeq(b, n + 1, k)
<1>1. k \in Nat /\ m \in Nat /\ n \in Nat /\ n <= k
  BY LenProperties
<1>2. /\ b \o c \in Seq(Byte) /\ Len(b \o c) = k + m
      /\ \A i \in 1..(k + m) : (b \o c)[i] = IF i <= k THEN b[i] ELSE c[i - k]
  BY ConcatProperties
<1>3. /\ SubSeq(b, 1, n) \in Seq(Byte) /\ Len(SubSeq(b, 1, n)) = n
      /\ \A i \in 1..n : SubSeq(b, 1, n)[i] = b[i]
  BY <1>1, SubSeqProperties, ElementOfSeq
<1>4. /\ v \in Seq(Byte) /\ Len(v) = k - n
      /\ \A i \in 1..(k - n) : v[i] = b[n + i]
  BY <1>1, SubSeqProperties, ElementOfSeq
<1>5. SubSeq(b \o c, 1, n) = SubSeq(b, 1, n)
  <2>1. /\ SubSeq(b \o c, 1, n) \in Seq(Byte) /\ Len(SubSeq(b \o c, 1, n)) = n
        /\ \A i \in 1..n : SubSeq(b \o c, 1, n)[i] = (b \o c)[i]
    BY <1>1, <1>2
  <2>2. \A i \in 1..n : SubSeq(b \o c, 1, n)[i] = SubSeq(b, 1, n)[i]
    BY <1>1, <1>2, <1>3, <2>1
  <2> QED BY <1>3, <2>1, <2>2, SeqEqual
<1>6. SubSeq(b \o c, n + 1, k + m) = v \o c
  <2> DEFINE w == SubSeq(b \o c, n + 1, k + m)
  <2>1. /\ w \in Seq(Byte) /\ Len(w) = (k + m) - n
        /\ \A i \in 1..((k + m) - n) : w[i] = (b \o c)[n + i]
    BY <1>1, <1>2
  <2> HIDE DEF v, w, k, m
  <2>2. /\ v \o c \in Seq(Byte) /\ Len(v \o c) = (k - n) + m
        /\ \A i \in 1..((k - n) + m) :
             (v \o c)[i] = IF i <= k - n THEN v[i] ELSE c[i - (k - n)]
    <3>1. v \in Seq(Byte) /\ c \in Seq(Byte) /\ Len(c) = m /\ Len(v) = k - n
      BY <1>4 DEF m
    <3>2. /\ v \o c \in Seq(Byte) /\ Len(v \o c) = Len(v) + Len(c)
          /\ \A i \in 1..(Len(v) + Len(c)) :
               (v \o c)[i] = IF i <= Len(v) THEN v[i] ELSE c[i - Len(v)]
      BY <3>1, ConcatProperties
    <3> QED BY <3>1, <3>2
  <2>3. \A i \in 1..((k + m) - n) : w[i] = (v \o c)[i]
    <3> SUFFICES ASSUME NEW i \in 1..((k + m) - n) PROVE w[i] = (v \o c)[i]
      OBVIOUS
    <3>1. w[i] = IF n + i <= k THEN b[n + i] ELSE c[(n + i) - k]
      <4>1. n + i \in 1..(k + m)
        BY <1>1
      <4>2. w[i] = (b \o c)[n + i]
        BY <2>1
      <4> QED BY <1>2, <4>1, <4>2, Zenon
    <3>2. (v \o c)[i] = IF i <= k - n THEN b[n + i] ELSE c[i - (k - n)]
      BY <1>1, <1>4, <2>2
    <3>3. (n + i <= k <=> i <= k - n) /\ (n + i) - k = i - (k - n)
      BY <1>1
    <3> QED BY <3>1, <3>2, <3>3
  <2>4. Len(w) = Len(v \o c) /\ Len(w) = (k + m) - n
    BY <1>1, <2>1, <2>2
  <2>5. w = v \o c
    BY <2>1, <2>2, <2>3, <2>4, SeqEqual
  <2> QED BY <2>5 DEF w
<1> QED BY <1>2, <1>3, <1>4, <1>5, <1>6

(* take_through: the first end of the needle, if it has one.               *)
LEMMA FoundIsFirst ==
  ASSUME NEW b \in Seq(Byte)
  PROVE  /\ FoundAt(b) = 0 <=> Ends(b) = {}
         /\ FoundAt(b) # 0 => /\ FoundAt(b) \in 1..Len(b)
                              /\ Ends(SubSeq(b, 1, FoundAt(b))) = {FoundAt(b)}
<1> DEFINE L == Len(Needle)
           i == FoundAt(b)
<1>1. L \in Nat \ {0} /\ Len(b) \in Nat
  BY NeedleAssumption, LenProperties
<1>2. Ends(b) \subseteq 1..Len(b)
  BY <1>1 DEF Ends
<1>3. Ends(b) # {} => i \in Ends(b) /\ \A j \in Ends(b) : i <= j
  <2> SUFFICES ASSUME Ends(b) # {} PROVE i \in Ends(b) /\ \A j \in Ends(b) : i <= j
    OBVIOUS
  <2>1. Ends(b) \subseteq Nat
    BY <1>1, <1>2
  <2>2. \E m \in Ends(b) : \A j \in Ends(b) : m <= j
    BY <2>1, Least, Zenon
  <2>3. i = CHOOSE m \in Ends(b) : \A j \in Ends(b) : m <= j
    BY Zenon DEF FoundAt
  <2> QED BY <2>2, <2>3, Zenon
<1>4. Ends(b) = {} => i = 0
  BY DEF FoundAt
<1>5. ASSUME Ends(b) # {} PROVE Ends(SubSeq(b, 1, i)) = {i}
  <2> DEFINE p == SubSeq(b, 1, i)
  <2>1. i \in 1..Len(b) /\ i \in L..Len(b) /\ \A j \in Ends(b) : i <= j
    BY <1>2, <1>3, <1>5 DEF Ends
  <2>2. p \in Seq(Byte) /\ Len(p) = i
    BY <1>1, <2>1, Cut
  <2> HIDE DEF i, p
  <2>3. \A j \in L..i : SubSeq(p, j - L + 1, j) = SubSeq(b, j - L + 1, j)
    <3> SUFFICES ASSUME NEW j \in L..i
                 PROVE  SubSeq(p, j - L + 1, j) = SubSeq(b, j - L + 1, j)
      OBVIOUS
    <3>1. j - L + 1 \in 1..(i - 1 + 1) /\ j \in 1..(i - 1 + 1) /\ 1 \in 1..Len(b)
      BY <1>1, <2>1
    <3>2. SubSeq(SubSeq(b, 1, i), j - L + 1, j) = SubSeq(b, 1 + (j - L + 1) - 1, 1 + j - 1)
      BY <2>1, <3>1, SubSeqOfSubSeq
    <3>3. 1 + (j - L + 1) - 1 = j - L + 1 /\ 1 + j - 1 = j
      BY <1>1, <3>1
    <3> QED BY <3>2, <3>3 DEF p
  <2>4. Ends(p) = {j \in L..i : SubSeq(b, j - L + 1, j) = Needle}
    BY <2>2, <2>3 DEF Ends
  <2>5. \A j \in L..i : SubSeq(b, j - L + 1, j) = Needle <=> j = i
    <3> SUFFICES ASSUME NEW j \in L..i PROVE SubSeq(b, j - L + 1, j) = Needle <=> j = i
      OBVIOUS
    <3>1. j \in L..Len(b)
      BY <1>1, <2>1
    <3>2. SubSeq(b, j - L + 1, j) = Needle <=> j \in Ends(b)
      BY <3>1 DEF Ends
    <3>3. j \in Ends(b) => i <= j
      BY <2>1
    <3>4. i \in Ends(b)
      BY <1>3, <1>5 DEF i
    <3> QED BY <1>1, <2>1, <3>2, <3>3, <3>4
  <2>6. i \in L..i
    BY <1>1, <2>1
  <2> QED BY <2>4, <2>5, <2>6 DEF p
<1> QED BY <1>1, <1>2, <1>3, <1>4, <1>5

-----------------------------------------------------------------------------
(* What a step is to show: the invariant stands, and every session has     *)
(* made a step of BytePipe or none.                                        *)
Moves(t) == Pipe(t)!Next \/ UNCHANGED <<InPipe(t), out[t]>>
Good == IInv' /\ \A t \in Sessions : Moves(t)

DownType == down \in [Sessions -> Seq({"start", "stop", "bye"})]
BoxType ==
  /\ holder \in Sessions \cup {NoSession} /\ greeting \subseteq Sessions
  /\ sent \in [Sessions -> Seq(Byte)] /\ notes \in [Sessions -> 0..MaxNotes]
QueueType == queue \in [Sessions -> Seq(Event)]
OutType == out \in [Sessions -> Seq(Byte)]
SessType == sess \in [Sessions -> Session]
WriteType ==
  /\ writes \in [Sessions -> Seq(WriteCall)] /\ wire \in [Sessions -> Seq(1..MaxWrites)]
  /\ \A s \in Sessions :
       /\ Len(writes[s]) <= MaxWrites
       /\ \A n \in DOMAIN writes[s] : writes[s][n].after \subseteq 1..(n - 1)
       /\ \A i \in DOMAIN wire[s] : wire[s][i] <= Len(writes[s])
Sounds == \A s \in Sessions : Sound(sess[s])
Orders == \A s \in Sessions : Ordered(s)

LEMMA Parts ==
  IInv <=> /\ DownType /\ BoxType /\ QueueType /\ OutType /\ SessType
           /\ WriteType /\ Sounds /\ Orders
BY DEF IInv, TypeOK, DownType, BoxType, QueueType, OutType, SessType, WriteType,
       Sounds, Orders, Sound

LEMMA NextParts ==
  ASSUME DownType', BoxType', QueueType', OutType', SessType', WriteType', Sounds', Orders'
  PROVE  IInv'
BY DEF IInv, TypeOK, DownType, BoxType, QueueType, OutType, SessType, WriteType,
       Sounds, Orders, Sound

LEMMA BoxStays ==
  ASSUME BoxType, UNCHANGED box
  PROVE  BoxType'
BY DEF BoxType, box

LEMMA WritesStay ==
  ASSUME WriteType, Orders, UNCHANGED <<writes, wire>>
  PROVE  WriteType' /\ Orders'
BY DEF WriteType, Orders, Ordered

LEMMA SessionIs ==
  ASSUME NEW s \in Sessions, NEW c \in Session, SessType, Sounds, Sound(c), Update(s, c)
  PROVE  /\ SessType' /\ Sounds' /\ sess'[s] = c
         /\ \A t \in Sessions : t # s => sess'[t] = sess[t]
<1>1. sess'[s] = c /\ \A t \in Sessions : t # s => sess'[t] = sess[t]
  BY DEF SessType, Update
<1>2. SessType'
  BY DEF SessType, Update
<1>3. Sounds'
  <2> SUFFICES ASSUME NEW t \in Sessions PROVE Sound(sess'[t])
    BY DEF Sounds, Sound, Timely, Found
  <2>1. CASE t = s
    BY <1>1, <2>1, Zenon
  <2>2. CASE t # s
    BY <1>1, <2>2, Zenon DEF Sounds
  <2> QED BY <2>1, <2>2
<1> QED BY <1>1, <1>2, <1>3

(* A session whose buffer, channel and caller see nothing.                 *)
LEMMA StaysPut ==
  ASSUME NEW t, sess'[t].buf = sess[t].buf, queue'[t] = queue[t], out'[t] = out[t]
  PROVE  Moves(t)
BY DEF Moves, InPipe, Bytes

(* Only the session object changes, and not its buffer.                    *)
LEMMA Quiet ==
  ASSUME IInv, NEW s \in Sessions, NEW c \in Session, Sound(c), c.buf = sess[s].buf,
         Update(s, c), DownType', UNCHANGED <<box, queue, out, writes, wire>>
  PROVE  Good
<1>1. SessType' /\ Sounds' /\ BoxType' /\ WriteType' /\ Orders'
  BY Parts, SessionIs, BoxStays, WritesStay
<1>2. QueueType' /\ OutType'
  BY Parts DEF QueueType, OutType
<1>3. \A t \in Sessions : Moves(t)
  <2> SUFFICES ASSUME NEW t \in Sessions PROVE Moves(t)
    OBVIOUS
  <2>1. sess'[t].buf = sess[t].buf
    BY Parts, SessionIs
  <2> QED BY <2>1, StaysPut
<1> QED BY <1>1, <1>2, <1>3, NextParts DEF Good

(* The caller takes an event off the channel, into the buffer.             *)
LEMMA TakesOff ==
  ASSUME IInv, NEW s \in Sessions, NEW c \in Session, Sound(c), queue[s] # <<>>,
         c.buf = Plus(sess[s].buf, Head(queue[s])), Update(s, c),
         queue' = [queue EXCEPT ![s] = Tail(@)], DownType',
         UNCHANGED <<box, out, writes, wire>>
  PROVE  Good
<1>1. SessType' /\ Sounds' /\ BoxType' /\ WriteType' /\ Orders'
  BY Parts, SessionIs, BoxStays, WritesStay
<1> DEFINE q == queue[s]
           e == Head(q)
           r == Tail(q)
           b == sess[s].buf
<1>2. queue \in [Sessions -> Seq(Event)] /\ q \in Seq(Event) /\ r \in Seq(Event) /\ e \in Event
  BY Parts, HeadTailProperties DEF QueueType
<1>3. b \in Seq(Byte) /\ Bytes(r) \in Seq(Byte)
  BY <1>2, Parts, BytesType DEF SessType, Session
<1>4. QueueType' /\ OutType'
  BY <1>2, Parts DEF QueueType, OutType
<1>5. \A t \in Sessions : Moves(t)
  <2> SUFFICES ASSUME NEW t \in Sessions PROVE Moves(t)
    OBVIOUS
  <2>1. CASE t # s
    <3>1. sess'[t] = sess[t] /\ queue'[t] = queue[t]
      BY <1>2, <2>1, Parts, SessionIs
    <3> QED BY <3>1, StaysPut
  <2>2. CASE t = s
    <3>1. sess'[s] = c /\ queue'[s] = r
      BY <1>2, Parts, SessionIs
    <3>2. Whole(Plus(b, e), r) = Whole(b, q)
      BY <1>2, <1>3, Refill
    <3>3. Whole(sess'[s].buf, queue'[s]) = Whole(sess[s].buf, queue[s])
      BY <3>1, <3>2
    <3>4. InPipe(s)' = InPipe(s)
      BY <3>3 DEF InPipe, Whole, Bytes, Plus
    <3>5. UNCHANGED out[s]
      OBVIOUS
    <3> QED BY <2>2, <3>4, <3>5 DEF Moves
  <2> QED BY <2>1, <2>2
<1> QED BY <1>1, <1>4, <1>5, NextParts DEF Good

(* The caller is handed the first n bytes of the buffer.                   *)
LEMMA Hands ==
  ASSUME IInv, NEW s \in Sessions, NEW c \in Session, Sound(c),
         NEW n \in 0..Len(sess[s].buf),
         c.buf = SubSeq(sess[s].buf, n + 1, Len(sess[s].buf)), Update(s, c),
         out' = [out EXCEPT ![s] = @ \o SubSeq(sess[s].buf, 1, n)],
         UNCHANGED <<box, down, queue, writes, wire>>
  PROVE  Good
<1>1. SessType' /\ Sounds' /\ BoxType' /\ WriteType' /\ Orders'
  BY Parts, SessionIs, BoxStays, WritesStay
<1> DEFINE b == sess[s].buf
           q == queue[s]
           o == out[s]
           v == SubSeq(b, 1, n)
           w == SubSeq(b, n + 1, Len(b))
<1>2. b \in Seq(Byte) /\ q \in Seq(Event) /\ o \in Seq(Byte) /\ Bytes(q) \in Seq(Byte)
  BY Parts, BytesType DEF SessType, Session, QueueType, OutType
<1>3. sess'[s] = c /\ queue'[s] = q /\ out'[s] = o \o v
  BY Parts, SessionIs DEF OutType
<1> HIDE DEF b, q, o, v, w
<1>4. v \in Seq(Byte) /\ w \in Seq(Byte) /\ o \o v \in Seq(Byte)
  <2>1. v \in Seq(Byte) /\ w \in Seq(Byte)
    BY <1>2, Cut DEF b, v, w
  <2> QED BY <1>2, <2>1, ConcatProperties
<1>5. DownType' /\ QueueType' /\ OutType'
  BY <1>4, Parts DEF DownType, QueueType, OutType, o, v, b
<1>6. \A t \in Sessions : Moves(t)
  <2> SUFFICES ASSUME NEW t \in Sessions PROVE Moves(t)
    OBVIOUS
  <2>1. CASE t # s
    <3>1. sess'[t] = sess[t] /\ out'[t] = out[t]
      BY <2>1, Parts, SessionIs DEF OutType
    <3> QED BY <3>1, StaysPut
  <2>2. CASE t = s
    <3>1. InPipe(s) = b \o Bytes(q)
      BY DEF InPipe, b, q
    <3>2. InPipe(s)' = w \o Bytes(q)
      <4>1. sess'[s].buf = w
        BY <1>3 DEF w, b
      <4> QED BY <1>3, <4>1 DEF InPipe, Bytes, Plus
    <3> DEFINE p == b \o Bytes(q)
    <3>3. SubSeq(p, 1, n) = v /\ SubSeq(p, n + 1, Len(p)) = w \o Bytes(q)
      BY <1>2, Cut DEF b, v, w
    <3>4. n \in Nat /\ n <= Len(b) /\ Len(b) \in Nat /\ Len(p) = Len(b) + Len(Bytes(q))
          /\ Len(Bytes(q)) \in Nat
      BY <1>2, ConcatProperties, LenProperties DEF b
    <3>5. CASE n # 0
      <4>1. n \in 1..Len(p)
        BY <3>4, <3>5
      <4>2. out[s]' = o \o SubSeq(p, 1, n)
        BY <1>3, <3>3
      <4>3. InPipe(s)' = SubSeq(InPipe(s), n + 1, Len(InPipe(s)))
        BY <3>1, <3>2, <3>3
      <4>4. out[s]' = out[s] \o SubSeq(InPipe(s), 1, n) /\ n \in 1..Len(InPipe(s))
        BY <3>1, <4>1, <4>2 DEF o
      <4> HIDE DEF p
      <4> QED BY <2>2, <4>3, <4>4, Zenon DEF Moves, Pipe!Next, Pipe!Deliver
    <3>6. CASE n = 0
      <4>1. p = w \o Bytes(q)
        <5>1. SubSeq(p, 1, Len(p)) = p
          BY <1>2, ConcatProperties, SubSeqFull
        <5>2. n + 1 = 1
          BY <3>6
        <5> QED BY <3>3, <5>1, <5>2
      <4>2. o \o v = o
        <5>1. v = <<>>
          BY <3>6, SubSeqEmpty DEF v
        <5> QED BY <1>2, <5>1, ConcatEmptySeq
      <4>3. InPipe(s)' = InPipe(s) /\ out[s]' = out[s]
        BY <1>3, <3>1, <3>2, <4>1, <4>2 DEF o
      <4> QED BY <2>2, <4>3 DEF Moves
    <3> QED BY <3>5, <3>6
  <2> QED BY <2>1, <2>2
<1> QED BY <1>1, <1>5, <1>6, NextParts DEF Good

(* An event arrives on the channel; the box may be in another state.       *)
LEMMA Arrived ==
  ASSUME IInv, NEW s \in Sessions, NEW e \in Event, Arrives(s, e), DownType', BoxType',
         UNCHANGED <<sess, out, writes, wire>>
  PROVE  Good
<1>1. SessType' /\ Sounds' /\ OutType' /\ WriteType' /\ Orders'
  BY Parts, WritesStay DEF SessType, Sounds, OutType, Sound, Timely, Found
<1> DEFINE b == sess[s].buf
           q == queue[s]
<1>2. b \in Seq(Byte) /\ q \in Seq(Event) /\ Append(q, e) \in Seq(Event) /\ Bytes(q) \in Seq(Byte)
  BY Parts, BytesType DEF SessType, Session, QueueType
<1>3. queue'[s] = Append(q, e) /\ QueueType'
  BY <1>2, Parts DEF QueueType, Arrives
<1> HIDE DEF b, q
<1>4. \A t \in Sessions : Moves(t)
  <2> SUFFICES ASSUME NEW t \in Sessions PROVE Moves(t)
    OBVIOUS
  <2>1. CASE t # s
    <3>1. queue'[t] = queue[t]
      BY <2>1, Parts DEF QueueType, Arrives
    <3> QED BY <3>1, StaysPut
  <2>2. CASE t = s
    <3>1. InPipe(s) = b \o Bytes(q)
      BY DEF InPipe, b, q
    <3>2. InPipe(s)' = b \o Bytes(Append(q, e))
      <4>1. sess'[s].buf = b
        BY DEF b
      <4> QED BY <1>3, <4>1 DEF InPipe, Bytes, Plus
    <3>3. InPipe(s)' = Plus(InPipe(s), e)
      BY <1>2, <3>1, <3>2, BytesAppend, PlusConcat
    <3>4. UNCHANGED out[s]
      OBVIOUS
    <3>5. CASE e.kind = "data"
      <4>1. InPipe(s)' = Append(InPipe(s), e.byte) /\ e.byte \in Byte
        BY <3>3, <3>5 DEF Plus, Event
      <4> QED BY <2>2, <3>4, <4>1, Zenon DEF Moves, Pipe!Next, Pipe!Send
    <3>6. CASE e.kind # "data"
      <4>1. InPipe(s)' = InPipe(s)
        BY <3>3, <3>6 DEF Plus
      <4> QED BY <2>2, <3>4, <4>1 DEF Moves
    <3> QED BY <3>5, <3>6
  <2> QED BY <2>1, <2>2
<1> QED BY <1>1, <1>3, <1>4, NextParts DEF Good

-----------------------------------------------------------------------------
(* The steps of the session object.                                        *)
LEMMA SessionParts ==
  ASSUME IInv, NEW s \in Sessions
  PROVE  /\ sess[s] \in Session /\ Sound(sess[s]) /\ queue[s] \in Seq(Event)
         /\ sess[s].buf \in Seq(Byte)
         /\ 0 \in Ticks /\ OpenWait \in Ticks /\ OpWait \in Ticks
BY Parts, TimeAssumption DEF SessType, Sounds, QueueType, Session, Ticks

LEMMA NewSession ==
  ASSUME NEW c \in {[New EXCEPT !.pc = "connecting"], [New EXCEPT !.pc = "abandoned"],
                    [New EXCEPT !.pc = "lost"],
                    [New EXCEPT !.pc = "opening", !.timer = OpenWait, !.wait = OpenWait,
                                !.due = OpenWait],
                    [New EXCEPT !.pc = "gone", !.res = "error"]}
  PROVE  c \in Session /\ Sound(c) /\ c.buf = <<>>
<1>1. 0 \in Ticks /\ OpenWait \in Ticks /\ OpenWait \in Nat
  BY TimeAssumption DEF Ticks
<1>2. New \in Session /\ New.buf = <<>> /\ New.res = "none" /\ New.late = FALSE
      /\ New.timer = 0 /\ New.wait = 0
  <2>1. <<>> \in Seq(Byte)
    OBVIOUS
  <2> QED BY <1>1, <2>1 DEF New, Session
<1>3. c \in Session
  <2>1. \A k \in {"connecting", "abandoned", "lost", "opening", "gone"} :
          [New EXCEPT !.pc = k] \in Session
    BY <1>2 DEF Session
  <2>2. CASE \E k \in {"connecting", "abandoned", "lost"} : c = [New EXCEPT !.pc = k]
    BY <2>1, <2>2, Zenon
  <2>3. CASE c = [New EXCEPT !.pc = "opening", !.timer = OpenWait, !.wait = OpenWait,
                             !.due = OpenWait]
    <3>1. [New EXCEPT !.pc = "opening"] \in Session
      BY <2>1
    <3>2. c = [[New EXCEPT !.pc = "opening"] EXCEPT !.timer = OpenWait, !.wait = OpenWait,
                                                    !.due = OpenWait]
      BY <2>3, Zenon
    <3> QED BY <1>1, <3>1, <3>2 DEF Session
  <2>4. CASE c = [New EXCEPT !.pc = "gone", !.res = "error"]
    <3>1. [New EXCEPT !.pc = "gone"] \in Session
      BY <2>1
    <3>2. c = [[New EXCEPT !.pc = "gone"] EXCEPT !.res = "error"]
      BY <2>4, Zenon
    <3> QED BY <3>1, <3>2 DEF Session
  <2> QED BY <2>2, <2>3, <2>4, Zenon
<1>4. /\ c.buf = <<>> /\ c.late = FALSE /\ c.timer = c.wait /\ c.wait \in Nat
      /\ c.pc # "pump" /\ c.res \in {"none", "error"}
      /\ c.res = "error" => c.pc = "gone"
  <2>1. CASE c = [New EXCEPT !.pc = "gone", !.res = "error"]
    BY <1>2, <2>1 DEF Session
  <2>2. CASE c = [New EXCEPT !.pc = "opening", !.timer = OpenWait, !.wait = OpenWait,
                             !.due = OpenWait]
    BY <1>1, <1>2, <2>2 DEF Session
  <2>3. CASE \E k \in {"connecting", "abandoned", "lost"} : c = [New EXCEPT !.pc = k]
    BY <1>2, <2>3 DEF Session
  <2> QED BY <2>1, <2>2, <2>3
<1>5. c.res # "found" /\ c.res # "timeout" /\ c.timer <= c.wait
  BY <1>4
<1> QED BY <1>3, <1>4, <1>5 DEF Sound, Timely, Found

LEMMA EmitType ==
  ASSUME DownType, NEW s \in Sessions, NEW m \in Seq({"start", "stop", "bye"}), Emit(s, m)
  PROVE  DownType'
<1>1. \A t \in Sessions : down[t] \in Seq({"start", "stop", "bye"})
  BY DEF DownType
<1>2. down[s] \o m \in Seq({"start", "stop", "bye"})
  BY <1>1, ConcatProperties
<1> QED BY <1>1, <1>2 DEF DownType, Emit

LEMMA HangUpType ==
  ASSUME DownType, NEW s \in Sessions, HangUp(s)
  PROVE  DownType'
<1>1. <<"stop", "bye">> \in Seq({"start", "stop", "bye"}) /\ <<"bye">> \in Seq({"start", "stop", "bye"})
  OBVIOUS
<1> QED BY <1>1, EmitType DEF HangUp

LEMMA OpenStep ==
  ASSUME IInv, NEW s \in Sessions, Open(s), UNCHANGED <<writes, wire>>
  PROVE  Good
<1> DEFINE c == [New EXCEPT !.pc = "connecting"]
<1>1. c \in Session /\ Sound(c) /\ c.buf = <<>>
  BY NewSession
<1>2. sess[s].buf = <<>>
  BY SessionParts DEF Open, Sound
<1>3. Update(s, c) /\ DownType' /\ UNCHANGED <<box, queue, out, writes, wire>>
  BY Parts DEF Open, DownType
<1> HIDE DEF c
<1> QED BY <1>1, <1>2, <1>3, Quiet

LEMMA AbandonStep ==
  ASSUME IInv, NEW s \in Sessions, Abandon(s), UNCHANGED <<writes, wire>>
  PROVE  Good
<1> DEFINE c == [New EXCEPT !.pc = "abandoned"]
<1>1. c \in Session /\ Sound(c) /\ c.buf = <<>>
  BY NewSession
<1>2. sess[s].buf = <<>>
  BY SessionParts DEF Abandon, Sound
<1>3. Update(s, c) /\ DownType' /\ UNCHANGED <<box, queue, out, writes, wire>>
  BY Parts DEF Abandon, DownType
<1> HIDE DEF c
<1> QED BY <1>1, <1>2, <1>3, Quiet

LEMMA ConnectStep ==
  ASSUME IInv, NEW s \in Sessions, Connect(s) \/ ConnectAnyway(s), UNCHANGED <<writes, wire>>
  PROVE  Good
<1>1. PICK c \in {[New EXCEPT !.pc = "lost"],
                  [New EXCEPT !.pc = "opening", !.timer = OpenWait, !.wait = OpenWait,
                              !.due = OpenWait],
                  [New EXCEPT !.pc = "gone", !.res = "error"]} : Update(s, c)
  BY DEF Connect, ConnectAnyway
<1>2. c \in Session /\ Sound(c) /\ c.buf = <<>>
  BY <1>1, NewSession
<1>3. sess[s].buf = <<>>
  BY SessionParts DEF Connect, ConnectAnyway, Sound
<1>4. DownType'
  <2>1. DownType /\ \A m \in {<<>>, <<"start">>, <<"start", "bye">>} : m \in Seq({"start", "stop", "bye"})
    BY Parts
  <2>2. UNCHANGED down \/ \E m \in {<<>>, <<"start">>, <<"start", "bye">>} : Emit(s, m)
    BY DEF Connect, ConnectAnyway
  <2>3. CASE UNCHANGED down
    BY <2>1, <2>3 DEF DownType
  <2>4. CASE \E m \in {<<>>, <<"start">>, <<"start", "bye">>} : Emit(s, m)
    BY <2>1, <2>4, EmitType
  <2> QED BY <2>2, <2>3, <2>4
<1>5. UNCHANGED <<box, queue, out, writes, wire>>
  BY DEF Connect, ConnectAnyway
<1> QED BY <1>1, <1>2, <1>3, <1>4, <1>5, Quiet

LEMMA OpeningStep ==
  ASSUME IInv, NEW s \in Sessions, Opening(s), UNCHANGED <<writes, wire>>
  PROVE  Good
<1> DEFINE d == sess[s]
           e == Head(queue[s])
           c == CASE e.kind = "connected" -> [d EXCEPT !.pc = "idle"]
                  [] e.kind = "data"      -> [d EXCEPT !.buf = Append(@, e.byte)]
                  [] e.kind = "error"     -> [d EXCEPT !.pc = "gone", !.res = "error"]
                  [] OTHER                -> d
<1>1. d.pc = "opening" /\ queue[s] # <<>> /\ Update(s, c)
  BY Zenon DEF Opening
<1>2. d \in Session /\ Sound(d) /\ d.buf \in Seq(Byte) /\ e \in Event
  BY <1>1, SessionParts, HeadTailProperties
<1>3. c \in Session /\ Sound(c) /\ c.buf = Plus(d.buf, e)
  <2> HIDE DEF d, e
  <2>1. d.res = "none" /\ d.pc # "pump"
    BY <1>1, <1>2 DEF Sound
  <2>2. CASE e.kind = "connected"
    <3>1. c = [d EXCEPT !.pc = "idle"] /\ Plus(d.buf, e) = d.buf
      BY <2>2 DEF Plus
    <3> HIDE DEF c
    <3>2. c \in Session /\ c.res = "none" /\ c.pc = "idle" /\ c.timer = d.timer /\ c.wait = d.wait
          /\ c.late = d.late /\ c.buf = d.buf
      BY <1>2, <2>1, <3>1 DEF Session
    <3> QED BY <1>2, <3>1, <3>2 DEF Sound, Timely, Found
  <2>3. CASE e.kind = "data"
    <3>1. c = [d EXCEPT !.buf = Append(@, e.byte)] /\ Plus(d.buf, e) = Append(d.buf, e.byte)
          /\ Append(d.buf, e.byte) \in Seq(Byte)
      BY <1>2, <2>3, PlusIs
    <3> HIDE DEF c
    <3>2. c \in Session /\ c.res = "none" /\ c.pc = "opening" /\ c.timer = d.timer /\ c.wait = d.wait
          /\ c.late = d.late /\ c.buf = Append(d.buf, e.byte)
      BY <1>1, <1>2, <2>1, <3>1 DEF Session
    <3> QED BY <1>2, <3>1, <3>2 DEF Sound, Timely, Found
  <2>4. CASE e.kind = "error"
    <3>1. c = [d EXCEPT !.pc = "gone", !.res = "error"] /\ Plus(d.buf, e) = d.buf
      BY <2>4 DEF Plus
    <3> HIDE DEF c
    <3>2. c \in Session /\ c.res = "error" /\ c.pc = "gone" /\ c.timer = d.timer /\ c.wait = d.wait
          /\ c.late = d.late /\ c.buf = d.buf
      BY <1>2, <3>1 DEF Session
    <3> QED BY <1>2, <3>1, <3>2 DEF Sound, Timely, Found
  <2>5. CASE e.kind \notin {"connected", "data", "error"}
    <3>1. c = d /\ Plus(d.buf, e) = d.buf
      BY <2>5 DEF Plus
    <3> QED BY <1>2, <3>1
  <2> QED BY <2>2, <2>3, <2>4, <2>5
<1>4. /\ DownType' /\ queue' = [queue EXCEPT ![s] = Tail(@)]
      /\ UNCHANGED <<box, out, writes, wire>>
  <2>1. DownType /\ (HangUp(s) \/ UNCHANGED down)
    BY Parts DEF Opening
  <2>2. DownType'
    BY <2>1, HangUpType DEF DownType
  <2> QED BY <2>2 DEF Opening
<1> HIDE DEF c
<1> QED BY <1>1, <1>3, <1>4, TakesOff

LEMMA OpenTimeoutStep ==
  ASSUME IInv, NEW s \in Sessions, OpenTimeout(s), UNCHANGED <<writes, wire>>
  PROVE  Good
<1> DEFINE d == sess[s]
           c == [d EXCEPT !.pc = "gone", !.res = "timeout"]
<1>1. d \in Session /\ Sound(d)
  BY SessionParts
<1>2. c \in Session /\ Sound(c) /\ c.buf = d.buf
  <2> HIDE DEF d
  <2>1. c \in Session /\ c.res = "timeout" /\ c.pc = "gone" /\ c.timer = d.timer /\ c.wait = d.wait
        /\ c.late = d.late /\ c.buf = d.buf
    BY <1>1 DEF Session
  <2> HIDE DEF c
  <2> QED BY <1>1, <2>1 DEF Sound, Timely, Found
<1>3. Update(s, c) /\ DownType' /\ UNCHANGED <<box, queue, out, writes, wire>>
  BY Parts, HangUpType DEF OpenTimeout
<1> HIDE DEF c
<1> QED BY <1>2, <1>3, Quiet

LEMMA IdleIs ==
  ASSUME NEW c \in Session
  PROVE  LET d == Idle(c) IN
         /\ d \in Session /\ d.pc = "idle" /\ d.timer = 0 /\ d.wait = 0 /\ d.res = c.res
         /\ d.buf = c.buf /\ d.found = c.found /\ d.late = c.late
<1>1. 0 \in Ticks
  BY TimeAssumption DEF Ticks
<1> QED BY <1>1 DEF Idle, Session

(* An operation is over, with what it says.                                *)
Result(r, f, b) ==
  /\ r \in {"none", "ok", "found", "timeout", "error"} /\ f \in Seq(Byte) /\ b \in Seq(Byte)
  /\ r = "found" => Ends(f) = {Len(f)}
  /\ r = "timeout" => Ends(b) = {}
EndOf(c, r, f, b) == [Idle(c) EXCEPT !.res = r, !.found = f, !.buf = b]
Fine(c, b) == c \in Session /\ Sound(c) /\ c.buf = b

LEMMA Ended ==
  ASSUME NEW c \in Session, Sound(c), NEW r, NEW f, NEW b, Result(r, f, b)
  PROVE  Fine(EndOf(c, r, f, b), b)
<1> USE DEF Result
<1> DEFINE i == Idle(c)
           d == EndOf(c, r, f, b)
<1>1. i \in Session /\ i.pc = "idle" /\ i.timer = 0 /\ i.wait = 0 /\ i.late = c.late
  BY IdleIs
<1>2. d = [i EXCEPT !.res = r, !.found = f, !.buf = b]
  BY DEF EndOf
<1> HIDE DEF i, d
<1>3. /\ d \in Session /\ d.pc = "idle" /\ d.timer = 0 /\ d.wait = 0 /\ d.late = c.late
      /\ d.res = r /\ d.found = f /\ d.buf = b
  BY <1>1, <1>2 DEF Session
<1>4. Async => ~d.late
  BY <1>3 DEF Sound, Timely
<1>5. Sound(d)
  BY <1>3, <1>4 DEF Sound, Timely, Found
<1> QED BY <1>3, <1>5 DEF d, Fine

LEMMA BeginStep ==
  ASSUME IInv, NEW s \in Sessions, Begin(s), UNCHANGED <<writes, wire>>
  PROVE  Good
<1> DEFINE d == sess[s]
           c == [d EXCEPT !.res = "none", !.found = <<>>, !.late = FALSE]
<1>1. d \in Session /\ Sound(d) /\ 0 \in Ticks /\ OpWait \in Ticks /\ d.pc = "idle"
  BY SessionParts DEF Begin
<1> HIDE DEF d
<1>2. /\ c \in Session /\ c.res = "none" /\ c.late = FALSE /\ c.buf = d.buf
      /\ c.timer = d.timer /\ c.wait = d.wait
  <2>1. <<>> \in Seq(Byte)
    OBVIOUS
  <2> QED BY <1>1, <2>1 DEF Session
<1> HIDE DEF c
<1>3. PICK e \in {[c EXCEPT !.op = "read", !.pc = "pump", !.timer = OpWait, !.wait = OpWait,
                            !.due = OpWait],
                  [c EXCEPT !.op = "try_read", !.pc = "pump", !.timer = 0, !.wait = 0, !.due = 0],
                  [c EXCEPT !.op = "wait_for", !.pc = "check", !.due = OpWait]} : Update(s, e)
  BY DEF Begin, c, d
<1>4. e \in Session /\ e.res = "none" /\ e.late = FALSE /\ e.buf = d.buf /\ e.timer <= e.wait
      /\ (e.pc = "pump" => e.timer <= e.due) /\ e.pc \in {"check", "pump"}
  <2>1. OpWait <= OpWait /\ 0 <= 0 /\ c.timer <= c.wait
    BY <1>1, <1>2, TimeAssumption DEF Sound
  <2>2. CASE e = [c EXCEPT !.op = "read", !.pc = "pump", !.timer = OpWait, !.wait = OpWait,
                           !.due = OpWait]
    <3>1. e \in Session
      BY <1>1, <1>2, <2>2 DEF Session
    <3>2. /\ e.res = "none" /\ e.late = FALSE /\ e.buf = d.buf /\ e.timer = OpWait
          /\ e.wait = OpWait /\ e.due = OpWait /\ e.pc = "pump"
      BY <1>2, <2>2 DEF Session
    <3> QED BY <2>1, <3>1, <3>2
  <2>3. CASE e = [c EXCEPT !.op = "try_read", !.pc = "pump", !.timer = 0, !.wait = 0, !.due = 0]
    <3>1. e \in Session
      BY <1>1, <1>2, <2>3 DEF Session
    <3>2. /\ e.res = "none" /\ e.late = FALSE /\ e.buf = d.buf /\ e.timer = 0
          /\ e.wait = 0 /\ e.due = 0 /\ e.pc = "pump"
      BY <1>2, <2>3 DEF Session
    <3> QED BY <2>1, <3>1, <3>2
  <2>4. CASE e = [c EXCEPT !.op = "wait_for", !.pc = "check", !.due = OpWait]
    <3>1. e \in Session
      BY <1>1, <1>2, <2>4 DEF Session
    <3>2. /\ e.res = "none" /\ e.late = FALSE /\ e.buf = d.buf /\ e.timer = c.timer
          /\ e.wait = c.wait /\ e.pc = "check"
      BY <1>2, <2>4 DEF Session
    <3> QED BY <2>1, <3>1, <3>2
  <2> QED BY <1>3, <2>2, <2>3, <2>4, Zenon
<1>5. Sound(e)
  BY <1>4 DEF Sound, Timely, Found
<1>6. DownType' /\ UNCHANGED <<box, queue, out, writes, wire>>
  BY Parts DEF Begin, DownType
<1> QED BY <1>3, <1>4, <1>5, <1>6, Quiet DEF d

LEMMA CheckStep ==
  ASSUME IInv, NEW s \in Sessions, Check(s), UNCHANGED <<writes, wire>>
  PROVE  Good
<1> DEFINE c == sess[s]
           b == c.buf
           i == FoundAt(b)
<1>1. /\ c \in Session /\ Sound(c) /\ b \in Seq(Byte) /\ c.pc = "check" /\ c.res = "none"
      /\ c.found \in Seq(Byte) /\ c.due \in Ticks /\ Idle(c) \in Session
  BY SessionParts, IdleIs DEF Check, Sound, Session
<1>2. UNCHANGED <<box, down, queue, writes, wire>> /\ DownType'
  BY Parts DEF Check, DownType
<1>3. CASE i # 0
  <2> DEFINE v == SubSeq(b, 1, i)
             w == SubSeq(b, i + 1, Len(b))
             d == EndOf(c, "found", v, w)
  <2>1. i \in 1..Len(b) /\ Ends(v) = {i}
    BY <1>1, <1>3, FoundIsFirst
  <2>2. i \in 0..Len(b) /\ Len(b) \in Nat
    BY <1>1, <2>1, LenProperties
  <2>3. v \in Seq(Byte) /\ w \in Seq(Byte) /\ Len(v) = i
    BY <1>1, <2>2, Cut
  <2>5. Update(s, d) /\ out' = [out EXCEPT ![s] = @ \o v]
    BY <1>3, Zenon DEF Check, EndOf
  <2> HIDE DEF c, b, i, v, w, d
  <2>4. Result("found", v, w)
    BY <2>1, <2>3 DEF Result
  <2>6. Fine(d, w)
    BY <1>1, <2>4, Ended, Zenon DEF d
  <2> QED BY <1>2, <2>2, <2>5, <2>6, Hands DEF v, w, b, c, Fine
<1>4. CASE i = 0 /\ c.due = 0 /\ Update(s, [Idle(c) EXCEPT !.res = "timeout"]) /\ UNCHANGED out
  <2> DEFINE d == EndOf(c, "timeout", c.found, b)
  <2>1. Ends(b) = {}
    BY <1>1, <1>4, FoundIsFirst
  <2>2. d = [Idle(c) EXCEPT !.res = "timeout"]
    <3>1. Idle(c).found = c.found /\ Idle(c).buf = c.buf
      BY <1>1, IdleIs
    <3> QED BY <1>1, <3>1 DEF Session, EndOf
  <2>3. Result("timeout", c.found, b)
    BY <1>1, <2>1 DEF Result
  <2>4. Update(s, d)
    BY <1>4, <2>2
  <2> HIDE DEF b, c
  <2>5. Fine(d, b)
    BY <1>1, <2>3, Ended, Zenon
  <2> HIDE DEF d
  <2> USE DEF b, c, Fine
  <2> QED BY <1>2, <1>4, <2>4, <2>5, Quiet
<1>5. CASE i = 0 /\ c.due # 0 /\ Update(s, [c EXCEPT !.pc = "pump", !.timer = c.due, !.wait = c.due])
           /\ UNCHANGED out
  <2> DEFINE d == [c EXCEPT !.pc = "pump", !.timer = c.due, !.wait = c.due]
  <2> HIDE DEF c
  <2>1. d \in Session /\ d.pc = "pump" /\ d.timer = c.due /\ d.wait = c.due /\ d.due = c.due
        /\ d.res = "none" /\ d.late = c.late /\ d.buf = b
    BY <1>1 DEF Session
  <2>2. c.due <= c.due
    BY <1>1, TimeAssumption DEF Ticks
  <2> HIDE DEF d
  <2>3. Sound(d)
    BY <1>1, <2>1, <2>2 DEF Sound, Timely, Found
  <2>4. Update(s, d)
    BY <1>5 DEF d
  <2> QED BY <1>2, <1>5, <2>1, <2>3, <2>4, Quiet DEF c
<1> QED BY <1>3, <1>4, <1>5 DEF Check

LEMMA TakeStep ==
  ASSUME IInv, NEW s \in Sessions, Take(s), UNCHANGED <<writes, wire>>
  PROVE  Good
<1> DEFINE d == sess[s]
           e == Head(queue[s])
           c == Absorb(d, e)
<1>1. d.pc = "pump" /\ queue[s] # <<>> /\ Update(s, c)
  BY Zenon DEF Take
<1>2. d \in Session /\ Sound(d) /\ d.buf \in Seq(Byte) /\ e \in Event /\ 0 \in Ticks
      /\ d.found \in Seq(Byte) /\ d.res = "none" /\ d.wait \in Ticks /\ d.due \in Ticks
  BY <1>1, SessionParts, HeadTailProperties DEF Session, Sound
<1>3. c \in Session /\ Sound(c) /\ c.buf = Plus(d.buf, e)
  <2> HIDE DEF d, e
  <2>1. CASE e.kind = "data"
    <3>1. c = [d EXCEPT !.buf = Append(@, e.byte), !.timer = 0, !.wait = 0]
      BY <2>1 DEF Absorb
    <3>2. Plus(d.buf, e) = Append(d.buf, e.byte) /\ Append(d.buf, e.byte) \in Seq(Byte)
      BY <1>2, <2>1, PlusIs
    <3> HIDE DEF c
    <3>3. c \in Session /\ c.res = "none" /\ c.pc = "pump" /\ c.timer = 0 /\ c.wait = 0
          /\ c.late = d.late /\ c.due = d.due /\ c.buf = Append(d.buf, e.byte)
      BY <1>1, <1>2, <3>1, <3>2 DEF Session
    <3>4. 0 <= d.due /\ 0 <= 0
      BY <1>2, TimeAssumption DEF Ticks
    <3> QED BY <1>2, <3>2, <3>3, <3>4 DEF Sound, Timely, Found
  <2>2. CASE e.kind = "error"
    <3> DEFINE r == EndOf(d, "error", d.found, d.buf)
    <3>1. c = [Idle(d) EXCEPT !.res = "error"] /\ Plus(d.buf, e) = d.buf
      BY <2>2 DEF Absorb, Plus
    <3>2. r = [Idle(d) EXCEPT !.res = "error"]
      <4>1. Idle(d) \in Session /\ Idle(d).found = d.found /\ Idle(d).buf = d.buf
        BY <1>2, IdleIs
      <4> QED BY <4>1 DEF Session, EndOf
    <3>3. Result("error", d.found, d.buf)
      BY <1>2 DEF Result
    <3> HIDE DEF c
    <3>4. Fine(r, d.buf)
      BY <1>2, <3>3, Ended, Zenon
    <3> HIDE DEF r
    <3> QED BY <3>1, <3>2, <3>4 DEF Fine
  <2>3. CASE e.kind \notin {"data", "error"}
    <3>1. Plus(d.buf, e) = d.buf
      BY <2>3 DEF Plus
    <3>2. CASE Async
      <4>1. c = d
        BY <2>3, <3>2 DEF Absorb
      <4> QED BY <1>2, <3>1, <4>1
    <3>3. CASE ~Async
      <4>1. c = [d EXCEPT !.timer = d.wait]
        BY <2>3, <3>3 DEF Absorb
      <4> HIDE DEF c
      <4>2. c \in Session /\ c.res = "none" /\ c.pc = "pump" /\ c.timer = d.wait /\ c.wait = d.wait
            /\ c.buf = d.buf
        BY <1>1, <1>2, <4>1 DEF Session
      <4>3. d.wait <= d.wait
        BY <1>2, TimeAssumption DEF Ticks
      <4> QED BY <3>1, <3>3, <4>2, <4>3 DEF Sound, Found
    <3> QED BY <3>2, <3>3
  <2> QED BY <2>1, <2>2, <2>3
<1>4. DownType' /\ queue' = [queue EXCEPT ![s] = Tail(@)] /\ UNCHANGED <<box, out, writes, wire>>
  BY Parts DEF Take, DownType
<1> HIDE DEF c
<1> QED BY <1>1, <1>3, <1>4, TakesOff

LEMMA PumpEndStep ==
  ASSUME IInv, NEW s \in Sessions, PumpEnd(s), UNCHANGED <<writes, wire>>
  PROVE  Good
<1> DEFINE c == sess[s]
           b == c.buf
<1>1. /\ c \in Session /\ Sound(c) /\ b \in Seq(Byte) /\ c.pc = "pump" /\ c.timer = 0
      /\ c.found \in Seq(Byte) /\ c.res = "none" /\ Idle(c) \in Session
  BY SessionParts, IdleIs DEF PumpEnd, Sound, Session
<1>2. UNCHANGED <<box, down, queue, writes, wire>> /\ DownType'
  BY Parts DEF PumpEnd, DownType
<1>3. CASE c.op = "wait_for"
  <2> DEFINE d == [c EXCEPT !.pc = "check"]
  <2>1. Update(s, d) /\ UNCHANGED out
    BY <1>3 DEF PumpEnd
  <2>2. d \in Session /\ Sound(d) /\ d.buf = b
    <3> HIDE DEF c
    <3>1. d \in Session /\ d.pc = "check" /\ d.timer = c.timer /\ d.wait = c.wait
          /\ d.res = "none" /\ d.late = c.late /\ d.buf = b
      BY <1>1 DEF Session
    <3> HIDE DEF d
    <3> QED BY <1>1, <3>1 DEF Sound, Timely, Found
  <2> HIDE DEF d
  <2> QED BY <1>2, <2>1, <2>2, Quiet
<1>4. CASE c.op # "wait_for"
  <2> DEFINE d == EndOf(c, "ok", c.found, <<>>)
             n == Len(b)
             v == SubSeq(b, 1, n)
             w == SubSeq(b, n + 1, n)
  <2>1. n \in 0..Len(b) /\ n < n + 1 /\ n \in Nat
    BY <1>1, LenProperties
  <2>2. v = b /\ w = <<>>
    BY <1>1, <2>1, SubSeqFull, SubSeqEmpty
  <2>3. d = [Idle(c) EXCEPT !.res = "ok", !.buf = <<>>]
    <3>1. Idle(c).found = c.found
      BY <1>1, IdleIs
    <3> QED BY <1>1, <3>1 DEF Session, EndOf
  <2>4. Update(s, d) /\ out' = [out EXCEPT ![s] = @ \o b]
    BY <1>4, <2>3 DEF PumpEnd
  <2>5. Result("ok", c.found, <<>>)
    BY <1>1 DEF Result
  <2> HIDE DEF b, c
  <2>6. Fine(d, <<>>)
    BY <1>1, <2>5, Ended, Zenon
  <2>7. out' = [out EXCEPT ![s] = @ \o SubSeq(b, 1, n)] /\ d.buf = SubSeq(b, n + 1, Len(b))
    BY <2>2, <2>4, <2>6 DEF Fine
  <2> HIDE DEF d, n, v, w
  <2> QED BY <1>2, <2>1, <2>4, <2>6, <2>7, Hands DEF b, c, Fine
<1> QED BY <1>3, <1>4

LEMMA LeaveStep ==
  ASSUME IInv, NEW s \in Sessions, Cancel(s) \/ Stop(s), UNCHANGED <<writes, wire>>
  PROVE  Good
<1> DEFINE c == sess[s]
           g == [c EXCEPT !.pc = "gone"]
<1>1. c \in Session /\ Sound(c) /\ DownType
  BY SessionParts, Parts
<1>2. UNCHANGED <<box, queue, out, writes, wire>>
  BY DEF Cancel, Stop
<1>3. CASE c.pc = "pump" /\ Update(s, Idle(c)) /\ UNCHANGED down
  <2> DEFINE d == Idle(c)
  <2>1. d \in Session /\ d.pc = "idle" /\ d.timer = 0 /\ d.wait = 0 /\ d.res = c.res
        /\ d.buf = c.buf /\ d.found = c.found /\ d.late = c.late
    BY <1>1, IdleIs
  <2> HIDE DEF d
  <2>2. c.res = "none" /\ (Async => ~c.late) /\ 0 <= 0
    BY <1>1, <1>3 DEF Sound, Timely
  <2>3. Sound(d)
    BY <2>1, <2>2 DEF Sound, Timely, Found
  <2>4. DownType' /\ Update(s, d)
    BY <1>1, <1>3 DEF DownType, d
  <2> QED BY <1>2, <2>1, <2>3, <2>4, Quiet
<1>4. CASE c.pc \in {"opening", "idle"} /\ Update(s, g) /\ HangUp(s)
  <2>1. g \in Session /\ g.pc = "gone" /\ g.timer = c.timer /\ g.wait = c.wait /\ g.res = c.res
        /\ g.buf = c.buf /\ g.found = c.found /\ g.late = c.late
    BY <1>1 DEF Session
  <2>2. Update(s, g)
    BY <1>4
  <2> HIDE DEF g
  <2>3. Sound(g)
    BY <1>1, <2>1 DEF Sound, Timely, Found
  <2>4. DownType'
    BY <1>1, <1>4, HangUpType
  <2> QED BY <1>2, <2>1, <2>2, <2>3, <2>4, Quiet
<1> QED BY <1>3, <1>4 DEF Cancel, Stop

-----------------------------------------------------------------------------
(* The steps of the box.                                                   *)
LEMMA NothingArrives ==
  ASSUME IInv, DownType', BoxType', UNCHANGED <<sess, queue, out, writes, wire>>
  PROVE  Good
<1>1. SessType' /\ Sounds' /\ QueueType' /\ OutType' /\ WriteType' /\ Orders'
  BY Parts, WritesStay DEF SessType, Sounds, QueueType, OutType, Sound, Timely, Found
<1>2. \A t \in Sessions : Moves(t)
  BY StaysPut
<1> QED BY <1>1, <1>2, NextParts DEF Good

LEMMA TailType ==
  ASSUME DownType, NEW s \in Sessions, down[s] # <<>>, down' = [down EXCEPT ![s] = Tail(@)]
  PROVE  DownType'
<1>1. \A t \in Sessions : down[t] \in Seq({"start", "stop", "bye"})
  BY DEF DownType
<1>2. Tail(down[s]) \in Seq({"start", "stop", "bye"})
  BY <1>1, HeadTailProperties
<1> QED BY <1>1, <1>2 DEF DownType

LEMMA FreeType ==
  ASSUME BoxType, NEW s \in Sessions, Free(s), UNCHANGED <<sent, notes>>
  PROVE  BoxType'
BY DEF BoxType, Free

LEMMA NotesAreEvents ==
  /\ \A k \in {"connected", "error", "stopped", "status"} : Note(k) \in Event
  /\ \A b \in Byte : Data(b) \in Event
BY DEF Note, Data, Event

LEMMA BoxRunsStep ==
  ASSUME IInv, NEW s \in Sessions, BoxRuns(s)
  PROVE  Good
<1>1. /\ down[s] # <<>> /\ down' = [down EXCEPT ![s] = Tail(@)]
      /\ UNCHANGED <<sess, sent, out, notes, writes, wire>>
  BY DEF BoxRuns, BoxStarts, BoxStops, BoxDisconnects
<1>2. DownType'
  BY <1>1, Parts, TailType
<1>3. CASE BoxStarts(s) /\ holder' = s /\ greeting' = greeting \cup {s} /\ UNCHANGED queue
  <2>1. BoxType'
    BY <1>1, <1>3, Parts DEF BoxType
  <2> QED BY <1>1, <1>2, <1>3, <2>1, NothingArrives
<1>4. CASE BoxStarts(s) /\ Arrives(s, Note("error")) /\ UNCHANGED <<holder, greeting>>
  <2>1. BoxType'
    BY <1>1, <1>4, Parts DEF BoxType
  <2> QED BY <1>1, <1>2, <1>4, <2>1, NotesAreEvents, Arrived
<1>5. CASE BoxStops(s)
  <2>1. BoxType' /\ Arrives(s, Note("stopped"))
    BY <1>1, <1>5, Parts, FreeType DEF BoxStops
  <2> QED BY <1>1, <1>2, <2>1, NotesAreEvents, Arrived
<1>6. CASE BoxDisconnects(s)
  <2>1. BoxType' /\ UNCHANGED queue
    BY <1>1, <1>6, Parts, FreeType DEF BoxDisconnects
  <2> QED BY <1>1, <1>2, <2>1, NothingArrives
<1> QED BY <1>3, <1>4, <1>5, <1>6 DEF BoxRuns, BoxStarts

LEMMA BoxSaysStep ==
  ASSUME IInv, NEW s \in Sessions, UNCHANGED <<writes, wire>>,
         BoxGreets(s) \/ BoxSends(s) \/ BoxNotes(s) \/ BoxFails(s)
  PROVE  Good
<1>1. UNCHANGED <<down, sess, out, writes, wire>>
  BY DEF BoxGreets, BoxSends, BoxNotes, BoxFails
<1>2. DownType'
  BY <1>1, Parts DEF DownType
<1>3. CASE BoxGreets(s)
  <2>1. BoxType' /\ Arrives(s, Note("connected"))
    BY <1>3, Parts DEF BoxType, BoxGreets
  <2> QED BY <1>1, <1>2, <2>1, NotesAreEvents, Arrived
<1>4. CASE BoxSends(s)
  <2>1. PICK b \in Byte : sent' = [sent EXCEPT ![s] = Append(@, b)] /\ Arrives(s, Data(b))
    BY <1>4 DEF BoxSends
  <2>2. BoxType'
    <3>1. BoxType /\ \A t \in Sessions : sent[t] \in Seq(Byte)
      BY Parts DEF BoxType
    <3>2. Append(sent[s], b) \in Seq(Byte)
      BY <3>1, AppendProperties
    <3>3. UNCHANGED <<holder, greeting, notes>>
      BY <1>4 DEF BoxSends
    <3> QED BY <2>1, <3>1, <3>2, <3>3 DEF BoxType
  <2> QED BY <1>1, <1>2, <2>1, <2>2, NotesAreEvents, Arrived
<1>5. CASE BoxNotes(s)
  <2>1. BoxType' /\ Arrives(s, Note("status"))
    <3>1. BoxType /\ \A t \in Sessions : notes[t] \in 0..MaxNotes
      BY Parts DEF BoxType
    <3>2. notes[s] + 1 \in 0..MaxNotes
      BY <1>5, <3>1, SessionAssumption DEF BoxNotes
    <3> QED BY <1>5, <3>1, <3>2 DEF BoxType, BoxNotes
  <2> QED BY <1>1, <1>2, <2>1, NotesAreEvents, Arrived
<1>6. CASE BoxFails(s)
  <2>1. BoxType' /\ Arrives(s, Note("error"))
    BY <1>6, Parts, FreeType DEF BoxFails
  <2> QED BY <1>1, <1>2, <2>1, NotesAreEvents, Arrived
<1> QED BY <1>3, <1>4, <1>5, <1>6

-----------------------------------------------------------------------------
(* The writes of one session: the calls w and what is on the wire, x.      *)
Calls(w, x) ==
  /\ w \in Seq(WriteCall) /\ x \in Seq(1..MaxWrites)
  /\ Len(w) <= MaxWrites
  /\ \A n \in DOMAIN w : w[n].after \subseteq 1..(n - 1)
  /\ \A i \in DOMAIN x : x[i] <= Len(w)
  /\ \A i \in DOMAIN x : w[x[i]].st \in {"ok", "over"}
  /\ \A n \in DOMAIN w : \A m \in w[n].after : w[m].st = "ok"
  /\ \A i, j \in DOMAIN x : i < j => x[i] # x[j] /\ x[j] \notin w[x[i]].after

LEMMA CallsAre ==
  WriteType /\ Orders <=> /\ writes \in [Sessions -> Seq(WriteCall)]
                          /\ wire \in [Sessions -> Seq(1..MaxWrites)]
                          /\ \A s \in Sessions : Calls(writes[s], wire[s])
<1>1. ASSUME WriteType, Orders, NEW s \in Sessions PROVE Calls(writes[s], wire[s])
  <2>1. writes[s] \in Seq(WriteCall) /\ wire[s] \in Seq(1..MaxWrites)
    BY <1>1 DEF WriteType
  <2> QED BY <1>1, <2>1 DEF WriteType, Orders, Ordered, Calls
<1>2. WriteType => writes \in [Sessions -> Seq(WriteCall)] /\ wire \in [Sessions -> Seq(1..MaxWrites)]
  BY DEF WriteType
<1>3. ASSUME writes \in [Sessions -> Seq(WriteCall)], wire \in [Sessions -> Seq(1..MaxWrites)],
             \A s \in Sessions : Calls(writes[s], wire[s])
      PROVE  WriteType /\ Orders
  BY <1>3 DEF WriteType, Orders, Ordered, Calls
<1> QED BY <1>1, <1>2, <1>3

LEMMA CallsNext ==
  ASSUME writes' \in [Sessions -> Seq(WriteCall)], wire' \in [Sessions -> Seq(1..MaxWrites)],
         \A s \in Sessions : Calls(writes'[s], wire'[s])
  PROVE  WriteType' /\ Orders'
BY DEF WriteType, Orders, Ordered, Calls

(* Only the writes of one session change.                                  *)
LEMMA WriteOnly ==
  ASSUME IInv, NEW s \in Sessions, NEW w, NEW x, Calls(w, x),
         writes' = [writes EXCEPT ![s] = w], wire' = [wire EXCEPT ![s] = x],
         UNCHANGED <<box, down, queue, sess, out>>
  PROVE  Good
<1>1. SessType' /\ Sounds' /\ QueueType' /\ OutType' /\ DownType' /\ BoxType'
  BY Parts, BoxStays DEF SessType, Sounds, QueueType, OutType, DownType, Sound, Timely, Found
<1>2. /\ writes \in [Sessions -> Seq(WriteCall)] /\ wire \in [Sessions -> Seq(1..MaxWrites)]
      /\ \A t \in Sessions : Calls(writes[t], wire[t])
  BY Parts, CallsAre
<1>3. w \in Seq(WriteCall) /\ x \in Seq(1..MaxWrites)
  BY DEF Calls
<1>4. writes' \in [Sessions -> Seq(WriteCall)] /\ wire' \in [Sessions -> Seq(1..MaxWrites)]
  BY <1>2, <1>3
<1>5. \A t \in Sessions : Calls(writes'[t], wire'[t])
  <2> SUFFICES ASSUME NEW t \in Sessions PROVE Calls(writes'[t], wire'[t])
    OBVIOUS
  <2>1. CASE t = s
    <3>1. writes'[t] = w /\ wire'[t] = x
      BY <1>2, <2>1
    <3> QED BY <3>1, Zenon
  <2>2. CASE t # s
    <3>1. writes'[t] = writes[t] /\ wire'[t] = wire[t]
      BY <1>2, <2>2
    <3> QED BY <1>2, <3>1, Zenon
  <2> QED BY <2>1, <2>2
<1>6. WriteType' /\ Orders'
  BY <1>4, <1>5, CallsNext
<1>7. \A t \in Sessions : Moves(t)
  BY StaysPut
<1> QED BY <1>1, <1>6, <1>7, NextParts DEF Good

LEMMA WriteStep ==
  ASSUME IInv, NEW s \in Sessions, Write(s)
  PROVE  Good
<1> DEFINE w == writes[s]
           x == wire[s]
           k == Len(w)
           c == [st |-> "running", after |-> {n \in DOMAIN w : w[n].st = "ok"}]
           v == Append(w, c)
<1>1. /\ Calls(w, x) /\ wire \in [Sessions -> Seq(1..MaxWrites)]
      /\ w \in Seq(WriteCall) /\ x \in Seq(1..MaxWrites) /\ k \in Nat /\ k < MaxWrites
      /\ DOMAIN w = 1..k
  BY Parts, CallsAre, LenProperties DEF Calls, Write
<1>2. c \in WriteCall /\ c.after \subseteq 1..k /\ \A m \in c.after : w[m].st = "ok"
  <2>1. 1..k \subseteq 1..MaxWrites
    BY <1>1, SessionAssumption
  <2> QED BY <1>1, <2>1 DEF WriteCall
<1>3. /\ v \in Seq(WriteCall) /\ Len(v) = k + 1 /\ DOMAIN v = 1..(k + 1)
      /\ v[k + 1] = c /\ \A n \in 1..k : v[n] = w[n]
  BY <1>1, <1>2, AppendProperties, LenProperties
<1>4. /\ writes' = [writes EXCEPT ![s] = v] /\ wire' = [wire EXCEPT ![s] = x]
      /\ UNCHANGED <<box, down, queue, sess, out>>
  BY <1>1 DEF Write
<1>5. Calls(v, x)
  <2> HIDE DEF w, x, k, c, v
  <2> DEFINE D == DOMAIN x
  <2>1. D = 1..Len(x) /\ \A i \in D : x[i] \in 1..k
    <3>1. D = 1..Len(x)
      BY <1>1, LenProperties
    <3>2. \A i \in D : x[i] \in 1..MaxWrites /\ x[i] <= k
      BY <1>1, <3>1, ElementOfSeq DEF Calls, k
    <3> QED BY <1>1, <3>1, <3>2
  <2> HIDE DEF D
  <2>2. \A i \in D : v[x[i]] = w[x[i]] /\ x[i] <= k + 1 /\ w[x[i]].st \in {"ok", "over"}
    BY <1>1, <1>3, <2>1 DEF Calls, D
  <2>3. \A i, j \in D : i < j => x[i] # x[j] /\ x[j] \notin v[x[i]].after
    BY <1>1, <2>2 DEF Calls, D
  <2>4. \A n \in 1..(k + 1) : v[n].after \subseteq 1..(n - 1) /\ \A m \in v[n].after : v[m].st = "ok"
    <3> SUFFICES ASSUME NEW n \in 1..(k + 1)
                 PROVE  v[n].after \subseteq 1..(n - 1) /\ \A m \in v[n].after : v[m].st = "ok"
      OBVIOUS
    <3>1. CASE n = k + 1
      <4>1. n - 1 = k
        BY <1>1, <3>1
      <4> QED BY <1>2, <1>3, <3>1, <4>1
    <3>2. CASE n # k + 1
      <4>1. n \in 1..k /\ 1..(n - 1) \subseteq 1..k
        BY <1>1, <3>2
      <4>2. v[n] = w[n] /\ w[n].after \subseteq 1..(n - 1) /\ \A m \in w[n].after : w[m].st = "ok"
        BY <1>1, <1>3, <4>1 DEF Calls
      <4> QED BY <1>3, <4>1, <4>2
    <3> QED BY <3>1, <3>2
  <2>5. k + 1 <= MaxWrites
    BY <1>1, SessionAssumption
  <2>6. v \in Seq(WriteCall) /\ x \in Seq(1..MaxWrites) /\ Len(v) <= MaxWrites
    BY <1>1, <1>3, <2>5
  <2>7. \A n \in DOMAIN v : v[n].after \subseteq 1..(n - 1) /\ \A m \in v[n].after : v[m].st = "ok"
    BY <1>3, <2>4
  <2>8. \A i \in DOMAIN x : x[i] <= Len(v) /\ v[x[i]].st \in {"ok", "over"}
    BY <1>3, <2>2 DEF D
  <2>9. \A i, j \in DOMAIN x : i < j => x[i] # x[j] /\ x[j] \notin v[x[i]].after
    BY <2>3 DEF D
  <2> QED BY <2>6, <2>7, <2>8, <2>9, Zenon DEF Calls
<1> HIDE DEF v, x
<1> QED BY <1>4, <1>5, WriteOnly

(* A call that runs or was dropped comes to another state; its number may  *)
(* go on the wire with that.                                               *)
LEMMA CallChanges ==
  ASSUME NEW w, NEW x, Calls(w, x), NEW n \in DOMAIN w, w[n].st \in {"running", "dropped"},
         NEW r \in {"dropped", "ok", "over"}, NEW v, v = [w EXCEPT ![n].st = r],
         NEW y, y = x \/ (y = Append(x, n) /\ r # "dropped")
  PROVE  Calls(v, y)
<1> DEFINE k == Len(w)
           D == DOMAIN x
<1>1. w \in Seq(WriteCall) /\ k \in Nat /\ k <= MaxWrites /\ DOMAIN w = 1..k /\ n \in 1..k
      /\ x \in Seq(1..MaxWrites) /\ Len(x) \in Nat /\ D = 1..Len(x)
  BY LenProperties DEF Calls
<1>2. \A i \in D : x[i] \in 1..k /\ x[i] # n
  <2> SUFFICES ASSUME NEW i \in D PROVE x[i] \in 1..k /\ x[i] # n
    OBVIOUS
  <2>1. x[i] \in 1..MaxWrites
    BY <1>1, ElementOfSeq
  <2>2. x[i] <= k /\ w[x[i]].st \in {"ok", "over"}
    BY DEF Calls
  <2> QED BY <1>1, <2>1, <2>2
<1>3. /\ v \in Seq(WriteCall) /\ DOMAIN v = 1..k /\ Len(v) = k /\ v[n].st = r
      /\ \A m \in 1..k : v[m].after = w[m].after /\ (m # n => v[m].st = w[m].st)
  <2>1. \A m \in 1..k : w[m] \in WriteCall
    BY <1>1, ElementOfSeq
  <2>2. DOMAIN v = 1..k /\ v[n] = [w[n] EXCEPT !.st = r] /\ \A m \in 1..k : m # n => v[m] = w[m]
    BY <1>1
  <2>3. v[n] \in WriteCall /\ v[n].st = r /\ v[n].after = w[n].after
    BY <1>1, <2>1, <2>2 DEF WriteCall
  <2>4. \A m \in 1..k : v[m] \in WriteCall
    BY <2>1, <2>2, <2>3
  <2>5. v \in [1..k -> WriteCall]
    <3>1. v = [m \in 1..k |-> v[m]]
      BY <1>1
    <3> QED BY <2>4, <3>1
  <2>6. v \in Seq(WriteCall) /\ Len(v) = k
    BY <1>1, <2>2, <2>5
  <2> QED BY <2>2, <2>3, <2>6
<1>4. \A m \in 1..k : v[m].after \subseteq 1..(m - 1) /\ \A l \in v[m].after : v[l].st = "ok" /\ l # n
  <2> SUFFICES ASSUME NEW m \in 1..k, NEW l \in w[m].after
               PROVE  l \in 1..(m - 1) /\ v[l].st = "ok" /\ l # n
    BY <1>3
  <2>1. l \in 1..(m - 1) /\ w[l].st = "ok"
    BY <1>1 DEF Calls
  <2>2. l \in 1..k /\ l # n
    BY <1>1, <2>1
  <2> QED BY <1>3, <2>1, <2>2
<1>5. \A i \in D : v[x[i]].st \in {"ok", "over"} /\ v[x[i]].after = w[x[i]].after /\ x[i] <= k
  BY <1>1, <1>2, <1>3 DEF Calls
<1>6. \A i, j \in D : i < j => x[i] # x[j] /\ x[j] \notin v[x[i]].after
  BY <1>5 DEF Calls
<1>7. CASE y = x
  BY <1>1, <1>3, <1>4, <1>5, <1>6, <1>7 DEF Calls
<1>8. CASE y = Append(x, n) /\ r # "dropped"
  <2> DEFINE l == Len(x)
  <2>1. n \in 1..MaxWrites
    BY <1>1, SessionAssumption
  <2>2. /\ y \in Seq(1..MaxWrites) /\ DOMAIN y = 1..(l + 1) /\ y[l + 1] = n
        /\ \A i \in 1..l : y[i] = x[i]
    <3>1. /\ Append(x, n) \in Seq(1..MaxWrites) /\ Len(Append(x, n)) = Len(x) + 1
          /\ \A i \in 1..Len(x) : Append(x, n)[i] = x[i]
          /\ Append(x, n)[Len(x) + 1] = n
      BY <1>1, <2>1, AppendProperties
    <3>2. DOMAIN Append(x, n) = 1..Len(Append(x, n))
      BY <3>1, LenProperties
    <3> QED BY <1>8, <3>1, <3>2
  <2> HIDE DEF l, D, k
  <2>3. D = 1..l /\ l \in Nat
    BY <1>1 DEF l
  <2>4. \A i \in 1..(l + 1) : i \in D \/ i = l + 1
    BY <2>3
  <2>5. \A i \in D : i \in 1..l /\ y[i] = x[i]
    BY <2>2, <2>3
  <2>6. \A i \in 1..(l + 1) : y[i] <= k /\ v[y[i]].st \in {"ok", "over"}
    <3>1. n <= k /\ v[n].st \in {"ok", "over"}
      BY <1>1, <1>3, <1>8
    <3> QED BY <1>5, <2>2, <2>4, <2>5, <3>1
  <2>7. \A i, j \in 1..(l + 1) : i < j => y[i] # y[j] /\ y[j] \notin v[y[i]].after
    <3> SUFFICES ASSUME NEW i \in 1..(l + 1), NEW j \in 1..(l + 1), i < j
                 PROVE  y[i] # y[j] /\ y[j] \notin v[y[i]].after
      OBVIOUS
    <3>1. i \in D /\ y[i] = x[i] /\ x[i] \in 1..k
      BY <1>2, <2>3, <2>5
    <3>2. CASE j = l + 1
      <4>1. y[j] = n /\ x[i] # n
        BY <1>2, <2>2, <3>1, <3>2
      <4>2. n \notin v[x[i]].after
        BY <1>4, <3>1
      <4> QED BY <3>1, <4>1, <4>2
    <3>3. CASE j # l + 1
      <4>1. j \in D /\ y[j] = x[j]
        BY <2>4, <2>5, <3>3
      <4> QED BY <1>6, <3>1, <4>1
    <3> QED BY <3>2, <3>3
  <2>8. Len(v) <= MaxWrites /\ Len(v) = k
    BY <1>1, <1>3
  <2>9. \A m \in DOMAIN v : v[m].after \subseteq 1..(m - 1) /\ \A a \in v[m].after : v[a].st = "ok"
    BY <1>3, <1>4
  <2> QED BY <1>3, <2>2, <2>6, <2>7, <2>8, <2>9 DEF Calls
<1> QED BY <1>7, <1>8

LEMMA CallStep ==
  ASSUME IInv, NEW s \in Sessions, NEW n \in 1..MaxWrites, WriteRuns(s, n) \/ DropWrite(s, n)
  PROVE  Good
<1> DEFINE w == writes[s]
           x == wire[s]
<1>1. /\ Calls(w, x) /\ writes \in [Sessions -> Seq(WriteCall)]
      /\ wire \in [Sessions -> Seq(1..MaxWrites)]
  BY Parts, CallsAre
<1>2. n \in DOMAIN w /\ w[n].st \in {"running", "dropped"}
      /\ UNCHANGED <<box, down, queue, sess, out>>
  BY DEF WriteRuns, DropWrite
<1>3. PICK r \in {"dropped", "ok", "over"} :
        /\ Set(s, n, r)
        /\ \/ UNCHANGED wire
           \/ wire' = [wire EXCEPT ![s] = Append(@, n)] /\ r # "dropped"
  BY DEF WriteRuns, DropWrite
<1> DEFINE v == [w EXCEPT ![n].st = r]
           y == wire'[s]
<1>4. writes' = [writes EXCEPT ![s] = v]
  BY <1>3 DEF Set
<1>5. wire' = [wire EXCEPT ![s] = y] /\ (y = x \/ (y = Append(x, n) /\ r # "dropped"))
  BY <1>1, <1>3
<1>6. v = [w EXCEPT ![n].st = r]
  OBVIOUS
<1> HIDE DEF v, y, w, x
<1>7. Calls(v, y)
  BY <1>1, <1>2, <1>5, <1>6, CallChanges
<1> QED BY <1>2, <1>4, <1>5, <1>7, WriteOnly

-----------------------------------------------------------------------------
LEMMA TickStep ==
  ASSUME IInv, Tick
  PROVE  Good
<1> DEFINE Older(c) == [c EXCEPT !.timer = Max0(@), !.due = Max0(@), !.late = (c.due = 0)]
           Turn(s) == IF sess[s].pc \in {"opening", "pump"} THEN Older(sess[s]) ELSE sess[s]
<1>1. sess' = [s \in Sessions |-> Turn(s)]
  BY DEF Tick
<1>2. UNCHANGED <<box, down, queue, out, writes, wire>>
  BY DEF Tick
<1>3. ASSUME NEW s \in Sessions
      PROVE  Turn(s) \in Session /\ Sound(Turn(s)) /\ Turn(s).buf = sess[s].buf
  <2> DEFINE c == sess[s]
             d == Older(c)
  <2>1. c \in Session /\ Sound(c)
    BY SessionParts
  <2>2. CASE c.pc \notin {"opening", "pump"}
    BY <2>1, <2>2
  <2>3. CASE c.pc \in {"opening", "pump"}
    <3>1. (c.pc = "opening" => c.due > 0) /\ (c.pc = "pump" => c.timer > 0)
      BY DEF Tick
    <3> HIDE DEF c
    <3>2. c.timer \in Ticks /\ c.due \in Ticks /\ c.wait \in Ticks
      BY <2>1 DEF Session
    <3>3. \A t \in Ticks : /\ t \in Nat /\ Max0(t) \in Ticks /\ Max0(t) <= t
                           /\ \A u \in Ticks : t <= u => Max0(t) <= Max0(u)
      BY TimeAssumption DEF Ticks, Max0
    <3>4. /\ d \in Session /\ d.pc = c.pc /\ d.timer = Max0(c.timer) /\ d.wait = c.wait
          /\ d.due = Max0(c.due) /\ d.late = (c.due = 0) /\ d.res = c.res /\ d.buf = c.buf
          /\ d.found = c.found
      BY <2>1, <3>2, <3>3 DEF Session
    <3> HIDE DEF d
    <3>5. d.timer <= d.wait
      <4>1. Max0(c.timer) <= c.timer /\ c.timer <= c.wait /\ c.timer \in Nat /\ c.wait \in Nat
            /\ Max0(c.timer) \in Nat
        BY <2>1, <3>2, <3>3 DEF Sound
      <4> QED BY <3>4, <4>1
    <3>6. ASSUME Async PROVE Timely(d)
      <4>1. c.due # 0
        <5>1. c.pc = "pump" => c.timer <= c.due /\ c.timer > 0
          BY <2>1, <3>1, <3>6 DEF Sound, Timely
        <5>2. c.timer \in Nat /\ c.due \in Nat
          BY <3>2, <3>3
        <5> QED BY <2>3, <3>1, <5>1, <5>2
      <4>2. d.pc = "pump" => Max0(c.timer) <= Max0(c.due)
        BY <2>1, <3>2, <3>3, <3>4, <3>6 DEF Sound, Timely
      <4> QED BY <3>4, <4>1, <4>2 DEF Timely
    <3>7. d.res = "none"
      BY <2>1, <2>3, <3>4 DEF Sound
    <3>8. Sound(d)
      BY <2>1, <2>3, <3>4, <3>5, <3>6, <3>7 DEF Sound, Found
    <3>9. Turn(s) = d
      BY <2>3 DEF c, d
    <3> HIDE DEF Turn
    <3> QED BY <3>4, <3>8, <3>9 DEF c
  <2> QED BY <2>2, <2>3
<1> HIDE DEF Turn
<1>4. \A s \in Sessions : sess'[s] = Turn(s)
  BY <1>1
<1>5. SessType'
  BY <1>1, <1>3 DEF SessType
<1>6. Sounds'
  <2> SUFFICES ASSUME NEW s \in Sessions PROVE Sound(sess'[s])
    BY DEF Sounds, Sound, Timely, Found
  <2> QED BY <1>3, <1>4, Zenon
<1>7. QueueType' /\ OutType' /\ DownType' /\ BoxType' /\ WriteType' /\ Orders'
  BY <1>2, Parts, BoxStays, WritesStay DEF QueueType, OutType, DownType
<1>8. \A t \in Sessions : Moves(t)
  <2> SUFFICES ASSUME NEW t \in Sessions PROVE Moves(t)
    OBVIOUS
  <2>1. sess'[t].buf = sess[t].buf
    BY <1>3, <1>4
  <2> QED BY <1>2, <2>1, StaysPut
<1> QED BY <1>5, <1>6, <1>7, <1>8, NextParts DEF Good

-----------------------------------------------------------------------------
LEMMA InitGood == Init => IInv
<1> SUFFICES ASSUME Init PROVE IInv
  OBVIOUS
<1>1. New \in Session /\ Sound(New)
  <2>1. 0 \in Ticks /\ <<>> \in Seq(Byte) /\ 0 <= 0
    BY TimeAssumption DEF Ticks
  <2>2. New \in Session
    BY <2>1 DEF New, Session
  <2> QED BY <2>1, <2>2 DEF New, Sound, Timely, Found
<1>2. SessType /\ Sounds
  BY <1>1 DEF Init, SessType, Sounds
<1>3. DownType /\ BoxType /\ QueueType /\ OutType
  BY SessionAssumption DEF Init, DownType, BoxType, QueueType, OutType
<1>4. WriteType /\ Orders
  <2>1. \A s \in Sessions : writes[s] = <<>> /\ wire[s] = <<>>
    BY DEF Init
  <2>2. DOMAIN <<>> = {} /\ Len(<<>>) = 0
    OBVIOUS
  <2>3. Calls(<<>>, <<>>)
    BY <2>2, SessionAssumption DEF Calls
  <2>4. writes \in [Sessions -> Seq(WriteCall)] /\ wire \in [Sessions -> Seq(1..MaxWrites)]
    BY DEF Init
  <2> QED BY <2>1, <2>3, <2>4, CallsAre
<1> QED BY <1>2, <1>3, <1>4, Parts

LEMMA StepGood == IInv /\ [Next]_vars => Good
<1> SUFFICES ASSUME IInv, [Next]_vars PROVE Good
  OBVIOUS
<1>1. CASE UNCHANGED vars
  <2>1. UNCHANGED <<sess, queue, out, down, writes, wire>> /\ UNCHANGED box
    BY <1>1 DEF vars, box
  <2>2. DownType' /\ BoxType'
    BY <2>1, Parts, BoxStays DEF DownType
  <2> QED BY <2>1, <2>2, NothingArrives
<1>2. CASE \E s \in Sessions : Runs(s) \/ BoxRuns(s)
  <2>1. PICK s \in Sessions : Runs(s) \/ BoxRuns(s)
    BY <1>2
  <2>2. CASE BoxRuns(s)
    BY <2>2, BoxRunsStep
  <2>3. CASE (Connect(s) \/ ConnectAnyway(s)) /\ UNCHANGED <<writes, wire>>
    BY <2>3, ConnectStep
  <2>4. CASE Opening(s) /\ UNCHANGED <<writes, wire>>
    BY <2>4, OpeningStep
  <2>5. CASE OpenTimeout(s) /\ UNCHANGED <<writes, wire>>
    BY <2>5, OpenTimeoutStep
  <2>6. CASE Check(s) /\ UNCHANGED <<writes, wire>>
    BY <2>6, CheckStep
  <2>7. CASE Take(s) /\ UNCHANGED <<writes, wire>>
    BY <2>7, TakeStep
  <2>8. CASE PumpEnd(s) /\ UNCHANGED <<writes, wire>>
    BY <2>8, PumpEndStep
  <2>9. CASE \E n \in 1..MaxWrites : WriteRuns(s, n)
    BY <2>9, CallStep
  <2> QED BY <2>1, <2>2, <2>3, <2>4, <2>5, <2>6, <2>7, <2>8, <2>9 DEF Runs
<1>3. CASE \E s \in Sessions : Write(s) \/ \E n \in 1..MaxWrites : DropWrite(s, n)
  BY <1>3, WriteStep, CallStep
<1>4. CASE /\ UNCHANGED <<writes, wire>>
           /\ \E s \in Sessions :
                \/ Open(s) \/ Abandon(s) \/ Begin(s) \/ Cancel(s) \/ Stop(s)
                \/ BoxGreets(s) \/ BoxSends(s) \/ BoxNotes(s) \/ BoxFails(s)
  BY <1>4, OpenStep, AbandonStep, BeginStep, LeaveStep, BoxSaysStep
<1>5. CASE Tick
  BY <1>5, TickStep
<1> QED BY <1>1, <1>2, <1>3, <1>4, <1>5 DEF Next

LEMMA Inductive == Spec => []IInv
<1>1. IInv /\ [Next]_vars => IInv'
  BY StepGood DEF Good
<1> QED BY <1>1, InitGood, PTL DEF Spec

-----------------------------------------------------------------------------
(* Events, session objects and writes stay what they are: no timer passes  *)
(* what the operation was given, and a write begins after earlier ones.    *)
THEOREM TypeCorrect == Spec => []TypeOK
<1>1. IInv => TypeOK
  BY DEF IInv
<1> QED BY <1>1, Inductive, PTL

(* wait_for returns the bytes up to the first end of the needle, for every *)
(* needle and however the bytes were cut, and says timeout only without    *)
(* one in the buffer.                                                      *)
THEOREM NeedleIsFound == Spec => []WaitForFinds
<1>1. IInv => WaitForFinds
  BY DEF IInv, Sound, Found, WaitForFinds
<1> QED BY <1>1, Inductive, PTL

(* The async twins never wait past the timeout of the operation, whatever  *)
(* events keep coming.  (The blocking ones do: the run stream_late.)       *)
THEOREM AsyncIsInTime == Async => (Spec => []InTime)
<1> SUFFICES ASSUME Async PROVE Spec => []InTime
  OBVIOUS
<1>1. IInv => InTime
  BY DEF IInv, Sound, Timely, InTime
<1> QED BY <1>1, Inductive, PTL

(* No write goes out twice, and none after one begun when it had returned. *)
THEOREM WritesStayInOrder == Spec => []WritesInOrder
<1>1. IInv => WritesInOrder
  BY DEF IInv, Ordered, WritesInOrder
<1> QED BY <1>1, Inductive, PTL

(* Every session implements BytePipe: each byte of the device is handed to *)
(* the caller once and in order, or is in the buffer or the channel.       *)
THEOREM SessionIsPipe == Spec => IsPipe
<1>1. Init => \A s \in Sessions : Pipe(s)!Init
  <2> SUFFICES ASSUME Init, NEW s \in Sessions PROVE Pipe(s)!Init
    OBVIOUS
  <2>1. sess[s].buf = <<>> /\ queue[s] = <<>> /\ out[s] = <<>>
    BY DEF Init, New
  <2>2. <<>> \in Seq(Event) /\ <<>> \o <<>> = <<>>
    OBVIOUS
  <2>3. Bytes(<<>>) = <<>>
    BY <2>2, BytesType
  <2>4. InPipe(s) = <<>>
    BY <2>1, <2>2, <2>3 DEF InPipe
  <2> QED BY <2>1, <2>4 DEF Pipe!Init
<1>2. IInv /\ [Next]_vars => [\A s \in Sessions : Pipe(s)!Next \/ UNCHANGED <<InPipe(s), out[s]>>]_vars
  BY StepGood DEF Good, Moves
<1> QED BY <1>1, <1>2, Inductive, PTL DEF Spec, IsPipe

=============================================================================
