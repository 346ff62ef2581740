---------------------------- MODULE FramingProofs ----------------------------
(***************************************************************************)
(* The wrappers of Framing deliver what was sent, for any number of PDUs,  *)
(* any cut of the stream, any loss and order of the datagrams, any buffer  *)
(* and any codec that reads back what it writes.                           *)
(*                                                                         *)
(* The bytes that are read and not parsed, in flight or not yet written    *)
(* are, put together, exactly the PDUs that the reader has not got.        *)
(***************************************************************************)
EXTENDS Framing, SequenceTheorems, TLAPS

Pdus == UNION {Range(s) : s \in Scripts}

ReadPdus == {AsRead(p) : p \in Pdus}

BeginsLike(b, w) == \A i \in 1 .. Len(b) : i <= Len(w) => b[i] = w[i]

(* What the codec has to provide: every PDU fits into the buffer and is read
   back from bytes that begin like it.  That is about folds over sequences,
   which would need induction; CodecChecked of MCFraming evaluates it. *)
Codec ==
  /\ \A s \in Scripts : s \in Seq(Pdus)
  /\ \A p \in Pdus : WellFormed(p) /\ Len(to_bytes(p)) <= BUFFER_SIZE
  /\ \A p \in Pdus : \A b \in Seq(Octet) : BeginsLike(b, to_bytes(p)) => ReadsBack(p, b)

(* There is room for all that can be in flight beside an incomplete PDU. *)
Room == Window <= BUFFER_SIZE /\ \A p \in Pdus : Len(to_bytes(p)) - 1 + Window <= BUFFER_SIZE

(***************************************************************************)
(* The inductive invariant.                                                *)
(***************************************************************************)

(* The bytes b are those of the PDUs g + 1 .. s of scr, one after the other. *)
Cuts(cut, b, scr, g, s) ==
  /\ cut \in [g .. s -> Nat]
  /\ cut[g] = 0 /\ cut[s] = Len(b)
  /\ \A i, j \in g .. s : i <= j => cut[i] <= cut[j]
  /\ \A i \in g + 1 .. s :
        /\ cut[i] = cut[i - 1] + Len(to_bytes(scr[i]))
        /\ \A k \in 1 .. Len(to_bytes(scr[i])) : b[cut[i - 1] + k] = to_bytes(scr[i])[k]

Framed(b, scr, g, s) == \E cut : Cuts(cut, b, scr, g, s)

Got == handled \o incoming_queue

Reading == at \in {"poll", "parse", "handle"}

Types ==
  /\ transport \in {"tcp", "udp"} /\ script \in Scripts /\ sent \in 0 .. Len(script)
  /\ unwritten \in Seq(Octet) /\ stream \in Seq(Octet) /\ buffer \in Seq(Octet)
  /\ peer \in {"open", "closed"} /\ at \in {"poll", "parse", "handle", "closed", "panicked"}
  /\ closed \in BOOLEAN /\ incoming_queue \in Seq(ReadPdus) /\ handled \in Seq(ReadPdus)

(* The beginning of a PDU, not the whole of it, when the reader polls. *)
Incomplete == buffer = <<>> \/ \E p \in Pdus : Len(buffer) < Len(to_bytes(p))

InFlight == buffer \o (stream \o unwritten)

TcpInv ==
  /\ datagrams = {}
  /\ Len(Got) <= sent /\ \A i \in 1 .. Len(Got) : Got[i] = AsRead(script[i])
  /\ Reading => Framed(InFlight, script, Len(Got), sent)
  /\ Reading /\ at # "parse" => Incomplete
  /\ Len(stream) <= Window
  /\ peer = "closed" => unwritten = <<>> /\ sent = Len(script)
  /\ PanicsOnlyAtEmailLength

(* Datagram numbers: those of the PDUs the reader has got, of the one in the
   buffer and of those in flight are all different. *)
Numbers(f, q, scr, s) ==
  /\ f \in [1 .. Len(q) -> 1 .. s]
  /\ \A i, j \in 1 .. Len(q) : f[i] = f[j] => i = j
  /\ \A i \in 1 .. Len(q) : q[i] = AsRead(scr[f[i]])

Unread(f, q, m) == m \in 1 .. sent /\ \A i \in 1 .. Len(q) : f[i] # m

Delivered(f) ==
  /\ Numbers(f, Got, script, sent)
  /\ \A d \in datagrams : Unread(f, Got, d.number)
  /\ buffer # <<>> => \E m \in 1 .. sent :
        /\ buffer = to_bytes(script[m]) /\ Unread(f, Got, m)
        /\ \A d \in datagrams : d.number # m

UdpInv ==
  /\ unwritten = <<>> /\ stream = <<>> /\ ~closed /\ at # "panicked"
  /\ buffer # <<>> => at = "parse"
  /\ \A d, e \in datagrams : d.number = e.number => d = e
  /\ \A d \in datagrams : d.number \in 1 .. sent /\ d.bytes = to_bytes(script[d.number])
  /\ \E f : Delivered(f)

FramingInv == Types /\ (transport = "tcp" => TcpInv) /\ (transport = "udp" => UdpInv)

(***************************************************************************)
(* Framed bytes.                                                           *)
(***************************************************************************)

LEMMA OctetAssociative ==
  \A a, b, c \in Seq(Octet) : (a \o b) \o c = a \o (b \o c)
  BY ConcatAssociative

LEMMA SplitAt ==
  ASSUME NEW b \in Seq(Octet), NEW k \in 0 .. Len(b)
  PROVE  /\ SubSeq(b, 1, k) \in Seq(Octet) /\ Len(SubSeq(b, 1, k)) = k
         /\ SubSeq(b, k + 1, Len(b)) \in Seq(Octet) /\ Len(SubSeq(b, k + 1, Len(b))) = Len(b) - k
         /\ SubSeq(b, 1, k) \o SubSeq(b, k + 1, Len(b)) = b
<1> DEFINE x == SubSeq(b, 1, k)
           y == SubSeq(b, k + 1, Len(b))
<1>1. /\ x \in Seq(Octet) /\ Len(x) = k /\ \A i \in 1 .. k : x[i] = b[i]
      /\ y \in Seq(Octet) /\ Len(y) = Len(b) - k /\ \A i \in 1 .. Len(b) - k : y[i] = b[k + i]
  OBVIOUS
<1> HIDE DEF x, y
<1>2. /\ x \o y \in Seq(Octet) /\ Len(x \o y) = Len(b)
      /\ \A i \in 1 .. Len(b) : (x \o y)[i] = IF i <= k THEN x[i] ELSE y[i - k]
  BY <1>1
<1>3. \A i \in 1 .. Len(b) : (x \o y)[i] = b[i]
  BY <1>1, <1>2
<1>4. x \o y = b
  BY <1>2, <1>3, SeqEqual
<1> QED
  BY <1>1, <1>4 DEF x, y

(* What is moved from the front of one sequence to the end of another. *)
LEMMA Moved ==
  ASSUME NEW a \in Seq(Octet), NEW b \in Seq(Octet), NEW k \in 0 .. Len(b)
  PROVE  /\ SubSeq(b, 1, k) \in Seq(Octet) /\ Len(SubSeq(b, 1, k)) = k
         /\ SubSeq(b, k + 1, Len(b)) \in Seq(Octet) /\ Len(SubSeq(b, k + 1, Len(b))) = Len(b) - k
         /\ (a \o SubSeq(b, 1, k)) \o SubSeq(b, k + 1, Len(b)) = a \o b
<1> DEFINE x == SubSeq(b, 1, k)
           y == SubSeq(b, k + 1, Len(b))
<1>1. x \in Seq(Octet) /\ Len(x) = k /\ y \in Seq(Octet) /\ Len(y) = Len(b) - k /\ x \o y = b
  BY SplitAt
<1> HIDE DEF x, y
<1>2. x \in Seq(Octet) /\ y \in Seq(Octet)
  BY <1>1
<1>3. (a \o x) \o y = a \o (x \o y)
  BY ONLY <1>2, a \in Seq(Octet), OctetAssociative, ZenonT(60)
<1> QED
  BY <1>1, <1>3 DEF x, y

LEMMA AppendBehind ==
  ASSUME NEW a \in Seq(ReadPdus), NEW b \in Seq(ReadPdus), NEW p \in ReadPdus
  PROVE  a \o Append(b, p) = Append(a \o b, p)
<1>1. Append(b, p) = b \o <<p>> /\ <<p>> \in Seq(ReadPdus)
  BY AppendIsConcat
<1>2. a \o b \in Seq(ReadPdus) /\ Append(a \o b, p) = (a \o b) \o <<p>>
  BY AppendIsConcat
<1>3. (a \o b) \o <<p>> = a \o (b \o <<p>>)
  BY <1>1, ConcatAssociative
<1> QED
  BY <1>1, <1>2, <1>3

LEMMA OctetConcat ==
  ASSUME NEW a \in Seq(Octet), NEW b \in Seq(Octet)
  PROVE  /\ a \o b \in Seq(Octet) /\ Len(a \o b) = Len(a) + Len(b)
         /\ \A i \in 1 .. Len(b) : (a \o b)[Len(a) + i] = b[i]
  OBVIOUS

(* What is left behind the first bytes. *)
LEMMA Behind ==
  ASSUME NEW b \in Seq(Octet), NEW n \in 0 .. Len(b)
  PROVE  /\ SubSeq(b, n + 1, Len(b)) \in Seq(Octet) /\ Len(SubSeq(b, n + 1, Len(b))) = Len(b) - n
         /\ \A k \in 1 .. Len(b) - n : SubSeq(b, n + 1, Len(b))[k] = b[n + k]
  OBVIOUS

LEMMA BehindPart ==
  ASSUME NEW x \in Seq(Octet), NEW u \in Seq(Octet)
  PROVE  SubSeq(x \o u, Len(x) + 1, Len(x \o u)) = u
<1> DEFINE z == x \o u
           n == Len(x)
           v == SubSeq(z, n + 1, Len(z))
<1>1. z \in Seq(Octet) /\ Len(z) = n + Len(u) /\ \A i \in 1 .. Len(u) : z[n + i] = u[i]
  BY OctetConcat
<1>2. n \in Nat /\ Len(u) \in Nat
  OBVIOUS
<1> HIDE DEF z, n
<1>3. n \in 0 .. Len(z) /\ Len(z) - n = Len(u)
  BY ONLY <1>1, <1>2
<1>4. v \in Seq(Octet) /\ Len(v) = Len(u) /\ \A i \in 1 .. Len(u) : v[i] = z[n + i]
  BY <1>1, <1>3, Behind
<1> HIDE DEF v
<1>5. v = u
  BY <1>1, <1>4, SeqEqual
<1> QED
  BY <1>5 DEF v, z, n

(* What is cut off in front. *)
LEMMA CutOff ==
  ASSUME NEW b \in Seq(Octet), NEW t \in Seq(Octet), NEW n \in 0 .. Len(b)
  PROVE  SubSeq(b, n + 1, Len(b)) \o t = SubSeq(b \o t, n + 1, Len(b \o t))
<1> DEFINE x == SubSeq(b, 1, n)
           y == SubSeq(b, n + 1, Len(b))
<1>1. x \in Seq(Octet) /\ Len(x) = n /\ y \in Seq(Octet) /\ x \o y = b
  BY SplitAt
<1> HIDE DEF x, y
<1>2. x \in Seq(Octet) /\ y \in Seq(Octet)
  BY <1>1
<1>3. (x \o y) \o t = x \o (y \o t)
  BY ONLY <1>2, t \in Seq(Octet), OctetAssociative, ZenonT(60)
<1>4. b \o t = x \o (y \o t)
  BY ONLY <1>1, <1>3, Zenon
<1>5. y \o t \in Seq(Octet)
  BY <1>2
<1> DEFINE u == y \o t
<1> HIDE DEF u
<1>6. SubSeq(x \o u, Len(x) + 1, Len(x \o u)) = u
  BY <1>2, <1>5, BehindPart DEF u
<1>7. b \o t = x \o u /\ Len(x) = n
  BY <1>1, <1>4 DEF u
<1>8. SubSeq(b \o t, n + 1, Len(b \o t)) = u
  BY ONLY <1>6, <1>7
<1> QED
  BY <1>8 DEF u, y

LEMMA PieceWithin ==
  ASSUME NEW x \in Nat, NEW n \in 0 .. x, NEW y \in Nat, NEW l \in Nat, x + l <= y, NEW k \in 1 .. l
  PROVE  /\ x + k \in 1 .. y
         /\ (x - n) + k \in 1 .. y - n /\ n + ((x - n) + k) = x + k
  OBVIOUS

(* The first PDU of framed bytes. *)
LEMMA FramedFirst ==
  ASSUME NEW b \in Seq(Octet), NEW scr, NEW g \in Nat, NEW s \in Nat, g <= s, Framed(b, scr, g, s),
         \A i \in g + 1 .. s : to_bytes(scr[i]) \in Seq(Octet), b # <<>>
  PROVE  /\ g < s /\ Len(to_bytes(scr[g + 1])) <= Len(b)
         /\ \A k \in 1 .. Len(to_bytes(scr[g + 1])) : b[k] = to_bytes(scr[g + 1])[k]
<1>1. PICK cut : Cuts(cut, b, scr, g, s)
  BY DEF Framed
<1>2. Len(b) \in Nat \ {0}
  OBVIOUS
<1>3. g < s
  BY <1>1, <1>2 DEF Cuts
<1>4. g + 1 \in g + 1 .. s /\ g + 1 \in g .. s /\ s \in g .. s /\ (g + 1) - 1 = g
  BY <1>3
<1>5. cut[g + 1] = cut[g] + Len(to_bytes(scr[g + 1])) /\ cut[g] = 0 /\ cut[g + 1] <= Len(b)
  BY <1>1, <1>3, <1>4 DEF Cuts
<1>6. Len(to_bytes(scr[g + 1])) \in Nat
  BY <1>4
<1>7. ASSUME NEW k \in 1 .. Len(to_bytes(scr[g + 1])) PROVE b[k] = to_bytes(scr[g + 1])[k]
  <2>1. b[cut[(g + 1) - 1] + k] = to_bytes(scr[g + 1])[k]
    BY ONLY <1>1, <1>4, k \in 1 .. Len(to_bytes(scr[g + 1])) DEF Cuts
  <2>2. cut[(g + 1) - 1] + k = k
    BY ONLY <1>4, <1>5, <1>6, k \in 1 .. Len(to_bytes(scr[g + 1]))
  <2> QED
    BY <2>1, <2>2
<1> QED
  BY <1>3, <1>5, <1>6, <1>7

(* One more PDU is sent. *)
LEMMA FramedSend ==
  ASSUME NEW b \in Seq(Octet), NEW scr, NEW g \in Nat, NEW s \in Nat, g <= s, Framed(b, scr, g, s),
         \A i \in g + 1 .. s + 1 : to_bytes(scr[i]) \in Seq(Octet)
  PROVE  Framed(b \o to_bytes(scr[s + 1]), scr, g, s + 1)
<1> DEFINE w == to_bytes(scr[s + 1])
           r == b \o w
<1>1. PICK cut : Cuts(cut, b, scr, g, s)
  BY DEF Framed
<1> DEFINE new == [i \in g .. s + 1 |-> IF i <= s THEN cut[i] ELSE Len(r)]
<1>2. w \in Seq(Octet) /\ Len(w) \in Nat /\ Len(b) \in Nat
  OBVIOUS
<1>3. /\ Len(r) = Len(b) + Len(w)
      /\ \A k \in 1 .. Len(b) : r[k] = b[k]
      /\ \A k \in 1 .. Len(w) : r[Len(b) + k] = w[k]
  BY <1>2
<1> HIDE DEF r
<1>4. /\ \A i \in g .. s : cut[i] \in Nat /\ cut[i] <= Len(b)
      /\ \A i, j \in g .. s : i <= j => cut[i] <= cut[j]
      /\ cut[g] = 0 /\ cut[s] = Len(b)
  BY <1>1 DEF Cuts
<1>5. new \in [g .. s + 1 -> Nat] /\ new[g] = 0 /\ new[s + 1] = Len(r)
  BY <1>2, <1>3, <1>4
<1>6. ASSUME NEW i \in g .. s + 1, NEW j \in g .. s + 1, i <= j PROVE new[i] <= new[j]
  BY <1>2, <1>3, <1>4, <1>6
<1>7. ASSUME NEW i \in g + 1 .. s + 1
      PROVE  /\ new[i] = new[i - 1] + Len(to_bytes(scr[i]))
             /\ \A k \in 1 .. Len(to_bytes(scr[i])) : r[new[i - 1] + k] = to_bytes(scr[i])[k]
  <2>1. CASE i = s + 1
    <3>1. new[i] = Len(r) /\ new[i - 1] = Len(b) /\ to_bytes(scr[i]) = w
      BY <1>4, <2>1
    <3> QED
      BY <1>2, <1>3, <3>1
  <2>2. CASE i # s + 1
    <3>1. i \in g + 1 .. s /\ i - 1 \in g .. s /\ i \in g .. s
      BY <2>2
    <3>2. new[i] = cut[i] /\ new[i - 1] = cut[i - 1]
      BY <3>1
    <3>3. /\ cut[i] = cut[i - 1] + Len(to_bytes(scr[i]))
          /\ \A k \in 1 .. Len(to_bytes(scr[i])) : b[cut[i - 1] + k] = to_bytes(scr[i])[k]
      BY <1>1, <3>1 DEF Cuts
    <3>4. Len(to_bytes(scr[i])) \in Nat /\ cut[i - 1] \in Nat /\ cut[i] <= Len(b)
      BY <1>4, <3>1
    <3>5. ASSUME NEW k \in 1 .. Len(to_bytes(scr[i])) PROVE r[cut[i - 1] + k] = to_bytes(scr[i])[k]
      <4>1. cut[i - 1] + k \in 1 .. Len(b)
        BY <1>2, <3>3, <3>4, PieceWithin
      <4> QED
        BY <1>3, <3>3, <4>1
    <3> QED
      BY <3>2, <3>3, <3>5
  <2> QED
    BY <2>1, <2>2
<1>8. Cuts(new, r, scr, g, s + 1)
  <2> HIDE DEF new
  <2> QED
    BY <1>5, <1>6, <1>7 DEF Cuts
<1> QED
  BY <1>8 DEF Framed, r

(* The first PDU is parsed. *)
LEMMA FramedTake ==
  ASSUME NEW b \in Seq(Octet), NEW scr, NEW g \in Nat, NEW s \in Nat, g < s, Framed(b, scr, g, s),
         \A i \in g + 1 .. s : to_bytes(scr[i]) \in Seq(Octet),
         NEW n, n = Len(to_bytes(scr[g + 1]))
  PROVE  Framed(SubSeq(b, n + 1, Len(b)), scr, g + 1, s)
<1> DEFINE r == SubSeq(b, n + 1, Len(b))
<1>1. PICK cut : Cuts(cut, b, scr, g, s)
  BY DEF Framed
<1> DEFINE new == [i \in g + 1 .. s |-> cut[i] - n]
<1>2. /\ g + 1 \in g + 1 .. s /\ g + 1 \in g .. s /\ s \in g .. s /\ s \in g + 1 .. s
      /\ (g + 1) - 1 = g /\ n \in Nat /\ Len(b) \in Nat
  OBVIOUS
<1>3. cut[g + 1] = n
  <2>1. cut[g + 1] = cut[(g + 1) - 1] + Len(to_bytes(scr[g + 1]))
    BY <1>1, <1>2 DEF Cuts
  <2>2. cut[g] = 0
    BY <1>1 DEF Cuts
  <2> QED
    BY <1>2, <2>1, <2>2
<1>4. /\ \A i \in g .. s : cut[i] \in Nat /\ cut[i] <= Len(b)
      /\ \A i, j \in g .. s : i <= j => cut[i] <= cut[j]
      /\ cut[s] = Len(b)
  BY <1>1, <1>2 DEF Cuts
<1>5. \A i \in g + 1 .. s : i \in g .. s /\ n <= cut[i] /\ cut[i] \in Nat
  BY <1>2, <1>3, <1>4
<1>6. /\ Len(r) = Len(b) - n /\ \A k \in 1 .. Len(b) - n : r[k] = b[n + k]
  <2>1. n \in 0 .. Len(b)
    BY ONLY <1>2, <1>3, <1>4, g \in Nat, s \in Nat
  <2> QED
    BY <2>1, Behind
<1> HIDE DEF r
<1>7. new \in [g + 1 .. s -> Nat] /\ new[g + 1] = 0 /\ new[s] = Len(r)
  <2>1. \A i \in g + 1 .. s : cut[i] - n \in Nat
    BY ONLY <1>2, <1>5
  <2>2. new[g + 1] = n - n /\ new[s] = Len(b) - n
    BY <1>2, <1>3, <1>4
  <2>3. n - n = 0
    BY ONLY <1>2
  <2>4. new \in [g + 1 .. s -> Nat]
    BY ONLY <2>1
  <2> QED
    BY <1>6, <2>2, <2>3, <2>4
<1>8. ASSUME NEW i \in g + 1 .. s, NEW j \in g + 1 .. s, i <= j PROVE new[i] <= new[j]
  BY <1>2, <1>4, <1>5, <1>8
<1>9. ASSUME NEW i \in g + 1 + 1 .. s
      PROVE  /\ new[i] = new[i - 1] + Len(to_bytes(scr[i]))
             /\ \A k \in 1 .. Len(to_bytes(scr[i])) : r[new[i - 1] + k] = to_bytes(scr[i])[k]
  <2>1. i \in g + 1 .. s /\ i - 1 \in g + 1 .. s
    OBVIOUS
  <2>2. new[i] = cut[i] - n /\ new[i - 1] = cut[i - 1] - n
    BY <2>1
  <2>3. /\ cut[i] = cut[i - 1] + Len(to_bytes(scr[i]))
        /\ \A k \in 1 .. Len(to_bytes(scr[i])) : b[cut[i - 1] + k] = to_bytes(scr[i])[k]
    BY <1>1, <2>1 DEF Cuts
  <2>4. Len(to_bytes(scr[i])) \in Nat /\ cut[i - 1] \in Nat /\ n <= cut[i - 1] /\ cut[i] <= Len(b)
    BY <1>4, <1>5, <2>1
  <2>5. ASSUME NEW k \in 1 .. Len(to_bytes(scr[i])) PROVE r[(cut[i - 1] - n) + k] = to_bytes(scr[i])[k]
    <3>1. (cut[i - 1] - n) + k \in 1 .. Len(b) - n /\ n + ((cut[i - 1] - n) + k) = cut[i - 1] + k
      <4>1. n \in 0 .. cut[i - 1]
        BY ONLY <1>2, <2>4
      <4>2. cut[i - 1] + Len(to_bytes(scr[i])) <= Len(b)
        BY ONLY <2>3, <2>4
      <4> DEFINE x == cut[i - 1]
                 l == Len(to_bytes(scr[i]))
                 y == Len(b)
      <4>3. x \in Nat /\ n \in 0 .. x /\ y \in Nat /\ l \in Nat /\ x + l <= y /\ k \in 1 .. l
        BY <1>2, <2>4, <4>1, <4>2
      <4> HIDE DEF x, l, y
      <4>4. (x - n) + k \in 1 .. y - n /\ n + ((x - n) + k) = x + k
        BY ONLY <4>3, PieceWithin
      <4> QED
        BY <4>4 DEF x, y
    <3> QED
      BY <1>6, <2>3, <3>1
  <2>6. ASSUME NEW l \in Nat, cut[i] = cut[i - 1] + l PROVE cut[i] - n = (cut[i - 1] - n) + l
    BY <1>2, <2>4, <2>6
  <2>7. new[i] = new[i - 1] + Len(to_bytes(scr[i]))
    BY ONLY <2>2, <2>3, <2>4, <2>6
  <2> QED
    BY <2>2, <2>5, <2>7
<1>10. Cuts(new, r, scr, g + 1, s)
  <2> HIDE DEF new
  <2> QED
    BY <1>7, <1>8, <1>9 DEF Cuts
<1> QED
  BY <1>10 DEF Framed, r
(***************************************************************************)
(* The codec.                                                              *)
(***************************************************************************)

LEMMA OctetAt ==
  ASSUME NEW b \in Seq(Octet), NEW i \in 1 .. Len(b)
  PROVE  b[i] \in Nat
<1>1. b[i] \in Octet
  OBVIOUS
<1>2. \A x \in Octet : x \in Nat
  BY ONLY DEF Octet
<1> QED
  BY <1>1, <1>2

LEMMA PduBytes ==
  ASSUME Codec, NEW p \in Pdus
  PROVE  /\ to_bytes(p) \in Seq(Octet) /\ to_bytes(p) # <<>> /\ to_bytes(p)[1] = p.id
         /\ Len(to_bytes(p)) \in Nat \ {0} /\ Len(to_bytes(p)) <= BUFFER_SIZE
<1>1. /\ to_bytes(p) \in Seq(Octet) /\ to_bytes(p) # <<>> /\ to_bytes(p)[1] = p.id
      /\ Len(to_bytes(p)) <= BUFFER_SIZE
  BY DEF Codec, WellFormed
<1> QED
  BY <1>1

LEMMA ScriptBytes ==
  ASSUME Codec, script \in Scripts
  PROVE  /\ script \in Seq(Pdus) /\ Len(script) \in Nat
         /\ \A i \in 1 .. Len(script) : script[i] \in Pdus /\ to_bytes(script[i]) \in Seq(Octet)
<1>1. script \in Seq(Pdus)
  BY DEF Codec
<1>2. Len(script) \in Nat /\ \A i \in 1 .. Len(script) : script[i] \in Pdus
  BY <1>1
<1> QED
  BY <1>1, <1>2, PduBytes

(* What an attempt to parse gives when the bytes begin like a PDU. *)
LEMMA ParseGives ==
  ASSUME Codec, NEW p \in Pdus, NEW b \in Seq(Octet), BeginsLike(b, to_bytes(p))
  PROVE  /\ parse_pdu(b).outcome = "pdu" =>
               /\ Len(to_bytes(p)) <= Len(b)
               /\ parse_pdu(b).pdu = AsRead(p) /\ parse_pdu(b).used = Len(to_bytes(p))
         /\ parse_pdu(b).outcome # "pdu" => Len(b) < Len(to_bytes(p))
<1>1. ReadsBack(p, b)
  BY DEF Codec
<1>2. Len(b) \in Nat /\ Len(to_bytes(p)) \in Nat
  BY PduBytes
<1>3. CASE Len(b) < Len(to_bytes(p))
  BY <1>1, <1>2, <1>3 DEF ReadsBack
<1>4. CASE ~(Len(b) < Len(to_bytes(p)))
  <2>1. parse_pdu(b) = [outcome |-> "pdu", pdu |-> AsRead(p), used |-> Len(to_bytes(p))]
    BY <1>1, <1>4 DEF ReadsBack
  <2>2. parse_pdu(b).outcome = "pdu" /\ parse_pdu(b).pdu = AsRead(p) /\ parse_pdu(b).used = Len(to_bytes(p))
    BY ONLY <2>1
  <2> QED
    BY <1>2, <1>4, <2>2
<1> QED
  BY <1>3, <1>4

(* Nothing but the missing length of an email makes it panic. *)
LEMMA PanicAt ==
  ASSUME Codec, NEW p \in Pdus, NEW b \in Seq(Octet), b # <<>>, BeginsLike(b, to_bytes(p)),
         parse_pdu(b).outcome = "panic"
  PROVE  /\ b[1] \in {ValInsertPdu.id, ValLookupResponsePdu.id}
         /\ Len(b) = Len(to_bytes(p)) - Len(p.args[5]) - 1
<1> DEFINE w == to_bytes(p)
           name_at == 1 + SSN_LENGTH + 1
           entry == {ValInsertPdu.id, ValLookupResponsePdu.id}
<1>1. w \in Seq(Octet) /\ Len(w) \in Nat \ {0} /\ w[1] = p.id /\ Len(b) \in Nat \ {0}
  BY PduBytes
<1>2. \A i \in 1 .. Len(b) : i <= Len(w) => b[i] = w[i]
  BY DEF BeginsLike
<1>3. b[1] = p.id
  BY <1>1, <1>2
<1>4. /\ p.id \in (0 .. 8) \cup (100 .. 103) \cup (200 .. 201)
      /\ p.id \in entry =>
            /\ Len(w) >= name_at /\ Len(p.args[5]) \in Nat
            /\ Len(w) = name_at + w[name_at] + 1 + Len(p.args[5])
  BY DEF Codec, WellFormed
<1>5. entry = {100, 103}
  BY DEF ValInsertPdu, ValLookupResponsePdu
<1>6. try_parse_fixed(b[1], b).outcome # "panic"
  BY DEF try_parse_fixed, None, Parsed
<1>7. b[1] \in entry /\ try_parse_entry(b).outcome = "panic"
  <2>1. \/ parse_pdu(b) = try_parse_fixed(b[1], b)
        \/ b[1] \in entry /\ parse_pdu(b) \in {try_parse_entry(b), try_parse_response(b)}
    BY <1>3, <1>4 DEF parse_pdu, parse_net_pdu, parse_val_pdu, parse_stun_pdu
  <2>2. try_parse_response(b).outcome = "panic" => try_parse_entry(b).outcome = "panic"
    BY DEF try_parse_response, Parsed
  <2> QED
    BY <1>6, <2>1, <2>2
<1>8. Len(b) >= name_at /\ Len(b) >= name_at + b[name_at] /\ Len(b) < name_at + b[name_at] + 1
  <2> DEFINE name_length == b[name_at]
             email_at == name_at + name_length + 1
  <2> HIDE DEF name_at
  <2>1. CASE Len(b) < name_at \/ Len(b) < name_at + name_length
    <3>1. try_parse_entry(b) = None
      BY <2>1 DEF try_parse_entry, name_at
    <3> QED
      BY <1>7, <3>1 DEF None
  <2>2. CASE ~(Len(b) < name_at \/ Len(b) < name_at + name_length) /\ ~(Len(b) < email_at)
    <3>1. try_parse_entry(b).outcome \in {"none", "pdu"}
      BY <2>2 DEF try_parse_entry, None, Parsed, name_at
    <3> QED
      BY <1>7, <3>1
  <2>3. name_at \in Nat \ {0}
    BY FramingAssumption DEF name_at
  <2>4. Len(b) >= name_at => b[name_at] \in Nat
    <3> SUFFICES ASSUME Len(b) >= name_at PROVE b[name_at] \in Nat
      OBVIOUS
    <3>1. name_at \in 1 .. Len(b)
      BY ONLY <1>1, <2>3, Len(b) >= name_at
    <3> QED
      BY <3>1, OctetAt
  <2>5. \/ Len(b) < name_at \/ Len(b) < name_at + name_length
        \/ ~(Len(b) < name_at \/ Len(b) < name_at + name_length) /\ ~(Len(b) < email_at)
        \/ ~(Len(b) < name_at) /\ ~(Len(b) < name_at + name_length) /\ Len(b) < email_at
    OBVIOUS
  <2>6. CASE ~(Len(b) < name_at) /\ ~(Len(b) < name_at + name_length) /\ Len(b) < email_at
    <3>1. Len(b) \in Nat /\ Len(b) >= name_at
      BY <1>1, <2>3, <2>6
    <3>2. name_length \in Nat
      BY <2>4, <3>1
    <3> HIDE DEF name_length
    <3>3. Len(b) >= name_at + name_length
      BY <2>3, <2>6, <3>1, <3>2
    <3> QED
      BY <2>6, <3>1, <3>3 DEF name_length
  <2> QED
    BY <2>1, <2>2, <2>5, <2>6
<1>9. name_at \in Nat \ {0}
  BY FramingAssumption
<1> HIDE DEF name_at
<1>10. Len(w) >= name_at /\ Len(p.args[5]) \in Nat /\ Len(w) = name_at + w[name_at] + 1 + Len(p.args[5])
  BY <1>3, <1>4, <1>7
<1> HIDE DEF w
<1>11. name_at \in 1 .. Len(b) /\ name_at <= Len(w)
  BY <1>1, <1>8, <1>9, <1>10
<1>12. w[name_at] = b[name_at] /\ b[name_at] \in Nat
  BY <1>2, <1>11, OctetAt
<1>13. Len(w) = name_at + b[name_at] + 1 + Len(p.args[5])
  BY <1>10, <1>12
<1>14. Len(b) = Len(w) - Len(p.args[5]) - 1
  <2> DEFINE y == b[name_at]
             t == Len(p.args[5])
  <2>1. /\ y \in Nat /\ t \in Nat /\ name_at \in Nat /\ Len(b) \in Nat /\ Len(w) \in Nat
        /\ Len(b) >= name_at + y /\ Len(b) < name_at + y + 1 /\ Len(w) = name_at + y + 1 + t
    BY ONLY <1>1, <1>8, <1>9, <1>10, <1>12, <1>13
  <2> HIDE DEF y, t
  <2>2. Len(b) = Len(w) - t - 1
    BY ONLY <2>1
  <2> QED
    BY <2>2 DEF t
<1> QED
  BY <1>7, <1>14 DEF w

(***************************************************************************)
(* The stream.                                                             *)
(***************************************************************************)
LEMMA TypeFacts ==
  ASSUME Codec, Types
  PROVE  /\ Got \in Seq(ReadPdus) /\ Len(Got) \in Nat /\ sent \in Nat /\ Len(script) \in Nat /\ sent <= Len(script)
         /\ Len(stream) \in Nat /\ Len(unwritten) \in Nat /\ Len(buffer) \in Nat
         /\ stream \o unwritten \in Seq(Octet) /\ InFlight \in Seq(Octet) /\ Len(InFlight) \in Nat
         /\ Len(buffer) <= Len(InFlight) /\ \A i \in 1 .. Len(buffer) : InFlight[i] = buffer[i]
         /\ \A i \in 1 .. sent : script[i] \in Pdus /\ to_bytes(script[i]) \in Seq(Octet)
<1>1. Got \in Seq(ReadPdus) /\ Len(Got) \in Nat
  BY DEF Types, Got
<1>2. Len(script) \in Nat /\ \A i \in 1 .. Len(script) : script[i] \in Pdus /\ to_bytes(script[i]) \in Seq(Octet)
  BY ScriptBytes DEF Types
<1>3. sent \in Nat /\ sent <= Len(script)
  BY <1>2 DEF Types
<1>4. /\ stream \in Seq(Octet) /\ unwritten \in Seq(Octet) /\ buffer \in Seq(Octet)
      /\ stream \o unwritten \in Seq(Octet)
  BY DEF Types
<1> DEFINE t == stream \o unwritten
<1> HIDE DEF t
<1>5. t \in Seq(Octet)
  BY <1>4 DEF t
<1>6. InFlight = buffer \o t
  BY DEF InFlight, t
<1>7. /\ InFlight \in Seq(Octet) /\ Len(InFlight) \in Nat /\ Len(buffer) <= Len(InFlight)
      /\ \A i \in 1 .. Len(buffer) : InFlight[i] = buffer[i]
  BY <1>4, <1>5, <1>6
<1>8. Len(stream) \in Nat /\ Len(unwritten) \in Nat /\ Len(buffer) \in Nat
  BY <1>4
<1> QED
  BY <1>1, <1>2, <1>3, <1>4, <1>7, <1>8

(* What the buffer begins with is the next PDU. *)
LEMMA NextPdu ==
  ASSUME Codec, Types, TcpInv, Reading, buffer # <<>>
  PROVE  /\ Len(Got) < sent /\ Len(Got) + 1 \in 1 .. sent /\ script[Len(Got) + 1] \in Pdus
         /\ BeginsLike(buffer, to_bytes(script[Len(Got) + 1]))
<1> DEFINE g == Len(Got)
<1>1. /\ g \in Nat /\ sent \in Nat /\ g <= sent /\ InFlight \in Seq(Octet) /\ Framed(InFlight, script, g, sent)
      /\ \A i \in 1 .. sent : script[i] \in Pdus /\ to_bytes(script[i]) \in Seq(Octet)
      /\ Len(buffer) \in Nat /\ Len(buffer) <= Len(InFlight)
      /\ \A i \in 1 .. Len(buffer) : InFlight[i] = buffer[i]
  BY TypeFacts DEF TcpInv
<1>2. buffer \in Seq(Octet) /\ Len(buffer) # 0
  BY DEF Types
<1> HIDE DEF g
<1>3. InFlight # <<>>
  BY <1>1, <1>2
<1>4. \A i \in g + 1 .. sent : i \in 1 .. sent
  BY <1>1
<1>5. /\ g < sent /\ Len(to_bytes(script[g + 1])) <= Len(InFlight)
      /\ \A k \in 1 .. Len(to_bytes(script[g + 1])) : InFlight[k] = to_bytes(script[g + 1])[k]
  BY <1>1, <1>3, <1>4, FramedFirst
<1>6. g + 1 \in 1 .. sent
  BY <1>1, <1>5
<1>7. Len(to_bytes(script[g + 1])) \in Nat
  BY <1>1, <1>6
<1>8. BeginsLike(buffer, to_bytes(script[g + 1]))
  <2> SUFFICES ASSUME NEW i \in 1 .. Len(buffer), i <= Len(to_bytes(script[g + 1]))
               PROVE  buffer[i] = to_bytes(script[g + 1])[i]
    BY DEF BeginsLike
  <2>1. i \in 1 .. Len(to_bytes(script[g + 1]))
    BY <1>1, <1>7
  <2> QED
    BY <1>1, <1>5, <2>1
<1> QED
  BY <1>1, <1>5, <1>6, <1>8 DEF g

LEMMA SendTcpKeeps ==
  ASSUME Codec, FramingInv, SendTcp
  PROVE  FramingInv'
<1>1. Types /\ TcpInv /\ transport' = "tcp"
  BY DEF FramingInv, SendTcp
<1>2. sent + 1 \in 1 .. Len(script) /\ unwritten' = to_bytes(script[sent + 1]) /\ sent' = sent + 1
  BY <1>1, TypeFacts DEF SendTcp, NextBytes
<1>3. to_bytes(script[sent + 1]) \in Seq(Octet) /\ script \in Seq(Pdus)
  BY <1>1, <1>2, ScriptBytes DEF Types
<1>4. Types'
  BY <1>1, <1>2, <1>3, TypeFacts DEF Types, SendTcp, reader
<1>5. Got' = Got /\ Reading' = Reading /\ Incomplete' = Incomplete /\ InFlight' = InFlight \o to_bytes(script[sent + 1])
  <2>1. Got' = Got /\ Reading' = Reading /\ Incomplete' = Incomplete
    BY DEF SendTcp, reader, Got, Reading, Incomplete
  <2>2. stream \in Seq(Octet) /\ buffer \in Seq(Octet) /\ unwritten = <<>>
    BY <1>1 DEF Types, SendTcp
  <2>3. InFlight = buffer \o stream
    BY <2>2 DEF InFlight
  <2>4. InFlight' = buffer \o (stream \o to_bytes(script[sent + 1]))
    BY <1>2 DEF InFlight, SendTcp, reader
  <2>5. (buffer \o stream) \o to_bytes(script[sent + 1]) = buffer \o (stream \o to_bytes(script[sent + 1]))
    BY ONLY <1>3, <2>2, OctetAssociative, ZenonT(60)
  <2> QED
    BY <2>1, <2>3, <2>4, <2>5
<1>6. ASSUME Reading PROVE Framed(InFlight', script, Len(Got), sent + 1)
  <2>1. /\ InFlight \in Seq(Octet) /\ Len(Got) \in Nat /\ sent \in Nat /\ Len(Got) <= sent
        /\ Framed(InFlight, script, Len(Got), sent)
    BY <1>1, <1>6, TypeFacts DEF TcpInv
  <2>2. \A i \in Len(Got) + 1 .. sent + 1 : to_bytes(script[i]) \in Seq(Octet)
    <3>1. \A i \in 1 .. sent : to_bytes(script[i]) \in Seq(Octet)
      BY <1>1, TypeFacts
    <3>2. \A i \in Len(Got) + 1 .. sent + 1 : i \in 1 .. sent \/ i = sent + 1
      BY ONLY <2>1
    <3> QED
      BY ONLY <1>3, <3>1, <3>2
  <2> QED
    BY <1>5, <2>1, <2>2, FramedSend
<1>7. PanicsOnlyAtEmailLength'
  BY <1>1, <1>5 DEF TcpInv, PanicsOnlyAtEmailLength, Got, SendTcp, reader
<1>8. TcpInv'
  BY <1>1, <1>2, <1>5, <1>6, <1>7, TypeFacts DEF TcpInv, SendTcp, reader
<1> QED
  BY <1>1, <1>4, <1>8 DEF FramingInv

LEMMA WriteKeeps ==
  ASSUME Codec, FramingInv, Write
  PROVE  FramingInv'
<1>1. Types /\ TcpInv /\ transport' = "tcp"
  BY DEF FramingInv, Write, UdpInv, Types
<1>2. PICK amt \in 1 .. Len(unwritten) :
        /\ Len(stream) + amt <= Window \/ at \in {"closed", "panicked"}
        /\ stream' = IF at \in {"closed", "panicked"} THEN stream ELSE stream \o SubSeq(unwritten, 1, amt)
        /\ unwritten' = SubSeq(unwritten, amt + 1, Len(unwritten))
  BY DEF Write
<1>3. stream \in Seq(Octet) /\ unwritten \in Seq(Octet) /\ buffer \in Seq(Octet) /\ amt \in 0 .. Len(unwritten)
  BY <1>1 DEF Types
<1>4. /\ SubSeq(unwritten, 1, amt) \in Seq(Octet) /\ Len(SubSeq(unwritten, 1, amt)) = amt
      /\ unwritten' \in Seq(Octet)
      /\ (stream \o SubSeq(unwritten, 1, amt)) \o unwritten' = stream \o unwritten
  BY <1>2, <1>3, Moved
<1>5. stream' \in Seq(Octet) /\ Len(stream') <= Window
  BY <1>1, <1>2, <1>3, <1>4 DEF TcpInv
<1>6. Types'
  BY <1>1, <1>4, <1>5 DEF Types, Write, reader
<1>7. /\ Got' = Got /\ Reading' = Reading /\ Incomplete' = Incomplete /\ (Reading => InFlight' = InFlight)
  <2>1. Got' = Got /\ Reading' = Reading /\ Incomplete' = Incomplete
    BY DEF Write, reader, Got, Reading, Incomplete
  <2>2. Reading => stream' \o unwritten' = stream \o unwritten
    BY <1>2, <1>4 DEF Reading
  <2> QED
    BY <2>1, <2>2 DEF InFlight, Write, reader
<1>8. PanicsOnlyAtEmailLength'
  BY <1>1, <1>7 DEF TcpInv, PanicsOnlyAtEmailLength, Got, Write, reader
<1>9. TcpInv'
  BY <1>1, <1>2, <1>5, <1>7, <1>8 DEF TcpInv, Write, reader
<1> QED
  BY <1>1, <1>6, <1>9 DEF FramingInv

LEMMA CloseKeeps ==
  ASSUME Codec, FramingInv, Close
  PROVE  FramingInv'
<1>1. Types /\ TcpInv /\ transport' = "tcp"
  BY DEF FramingInv, Close
<1>2. Types'
  BY <1>1 DEF Types, Close, reader
<1>3. Got' = Got /\ Reading' = Reading /\ Incomplete' = Incomplete /\ InFlight' = InFlight
  BY DEF Close, reader, Got, Reading, Incomplete, InFlight
<1>4. PanicsOnlyAtEmailLength'
  BY <1>1, <1>3 DEF TcpInv, PanicsOnlyAtEmailLength, Got, Close, reader
<1>5. TcpInv'
  BY <1>1, <1>3, <1>4 DEF TcpInv, Close, reader
<1> QED
  BY <1>1, <1>2, <1>5 DEF FramingInv

LEMMA FittingIs ==
  ASSUME buffer \in Seq(Octet), NEW b \in Seq(Octet)
  PROVE  /\ \E k \in 0 .. Len(b) : Fitting(b) = SubSeq(b, 1, k)
         /\ Len(buffer) + Len(b) <= BUFFER_SIZE => Fitting(b) = b
<1> DEFINE room == BUFFER_SIZE - Len(buffer)
<1>1. room \in Int /\ Len(b) \in Nat /\ Len(buffer) \in Nat
  BY FramingAssumption
<1>2. Fitting(b) = SubSeq(b, 1, IF Len(b) < room THEN Len(b) ELSE room)
  BY DEF Fitting
<1>3. Len(buffer) + Len(b) <= BUFFER_SIZE => Len(b) <= room
  BY <1>1, FramingAssumption
<1> HIDE DEF room
<1>4. SubSeq(b, 1, Len(b)) = b
  BY SubSeqFull
<1>5. CASE Len(b) < room
  <2>1. Fitting(b) = SubSeq(b, 1, Len(b))
    BY <1>2, <1>5
  <2>2. Len(b) \in 0 .. Len(b)
    BY <1>1
  <2> QED
    BY <1>4, <2>1, <2>2
<1>6. CASE room \in 0 .. Len(b)
  <2>1. Fitting(b) = SubSeq(b, 1, room)
    BY <1>1, <1>2, <1>6
  <2>2. Len(b) <= room => Len(b) = room
    BY <1>1, <1>6
  <2> QED
    BY <1>3, <1>4, <1>6, <2>1, <2>2
<1>7. CASE room < 0
  <2>1. Fitting(b) = SubSeq(b, 1, room)
    BY <1>1, <1>2, <1>7
  <2>2. SubSeq(b, 1, room) = <<>> /\ SubSeq(b, 1, 0) = <<>>
    BY <1>1, <1>7, SubSeqEmpty
  <2> QED
    BY <1>1, <1>3, <1>7, <2>1, <2>2
<1> QED
  BY <1>1, <1>5, <1>6, <1>7

LEMMA ReadTcpKeeps ==
  ASSUME Codec, FramingInv, ReadTcp
  PROVE  FramingInv'
<1>1. Types /\ TcpInv /\ transport' = "tcp" /\ at = "poll"
  BY DEF FramingInv, ReadTcp
<1>2. PICK count \in 0 .. Len(stream) :
        /\ buffer' = buffer \o Fitting(SubSeq(stream, 1, count))
        /\ stream' = SubSeq(stream, Len(Fitting(SubSeq(stream, 1, count))) + 1, Len(stream))
        /\ closed' \in BOOLEAN
  BY DEF ReadTcp
<1>3. stream \in Seq(Octet) /\ buffer \in Seq(Octet) /\ unwritten \in Seq(Octet)
  BY <1>1 DEF Types
<1>4. SubSeq(stream, 1, count) \in Seq(Octet) /\ Len(SubSeq(stream, 1, count)) = count
  BY <1>3, Moved
<1>5. PICK k \in 0 .. count : Fitting(SubSeq(stream, 1, count)) = SubSeq(SubSeq(stream, 1, count), 1, k)
  BY <1>3, <1>4, FittingIs
<1>6. k \in 0 .. Len(stream)
  BY <1>3
<1>7. SubSeq(SubSeq(stream, 1, count), 1, k) = SubSeq(stream, 1, k)
  BY <1>3, <1>6
<1>8. /\ SubSeq(stream, 1, k) \in Seq(Octet) /\ Len(SubSeq(stream, 1, k)) = k
      /\ SubSeq(stream, k + 1, Len(stream)) \in Seq(Octet)
      /\ Len(SubSeq(stream, k + 1, Len(stream))) = Len(stream) - k
      /\ (buffer \o SubSeq(stream, 1, k)) \o SubSeq(stream, k + 1, Len(stream)) = buffer \o stream
  BY <1>3, <1>6, Moved
<1>9. buffer' = buffer \o SubSeq(stream, 1, k) /\ stream' = SubSeq(stream, k + 1, Len(stream))
  BY <1>2, <1>5, <1>7, <1>8
<1>10. buffer' \in Seq(Octet) /\ stream' \in Seq(Octet) /\ Len(stream') <= Window
  <2>1. buffer' \in Seq(Octet)
    BY <1>3, <1>8, <1>9
  <2>2. Len(stream) \in Nat /\ Len(stream) <= Window
    BY <1>1, TypeFacts DEF TcpInv
  <2> QED
    BY <1>6, <1>8, <1>9, <2>1, <2>2, FramingAssumption
<1>11. Types'
  BY <1>1, <1>2, <1>10 DEF Types, ReadTcp, sender
<1>12. Got' = Got /\ Reading /\ Reading' /\ at' = "parse" /\ InFlight' = InFlight
  <2>1. Got' = Got /\ Reading /\ Reading' /\ at' = "parse"
    BY <1>1 DEF ReadTcp, sender, Got, Reading
  <2>2. buffer' \o stream' = buffer \o stream /\ unwritten' = unwritten
    BY <1>8, <1>9 DEF ReadTcp, sender
  <2>3. buffer' \o (stream' \o unwritten) = buffer \o (stream \o unwritten)
    <3> DEFINE b1 == buffer'
               s1 == stream'
    <3>1. b1 \in Seq(Octet) /\ s1 \in Seq(Octet)
      BY <1>10
    <3>2. b1 \o s1 = buffer \o stream
      BY <2>2
    <3> HIDE DEF b1, s1
    <3>3. (b1 \o s1) \o unwritten = b1 \o (s1 \o unwritten)
      BY ONLY <1>3, <3>1, OctetAssociative, ZenonT(60)
    <3>4. (buffer \o stream) \o unwritten = buffer \o (stream \o unwritten)
      BY ONLY <1>3, OctetAssociative, ZenonT(60)
    <3>5. b1 \o (s1 \o unwritten) = buffer \o (stream \o unwritten)
      BY ONLY <3>2, <3>3, <3>4
    <3> QED
      BY <3>5 DEF b1, s1
  <2> QED
    BY <2>1, <2>2, <2>3 DEF InFlight
<1>13. PanicsOnlyAtEmailLength'
  BY <1>12 DEF PanicsOnlyAtEmailLength
<1>14. TcpInv'
  BY <1>1, <1>10, <1>12, <1>13 DEF TcpInv, ReadTcp, sender
<1> QED
  BY <1>1, <1>11, <1>14 DEF FramingInv

LEMMA ParseOneTcp ==
  ASSUME Codec, FramingInv, ParseOne, transport = "tcp"
  PROVE  FramingInv'
<1> DEFINE g == Len(Got)
           p == script[Len(Got) + 1]
           n == Len(to_bytes(p))
           t == stream \o unwritten
<1>1. Types /\ TcpInv /\ Reading /\ transport' = "tcp" /\ at' = "parse"
  BY DEF FramingInv, ParseOne, Reading
<1>2. buffer # <<>>
  BY DEF ParseOne, parse_pdu, None
<1>3. g < sent /\ g + 1 \in 1 .. sent /\ p \in Pdus /\ BeginsLike(buffer, to_bytes(p))
  BY <1>1, <1>2, NextPdu
<1>4. /\ buffer \in Seq(Octet) /\ incoming_queue \in Seq(ReadPdus) /\ handled \in Seq(ReadPdus)
      /\ AsRead(p) \in ReadPdus
  BY <1>1, <1>3 DEF Types, ReadPdus
<1>5. to_bytes(p) \in Seq(Octet) /\ n \in Nat
  BY <1>3, PduBytes
<1>6. n <= Len(buffer) /\ parse_pdu(buffer).pdu = AsRead(p) /\ parse_pdu(buffer).used = n
  BY <1>3, <1>4, ParseGives DEF ParseOne
<1>7. incoming_queue' = Append(incoming_queue, AsRead(p)) /\ buffer' = SubSeq(buffer, n + 1, Len(buffer))
  BY <1>6 DEF ParseOne
<1>8. /\ g \in Nat /\ sent \in Nat /\ InFlight \in Seq(Octet) /\ Len(buffer) \in Nat /\ t \in Seq(Octet)
      /\ Got \in Seq(ReadPdus) /\ \A i \in 1 .. sent : to_bytes(script[i]) \in Seq(Octet)
      /\ Framed(InFlight, script, g, sent)
  BY <1>1, TypeFacts DEF TcpInv
<1> HIDE DEF g, p, n, t
<1>9. n \in 0 .. Len(buffer)
  BY <1>5, <1>6, <1>8
<1>10. buffer' \in Seq(Octet)
  BY <1>4, <1>7, <1>9, Behind
<1>11. Types'
  <2>1. incoming_queue' \in Seq(ReadPdus)
    BY <1>3, <1>4, <1>7
  <2> QED
    BY <1>1, <1>10, <2>1 DEF Types, ParseOne, sender
<1>12. Got' = Append(Got, AsRead(p))
  <2>1. Got' = handled \o Append(incoming_queue, AsRead(p))
    BY <1>7 DEF Got, ParseOne
  <2> QED
    BY <1>3, <1>4, <2>1, AppendBehind DEF Got
<1>13. Len(Got') = g + 1 /\ \A i \in 1 .. g + 1 : Got'[i] = AsRead(script[i])
  <2>1. Len(Got) = g /\ p = script[g + 1]
    BY DEF g, p
  <2>2. \A i \in 1 .. g : Got[i] = AsRead(script[i])
    BY <1>1 DEF TcpInv, g
  <2>3. Len(Got') = g + 1 /\ \A i \in 1 .. g + 1 : Got'[i] = IF i <= g THEN Got[i] ELSE AsRead(p)
    <3> DEFINE got == Got
               read == AsRead(p)
    <3>1. got \in Seq(ReadPdus) /\ Len(got) = g /\ g \in Nat /\ read \in ReadPdus /\ Got' = Append(got, read)
      BY <1>4, <1>8, <1>12, <2>1
    <3> HIDE DEF got, read
    <3>2. Len(Got') = g + 1 /\ \A i \in 1 .. g + 1 : Got'[i] = IF i <= g THEN got[i] ELSE read
      BY ONLY <3>1
    <3> QED
      BY <3>2 DEF got, read
  <2> QED
    BY <1>8, <2>1, <2>2, <2>3
<1>14. InFlight' = SubSeq(InFlight, n + 1, Len(InFlight))
  <2>1. InFlight = buffer \o t /\ InFlight' = buffer' \o t
    BY DEF InFlight, ParseOne, sender, t
  <2> QED
    BY <1>4, <1>7, <1>8, <1>9, <2>1, CutOff
<1>15. Framed(InFlight', script, g + 1, sent)
  <2>1. n = Len(to_bytes(script[g + 1]))
    BY DEF n, p, g
  <2>2. \A i \in g + 1 .. sent : to_bytes(script[i]) \in Seq(Octet)
    BY <1>8
  <2> QED
    BY <1>3, <1>8, <1>14, <2>1, <2>2, FramedTake
<1>16. PanicsOnlyAtEmailLength'
  BY <1>1 DEF PanicsOnlyAtEmailLength
<1>17. TcpInv'
  BY <1>1, <1>3, <1>8, <1>13, <1>15, <1>16 DEF TcpInv, ParseOne, sender
<1> QED
  BY <1>1, <1>11, <1>17 DEF FramingInv

LEMMA ParseNoneTcp ==
  ASSUME Codec, FramingInv, ParseNone, transport = "tcp"
  PROVE  FramingInv'
<1>1. Types /\ TcpInv /\ Reading /\ transport' = "tcp" /\ at' = "handle"
  BY DEF FramingInv, ParseNone, Reading
<1>2. Types'
  BY <1>1 DEF Types, ParseNone, sender
<1>3. Got' = Got /\ Reading' /\ InFlight' = InFlight
  BY DEF ParseNone, sender, Got, Reading, InFlight
<1>4. Incomplete'
  <2>1. CASE buffer = <<>>
    BY <2>1 DEF Incomplete, ParseNone
  <2>2. CASE buffer # <<>>
    <3>1. PICK p \in Pdus : BeginsLike(buffer, to_bytes(p))
      BY <1>1, <2>2, NextPdu
    <3>2. Len(buffer) < Len(to_bytes(p))
      BY <1>1, <3>1, ParseGives DEF ParseNone, Types
    <3> QED
      BY <3>2 DEF Incomplete, ParseNone
  <2> QED
    BY <2>1, <2>2
<1>5. PanicsOnlyAtEmailLength'
  BY <1>1 DEF PanicsOnlyAtEmailLength
<1>6. TcpInv'
  BY <1>1, <1>3, <1>4, <1>5 DEF TcpInv, ParseNone, sender
<1> QED
  BY <1>1, <1>2, <1>6 DEF FramingInv

LEMMA ParsePanicsTcp ==
  ASSUME Codec, FramingInv, ParsePanics, transport = "tcp"
  PROVE  FramingInv'
<1>1. Types /\ TcpInv /\ Reading /\ transport' = "tcp" /\ at' = "panicked" /\ stream' = <<>>
  BY DEF FramingInv, ParsePanics, Reading
<1>2. Types'
  BY <1>1 DEF Types, ParsePanics, sender
<1>3. Got' = Got /\ ~Reading'
  BY <1>1 DEF ParsePanics, sender, Got, Reading
<1>4. buffer # <<>> /\ parse_pdu(buffer).outcome = "panic"
  BY DEF ParsePanics, parse_pdu, None
<1>5. PanicsOnlyAtEmailLength'
  <2> DEFINE p == script[Len(Got) + 1]
  <2>1. p \in Pdus /\ BeginsLike(buffer, to_bytes(p)) /\ buffer \in Seq(Octet)
    BY <1>1, <1>4, NextPdu DEF Types
  <2>2. /\ buffer[1] \in {ValInsertPdu.id, ValLookupResponsePdu.id}
        /\ Len(buffer) = Len(to_bytes(p)) - Len(p.args[5]) - 1
    BY <1>4, <2>1, PanicAt
  <2>3. buffer' = buffer /\ (script[Len(handled \o incoming_queue) + 1])' = p
    BY <1>3 DEF ParsePanics, sender, Got
  <2> QED
    BY <2>2, <2>3 DEF PanicsOnlyAtEmailLength
<1>6. Len(stream') <= Window
  BY <1>1, FramingAssumption
<1>7. TcpInv'
  BY <1>1, <1>3, <1>5, <1>6 DEF TcpInv, ParsePanics, sender
<1> QED
  BY <1>1, <1>2, <1>7 DEF FramingInv

LEMMA next_pduGot ==
  ASSUME Types, next_pdu
  PROVE  Got' = Got
<1>1. handled \in Seq(ReadPdus) /\ incoming_queue \in Seq(ReadPdus)
  BY DEF Types
<1>2. Got' = (handled \o incoming_queue) \o <<>>
  BY DEF Got, next_pdu
<1> QED
  BY <1>1, <1>2 DEF Got

LEMMA next_pduTcp ==
  ASSUME Codec, FramingInv, next_pdu, transport = "tcp"
  PROVE  FramingInv'
<1>1. Types /\ TcpInv /\ Reading /\ transport' = "tcp" /\ at' \in {"poll", "closed"} /\ at = "handle"
  BY DEF FramingInv, next_pdu, Reading
<1>2. stream' \in {stream, <<>>} /\ (at' = "poll" => stream' = stream)
  BY DEF next_pdu
<1>3. Types'
  BY <1>1, <1>2 DEF Types, next_pdu, sender
<1>4. Got' = Got
  BY <1>1, next_pduGot
<1>5. Reading' => InFlight' = InFlight
  BY <1>1, <1>2 DEF InFlight, next_pdu, sender, Reading
<1>6. Incomplete'
  BY <1>1 DEF TcpInv, Incomplete, next_pdu
<1>7. PanicsOnlyAtEmailLength'
  BY <1>1 DEF PanicsOnlyAtEmailLength
<1>8. Len(stream') <= Window
  BY <1>1, <1>2, FramingAssumption DEF TcpInv
<1>9. TcpInv'
  BY <1>1, <1>4, <1>5, <1>6, <1>7, <1>8 DEF TcpInv, next_pdu, sender
<1> QED
  BY <1>1, <1>3, <1>9 DEF FramingInv

(***************************************************************************)
(* The datagrams.                                                          *)
(***************************************************************************)
LEMMA SendUdpKeeps ==
  ASSUME Codec, FramingInv, SendUdp
  PROVE  FramingInv'
<1> DEFINE new == [number |-> sent + 1, bytes |-> NextBytes]
<1>1. Types /\ UdpInv /\ transport' = "udp"
  BY DEF FramingInv, SendUdp
<1>2. /\ sent \in Nat /\ sent + 1 \in 0 .. Len(script) /\ sent' = sent + 1
      /\ datagrams' = datagrams \cup {new} /\ script' = script /\ buffer' = buffer
  BY <1>1, TypeFacts DEF SendUdp, reader
<1>3. Types'
  BY <1>1, <1>2 DEF Types, SendUdp, reader
<1>4. Got' = Got /\ Got \in Seq(ReadPdus) /\ Len(Got) \in Nat
  BY <1>1, TypeFacts DEF Got, SendUdp, reader
<1>5. new.number = sent + 1 /\ new.bytes = to_bytes(script[sent + 1])
  BY DEF NextBytes
<1> HIDE DEF new
<1>6. PICK f : Delivered(f)
  BY <1>1 DEF UdpInv
<1>7. \A m \in 1 .. sent : m \in 1 .. sent + 1 /\ m # sent + 1
  BY <1>2
<1>8. Numbers(f, Got, script, sent + 1)
  <2>1. \A i \in 1 .. Len(Got) : f[i] \in 1 .. sent
    BY <1>6 DEF Delivered, Numbers
  <2>2. f \in [1 .. Len(Got) -> 1 .. sent + 1]
    BY <1>6, <1>7, <2>1 DEF Delivered, Numbers
  <2> QED
    BY <1>6, <2>2 DEF Delivered, Numbers
<1>9. ASSUME NEW m, m = sent + 1 PROVE Unread(f, Got, m)'
  <2>1. \A i \in 1 .. Len(Got) : f[i] \in 1 .. sent
    BY <1>6 DEF Delivered, Numbers
  <2> QED
    BY <1>2, <1>4, <1>7, <1>9, <2>1 DEF Unread
<1>10. \A m : Unread(f, Got, m) => Unread(f, Got, m)' /\ m # sent + 1
  BY <1>2, <1>4, <1>7 DEF Unread
<1>11. \A d \in datagrams : d.number \in 1 .. sent /\ d.bytes = to_bytes(script[d.number])
  BY <1>1 DEF UdpInv
<1>12. /\ \A d, e \in datagrams' : d.number = e.number => d = e
       /\ \A d \in datagrams' : d.number \in 1 .. sent' /\ d.bytes = to_bytes(script'[d.number])
  <2>1. \A d, e \in datagrams : d.number = e.number => d = e
    BY <1>1 DEF UdpInv
  <2>2. sent + 1 \in 1 .. sent + 1
    BY <1>2
  <2>3. \A d \in datagrams : d.number # new.number
    BY <1>5, <1>7, <1>11
  <2>4. \A d, e \in datagrams' : d.number = e.number => d = e
    BY <1>2, <2>1, <2>3
  <2>5. \A d \in datagrams' : d.number \in 1 .. sent' /\ d.bytes = to_bytes(script'[d.number])
    BY <1>2, <1>5, <1>7, <1>11, <2>2
  <2> QED
    BY <2>4, <2>5
<1>13. \A d \in datagrams' : Unread(f, Got, d.number)'
  <2> SUFFICES ASSUME NEW d \in datagrams' PROVE Unread(f, Got, d.number)'
    OBVIOUS
  <2>1. CASE d \in datagrams
    BY <1>6, <1>10, <2>1 DEF Delivered
  <2>2. CASE d = new
    BY <1>5, <1>9, <2>2
  <2> QED
    BY <1>2, <2>1, <2>2
<1>14. ASSUME buffer # <<>>
       PROVE  \E m \in 1 .. sent' :
                /\ buffer' = to_bytes(script'[m]) /\ Unread(f, Got, m)'
                /\ \A d \in datagrams' : d.number # m
  <2>1. PICK m \in 1 .. sent :
              /\ buffer = to_bytes(script[m]) /\ Unread(f, Got, m)
              /\ \A d \in datagrams : d.number # m
    BY <1>6, <1>14 DEF Delivered
  <2>2. m \in 1 .. sent' /\ m # new.number
    BY <1>2, <1>5, <1>7
  <2> QED
    BY <1>2, <1>10, <2>1, <2>2
<1>15. UdpInv'
  <2>1. (unwritten = <<>> /\ stream = <<>> /\ ~closed /\ at # "panicked" /\ (buffer # <<>> => at = "parse"))'
    BY <1>1 DEF UdpInv, SendUdp, reader
  <2>2. Numbers(f, Got, script, sent)'
    BY <1>2, <1>4, <1>8
  <2>3. Delivered(f)'
    BY <1>2, <1>13, <1>14, <2>2 DEF Delivered
  <2> QED
    BY <1>12, <2>1, <2>3 DEF UdpInv
<1> QED
  BY <1>1, <1>3, <1>15 DEF FramingInv

LEMMA LoseDatagramKeeps ==
  ASSUME Codec, FramingInv, LoseDatagram
  PROVE  FramingInv'
<1>1. Types /\ datagrams' \subseteq datagrams /\ datagrams # {} /\ transport' = transport
  BY DEF FramingInv, LoseDatagram
<1>2. transport = "udp" /\ UdpInv
  BY <1>1 DEF FramingInv, TcpInv, Types
<1>3. Types'
  BY <1>1 DEF Types, LoseDatagram, sender, reader
<1>4. Got' = Got
  BY DEF Got, LoseDatagram, reader
<1>5. UdpInv'
  <2>1. PICK f : Delivered(f)
    BY <1>2 DEF UdpInv
  <2>2. /\ sent' = sent /\ script' = script /\ buffer' = buffer
        /\ \A m : Unread(f, Got, m) <=> Unread(f, Got, m)'
    BY <1>4 DEF Unread, LoseDatagram, sender, reader
  <2>3. Delivered(f)'
    BY <1>1, <1>4, <2>1, <2>2 DEF Delivered
  <2>4. /\ (unwritten = <<>> /\ stream = <<>> /\ ~closed /\ at # "panicked" /\ (buffer # <<>> => at = "parse"))'
        /\ \A d, e \in datagrams' : d.number = e.number => d = e
        /\ \A d \in datagrams' : d.number \in 1 .. sent' /\ d.bytes = to_bytes(script'[d.number])
    BY <1>1, <1>2, <2>2 DEF UdpInv, LoseDatagram, sender, reader
  <2> QED
    BY <2>3, <2>4 DEF UdpInv
<1> QED
  BY <1>1, <1>2, <1>3, <1>5 DEF FramingInv

LEMMA ReadUdpKeeps ==
  ASSUME Codec, FramingInv, ReadUdp
  PROVE  FramingInv'
<1>1. Types /\ datagrams # {} /\ transport' = transport
  BY DEF FramingInv, ReadUdp
<1>2. transport = "udp" /\ UdpInv
  BY <1>1 DEF FramingInv, TcpInv, Types
<1>3. PICK d \in datagrams : datagrams' = datagrams \ {d} /\ buffer' = buffer \o Fitting(d.bytes)
  BY DEF ReadUdp
<1>4. buffer = <<>> /\ at' = "parse"
  BY <1>2 DEF UdpInv, ReadUdp
<1>5. d.number \in 1 .. sent /\ d.bytes = to_bytes(script[d.number])
  BY <1>2 DEF UdpInv
<1>6. /\ d.bytes \in Seq(Octet) /\ Len(d.bytes) \in Nat /\ Len(d.bytes) <= BUFFER_SIZE
      /\ script[d.number] \in Pdus
  <2>1. script[d.number] \in Pdus
    BY <1>1, <1>5, TypeFacts
  <2> QED
    BY <1>5, <2>1, PduBytes
<1>7. buffer' = to_bytes(script[d.number])
  <2>1. Len(buffer) + Len(d.bytes) <= BUFFER_SIZE /\ buffer \in Seq(Octet)
    BY <1>4, <1>6
  <2>2. Fitting(d.bytes) = d.bytes
    BY <1>6, <2>1, FittingIs
  <2> QED
    BY <1>3, <1>4, <1>5, <1>6, <2>2
<1>8. Types'
  BY <1>1, <1>4, <1>5, <1>6, <1>7 DEF Types, ReadUdp, sender
<1>9. Got' = Got /\ sent' = sent /\ script' = script
  BY DEF Got, ReadUdp, sender
<1>10. PICK f : Delivered(f)
  BY <1>2 DEF UdpInv
<1>11. \A m : Unread(f, Got, m) <=> Unread(f, Got, m)'
  BY <1>9 DEF Unread
<1>12. \A e \in datagrams' : e \in datagrams /\ e.number # d.number
  BY <1>2, <1>3 DEF UdpInv
<1>13. Delivered(f)'
  <2>1. Numbers(f, Got, script, sent)'
    BY <1>9, <1>10 DEF Delivered
  <2>2. \A e \in datagrams' : Unread(f, Got, e.number)'
    BY <1>10, <1>11, <1>12 DEF Delivered
  <2>3. PICK m \in 1 .. sent : m = d.number
    BY <1>5
  <2>4. buffer' = to_bytes(script'[m]) /\ Unread(f, Got, m)' /\ \A e \in datagrams' : e.number # m
    BY <1>7, <1>9, <1>10, <1>11, <1>12, <2>3 DEF Delivered
  <2> QED
    BY <1>9, <2>1, <2>2, <2>4 DEF Delivered
<1>14. UdpInv'
  <2>1. (unwritten = <<>> /\ stream = <<>> /\ ~closed /\ at # "panicked" /\ (buffer # <<>> => at = "parse"))'
    BY <1>2, <1>4 DEF UdpInv, ReadUdp, sender
  <2>2. /\ \A b, e \in datagrams' : b.number = e.number => b = e
        /\ \A e \in datagrams' : e.number \in 1 .. sent' /\ e.bytes = to_bytes(script'[e.number])
    BY <1>2, <1>9, <1>12 DEF UdpInv
  <2> QED
    BY <1>13, <2>1, <2>2 DEF UdpInv
<1> QED
  BY <1>1, <1>2, <1>8, <1>14 DEF FramingInv

(* A datagram holds a PDU, all of it. *)
LEMMA WholeDatagram ==
  ASSUME Codec, Types, UdpInv, NEW f, Delivered(f), buffer # <<>>
  PROVE  \E m \in 1 .. sent :
            /\ buffer = to_bytes(script[m]) /\ Unread(f, Got, m)
            /\ \A d \in datagrams : d.number # m
            /\ script[m] \in Pdus /\ parse_pdu(buffer).outcome = "pdu"
            /\ parse_pdu(buffer).pdu = AsRead(script[m]) /\ parse_pdu(buffer).used = Len(buffer)
<1>1. PICK m \in 1 .. sent :
            /\ buffer = to_bytes(script[m]) /\ Unread(f, Got, m)
            /\ \A d \in datagrams : d.number # m
  BY DEF Delivered
<1>2. script[m] \in Pdus /\ buffer \in Seq(Octet)
  BY TypeFacts DEF Types
<1>3. BeginsLike(buffer, to_bytes(script[m])) /\ ~(Len(buffer) < Len(to_bytes(script[m])))
  <2>1. Len(buffer) \in Nat
    BY <1>2
  <2> QED
    BY <1>1, <2>1 DEF BeginsLike
<1>4. /\ parse_pdu(buffer).outcome = "pdu"
      /\ parse_pdu(buffer).pdu = AsRead(script[m]) /\ parse_pdu(buffer).used = Len(to_bytes(script[m]))
  BY <1>2, <1>3, ParseGives
<1> QED
  BY <1>1, <1>2, <1>4

LEMMA ParseOneUdp ==
  ASSUME Codec, FramingInv, ParseOne, transport = "udp"
  PROVE  FramingInv'
<1>1. Types /\ UdpInv /\ transport' = "udp" /\ at' = "parse"
  BY DEF FramingInv, ParseOne
<1>2. buffer # <<>>
  BY DEF ParseOne, parse_pdu, None
<1>3. PICK f : Delivered(f)
  BY <1>1 DEF UdpInv
<1>4. PICK m \in 1 .. sent :
            /\ Unread(f, Got, m) /\ \A d \in datagrams : d.number # m
            /\ script[m] \in Pdus /\ parse_pdu(buffer).pdu = AsRead(script[m]) /\ parse_pdu(buffer).used = Len(buffer)
  BY <1>1, <1>2, <1>3, WholeDatagram
<1>5. incoming_queue' = Append(incoming_queue, AsRead(script[m])) /\ buffer' = SubSeq(buffer, Len(buffer) + 1, Len(buffer))
  BY <1>4 DEF ParseOne
<1>6. /\ buffer \in Seq(Octet) /\ incoming_queue \in Seq(ReadPdus) /\ handled \in Seq(ReadPdus)
      /\ Got \in Seq(ReadPdus) /\ AsRead(script[m]) \in ReadPdus
  BY <1>1, <1>4, TypeFacts DEF Types, ReadPdus
<1>7. buffer' = <<>>
  BY <1>5, <1>6, SubSeqEmpty
<1>8. Types'
  <2>1. incoming_queue' \in Seq(ReadPdus)
    BY <1>4, <1>5, <1>6
  <2>2. buffer' \in Seq(Octet)
    BY <1>7
  <2> QED
    BY <1>1, <2>1, <2>2 DEF Types, ParseOne, sender
<1>9. Got' = Append(Got, AsRead(script[m]))
  <2>1. Got' = handled \o Append(incoming_queue, AsRead(script[m]))
    BY <1>5 DEF Got, ParseOne
  <2> QED
    BY <1>4, <1>6, <2>1, AppendBehind DEF Got
<1> DEFINE g == Len(Got)
           h == [i \in 1 .. g + 1 |-> IF i <= g THEN f[i] ELSE m]
<1>10. g \in Nat /\ Len(Got') = g + 1 /\ \A i \in 1 .. g + 1 : Got'[i] = IF i <= g THEN Got[i] ELSE AsRead(script[m])
  BY <1>4, <1>6, <1>9
<1>11. /\ \A i \in 1 .. g : f[i] \in 1 .. sent /\ f[i] # m /\ Got[i] = AsRead(script[f[i]])
       /\ \A i, j \in 1 .. g : f[i] = f[j] => i = j
  BY <1>3, <1>4 DEF Delivered, Numbers, Unread
<1>12. sent' = sent /\ script' = script /\ datagrams' = datagrams
  BY DEF ParseOne, sender
<1>13. PICK q : q = h
  OBVIOUS
<1>14. q \in [1 .. g + 1 -> 1 .. sent] /\ \A i \in 1 .. g + 1 : q[i] = IF i <= g THEN f[i] ELSE m
  <2>1. \A i \in 1 .. g + 1 : i <= g => i \in 1 .. g
    BY <1>10
  <2> QED
    BY <1>11, <1>13, <2>1
<1> HIDE DEF g, h
<1>15. Numbers(q, Got', script, sent)
  <2>1. ASSUME NEW i \in 1 .. g + 1, NEW j \in 1 .. g + 1, q[i] = q[j] PROVE i = j
    BY <1>10, <1>11, <1>14, <2>1
  <2>2. ASSUME NEW i \in 1 .. g + 1 PROVE Got'[i] = AsRead(script[q[i]])
    BY <1>10, <1>11, <1>14
  <2> QED
    BY <1>10, <1>14, <2>1, <2>2 DEF Numbers
<1>16. ASSUME NEW k, Unread(f, Got, k), k # m PROVE Unread(q, Got, k)'
  <2>1. k \in 1 .. sent /\ \A i \in 1 .. g : f[i] # k
    BY <1>16 DEF Unread, g
  <2>2. \A i \in 1 .. g + 1 : q[i] # k
    BY <1>10, <1>14, <1>16, <2>1
  <2> QED
    BY <1>10, <1>12, <2>1, <2>2 DEF Unread
<1>17. Delivered(q)'
  <2>1. \A d \in datagrams' : Unread(q, Got, d.number)'
    BY <1>3, <1>4, <1>12, <1>16 DEF Delivered
  <2> QED
    BY <1>7, <1>12, <1>15, <2>1 DEF Delivered
<1>18. UdpInv'
  BY <1>1, <1>7, <1>12, <1>17 DEF UdpInv, ParseOne, sender
<1> QED
  BY <1>1, <1>8, <1>18 DEF FramingInv

(* What a step that neither reads nor parses leaves alone. *)
LEMMA DeliveredKept ==
  ASSUME NEW f, Delivered(f), Got' = Got, UNCHANGED <<script, sent, datagrams, buffer>>
  PROVE  Delivered(f)'
<1>1. \A m : Unread(f, Got, m) <=> Unread(f, Got, m)'
  BY DEF Unread
<1> QED
  BY <1>1 DEF Delivered

LEMMA ParseNoneUdp ==
  ASSUME Codec, FramingInv, ParseNone, transport = "udp"
  PROVE  FramingInv'
<1>1. Types /\ UdpInv /\ transport' = "udp" /\ at' = "handle"
  BY DEF FramingInv, ParseNone
<1>2. PICK f : Delivered(f)
  BY <1>1 DEF UdpInv
<1>3. buffer = <<>>
  BY <1>1, <1>2, WholeDatagram DEF ParseNone
<1>4. Types'
  BY <1>1 DEF Types, ParseNone, sender
<1>5. Delivered(f)'
  BY <1>2, DeliveredKept DEF Got, ParseNone, sender
<1>6. UdpInv'
  BY <1>1, <1>3, <1>5 DEF UdpInv, ParseNone, sender
<1> QED
  BY <1>1, <1>4, <1>6 DEF FramingInv

LEMMA ParsePanicsUdp ==
  ASSUME Codec, FramingInv, ParsePanics, transport = "udp"
  PROVE  FALSE
<1>1. Types /\ UdpInv
  BY DEF FramingInv
<1>2. PICK f : Delivered(f)
  BY <1>1 DEF UdpInv
<1>3. buffer # <<>>
  BY DEF ParsePanics, parse_pdu, None
<1> QED
  BY <1>1, <1>2, <1>3, WholeDatagram DEF ParsePanics

LEMMA next_pduUdp ==
  ASSUME Codec, FramingInv, next_pdu, transport = "udp"
  PROVE  FramingInv'
<1>1. Types /\ UdpInv /\ transport' = "udp" /\ at' = "poll" /\ stream' = stream
  BY DEF FramingInv, next_pdu, UdpInv
<1>2. PICK f : Delivered(f)
  BY <1>1 DEF UdpInv
<1>3. Types'
  BY <1>1 DEF Types, next_pdu, sender
<1>4. Delivered(f)'
  BY <1>1, <1>2, next_pduGot, DeliveredKept DEF next_pdu, sender
<1>5. UdpInv'
  BY <1>1, <1>4 DEF UdpInv, next_pdu, sender
<1> QED
  BY <1>1, <1>3, <1>5 DEF FramingInv

(***************************************************************************)
(* The theorems.                                                           *)
(***************************************************************************)
LEMMA InitFramed ==
  ASSUME Codec, Init
  PROVE  FramingInv
<1>1. Types
  <2>1. Len(script) \in Nat /\ 0 \in 0 .. Len(script)
    BY ScriptBytes DEF Init
  <2>2. <<>> \in Seq(Octet) /\ <<>> \in Seq(ReadPdus)
    OBVIOUS
  <2> QED
    BY <2>1, <2>2 DEF Init, Types
<1>2. Got = <<>>
  BY DEF Init, Got
<1>3. ASSUME transport = "tcp" PROVE TcpInv
  <2> DEFINE cut == [i \in 0 .. 0 |-> 0]
  <2>1. InFlight = <<>> /\ Len(<<>>) = 0
    BY DEF Init, InFlight
  <2>2. Cuts(cut, <<>>, script, 0, 0)
    BY <2>1 DEF Cuts
  <2>3. Framed(InFlight, script, Len(Got), sent)
    BY <1>2, <2>1, <2>2 DEF Framed, Init
  <2>4. Len(stream) <= Window
    BY FramingAssumption DEF Init
  <2> QED
    BY <1>2, <2>3, <2>4 DEF TcpInv, Init, Incomplete, PanicsOnlyAtEmailLength
<1>4. ASSUME transport = "udp" PROVE UdpInv
  <2> DEFINE f == <<>>
  <2>1. Numbers(f, Got, script, sent)
    BY <1>2 DEF Numbers, Init
  <2>2. Delivered(f)
    BY <2>1 DEF Delivered, Init
  <2> QED
    BY <2>2 DEF UdpInv, Init
<1> QED
  BY <1>1, <1>3, <1>4 DEF FramingInv

LEMMA NextFramed ==
  ASSUME Codec, FramingInv, [Next]_vars
  PROVE  FramingInv'
<1>1. transport = "tcp" \/ transport = "udp"
  BY DEF FramingInv, Types
<1>2. CASE SendTcp \/ Write \/ Close \/ SendUdp \/ LoseDatagram \/ ReadTcp \/ ReadUdp
  BY <1>2, SendTcpKeeps, WriteKeeps, CloseKeeps, SendUdpKeeps, LoseDatagramKeeps, ReadTcpKeeps, ReadUdpKeeps
<1>3. CASE ParseOne
  BY <1>1, <1>3, ParseOneTcp, ParseOneUdp
<1>4. CASE ParseNone
  BY <1>1, <1>4, ParseNoneTcp, ParseNoneUdp
<1>5. CASE ParsePanics
  BY <1>1, <1>5, ParsePanicsTcp, ParsePanicsUdp
<1>6. CASE next_pdu
  BY <1>1, <1>6, next_pduTcp, next_pduUdp
<1>7. CASE UNCHANGED vars
  <2>1. Got' = Got /\ Reading' = Reading /\ Incomplete' = Incomplete /\ InFlight' = InFlight
    BY <1>7 DEF vars, Got, Reading, Incomplete, InFlight
  <2>2. Types'
    BY <1>7 DEF vars, FramingInv, Types
  <2>3. TcpInv => TcpInv'
    BY <1>7, <2>1 DEF vars, TcpInv, PanicsOnlyAtEmailLength
  <2>4. \A f : Delivered(f) => Delivered(f)'
    BY <1>7, <2>1, DeliveredKept DEF vars
  <2>5. UdpInv => UdpInv'
    BY <1>7, <2>4 DEF vars, UdpInv
  <2> QED
    BY <1>7, <2>2, <2>3, <2>5 DEF FramingInv, vars
<1> QED
  BY <1>2, <1>3, <1>4, <1>5, <1>6, <1>7 DEF Next

LEMMA FramingInvariance == Codec => (Spec => []FramingInv)
<1> SUFFICES ASSUME Codec PROVE Spec => []FramingInv
  OBVIOUS
<1>1. Init => FramingInv
  BY InitFramed
<1>2. FramingInv /\ [Next]_vars => FramingInv'
  BY NextFramed
<1> QED
  BY <1>1, <1>2, PTL DEF Spec

(* What the reader makes of a PDU is that PDU. *)
LEMMA ReadIntact ==
  ASSUME Codec, NEW p \in Pdus
  PROVE  Intact(AsRead(p), p)
<1>1. p = [id |-> p.id, pdu_type |-> p.id, args |-> p.args]
  BY DEF Codec, WellFormed
<1> QED
  BY <1>1 DEF Intact, AsRead

(* socket_wrapper.rs: whatever pieces the stream arrives in, try_read and
   next_pdu give the owner the PDUs that were sent, in their order and with
   their values, and of datagrams that are lost and overtake one another some
   of them, none twice.  Of the codec it takes only that it reads back what it
   writes; of the buffer, that a PDU fits into it. *)
THEOREM FramesDelivered == Codec => (Spec => []FramesIntact)
<1> SUFFICES ASSUME Codec PROVE Spec => []FramesIntact
  OBVIOUS
<1>1. ASSUME FramingInv PROVE FramesIntact
  <2>1. /\ Types /\ Got \in Seq(ReadPdus) /\ Len(Got) \in Nat /\ script \in Seq(Pdus) /\ Len(script) \in Nat
        /\ sent <= Len(script) /\ sent \in Nat
    BY <1>1, TypeFacts, ScriptBytes DEF FramingInv, Types
  <2>2. CASE transport = "tcp"
    <3>1. Len(Got) <= Len(script) /\ \A i \in 1 .. Len(Got) : Got[i] = AsRead(script[i])
      BY <1>1, <2>1, <2>2 DEF FramingInv, TcpInv
    <3>2. DOMAIN Got = 1 .. Len(Got) /\ \A i \in 1 .. Len(Got) : script[i] \in Pdus
      BY <2>1, <3>1
    <3>3. \A i \in DOMAIN Got : Intact(Got[i], script[i])
      BY <3>1, <3>2, ReadIntact
    <3> QED
      BY <2>2, <3>1, <3>3 DEF FramesIntact, Got
  <2>3. CASE transport = "udp"
    <3>1. PICK f : Numbers(f, Got, script, sent)
      BY <1>1, <2>3 DEF FramingInv, UdpInv, Delivered
    <3>2. DOMAIN Got = 1 .. Len(Got) /\ \A m \in 1 .. sent : script[m] \in Pdus
      BY <2>1
    <3>3. f \in [DOMAIN Got -> 1 .. sent] /\ IsInjective(f) /\ \A i \in DOMAIN Got : Got[i] = AsRead(script[f[i]])
      BY <3>1, <3>2 DEF Numbers, IsInjective
    <3>4. \A i \in DOMAIN Got : Intact(Got[i], script[f[i]])
      BY <3>2, <3>3, ReadIntact
    <3> QED
      BY <2>3, <3>3, <3>4 DEF FramesIntact, Got
  <2> QED
    BY <2>1, <2>2, <2>3 DEF Types
<1> QED
  BY <1>1, FramingInvariance, PTL

(* pdu.rs: of well-formed PDUs only a VAL_INSERT or VAL_LOOKUP_RESPONSE makes
   the reader panic, and only when what has arrived of it ends right before
   the length of the email: try_parse checks every other length. *)
THEOREM PanicsThereOnly == Codec => (Spec => []PanicsOnlyAtEmailLength)
<1> SUFFICES ASSUME Codec PROVE Spec => []PanicsOnlyAtEmailLength
  OBVIOUS
<1>1. FramingInv => PanicsOnlyAtEmailLength
  BY DEF FramingInv, Types, TcpInv, UdpInv, PanicsOnlyAtEmailLength
<1> QED
  BY <1>1, FramingInvariance, PTL

(* socket_wrapper.rs:60 "Remote closed the connection": that is what a read of
   no bytes means as long as an incomplete PDU and all that is in flight fit
   into the buffer together; with a buffer that is one byte smaller TLC
   finds the property violated. *)
THEOREM ClosedIsClosed == Codec /\ Room => (Spec => []ClosedMeansClosed)
<1> SUFFICES ASSUME Codec, Room PROVE Spec => []ClosedMeansClosed
  OBVIOUS
<1>1. Init => ClosedMeansClosed
  BY DEF Init, ClosedMeansClosed
<1>2. ASSUME FramingInv, ClosedMeansClosed, [Next]_vars PROVE ClosedMeansClosed'
  <2>1. Types
    BY <1>2 DEF FramingInv
  <2>2. CASE ReadTcp
    <3>1. TcpInv /\ at = "poll"
      BY <1>2, <2>2 DEF FramingInv, ReadTcp
    <3>2. PICK count \in 0 .. Len(stream) :
            /\ stream' = SubSeq(stream, Len(Fitting(SubSeq(stream, 1, count))) + 1, Len(stream))
            /\ closed' = (\/ Fitting(SubSeq(stream, 1, count)) # SubSeq(stream, 1, count)
                          \/ peer = "closed" /\ count = Len(stream))
      BY <2>2 DEF ReadTcp
    <3>3. stream \in Seq(Octet) /\ buffer \in Seq(Octet) /\ Len(stream) \in Nat /\ Len(buffer) \in Nat
      BY <2>1, TypeFacts DEF Types
    <3>4. SubSeq(stream, 1, count) \in Seq(Octet) /\ Len(SubSeq(stream, 1, count)) = count
      BY <3>3, Moved
    <3>5. Len(buffer) + Len(stream) <= BUFFER_SIZE
      <4>1. Len(stream) <= Window /\ Incomplete
        BY <3>1 DEF TcpInv, Reading
      <4>2. CASE buffer = <<>>
        BY <3>3, <4>1, <4>2, FramingAssumption DEF Room
      <4>3. CASE buffer # <<>>
        <5>1. PICK p \in Pdus : Len(buffer) < Len(to_bytes(p))
          BY <4>1, <4>3 DEF Incomplete
        <5>2. Len(to_bytes(p)) \in Nat /\ Len(to_bytes(p)) - 1 + Window <= BUFFER_SIZE
          BY PduBytes DEF Room
        <5> QED
          BY <3>3, <4>1, <5>1, <5>2, FramingAssumption
      <4> QED
        BY <4>2, <4>3
    <3>6. Len(buffer) + Len(SubSeq(stream, 1, count)) <= BUFFER_SIZE
      BY <3>3, <3>4, <3>5, FramingAssumption
    <3>7. Fitting(SubSeq(stream, 1, count)) = SubSeq(stream, 1, count)
      BY <3>3, <3>4, <3>6, FittingIs
    <3>8. ASSUME closed' PROVE peer' = "closed" /\ stream' = <<>>
      <4>1. peer = "closed" /\ count = Len(stream)
        BY <3>2, <3>7, <3>8
      <4>2. stream' = SubSeq(stream, Len(stream) + 1, Len(stream))
        BY <3>2, <3>4, <3>7, <4>1
      <4> QED
        BY <2>2, <3>3, <4>1, <4>2, SubSeqEmpty DEF ReadTcp, sender
    <3> QED
      BY <3>8 DEF ClosedMeansClosed
  <2>3. CASE Write
    <3>1. transport = "tcp"
      BY <1>2, <2>1, <2>3 DEF FramingInv, UdpInv, Types, Write
    <3> QED
      BY <1>2, <2>3, <3>1 DEF ClosedMeansClosed, Write, reader, FramingInv, TcpInv
  <2>4. CASE SendTcp \/ Close \/ SendUdp
    BY <1>2, <2>4 DEF ClosedMeansClosed, SendTcp, Close, SendUdp, reader
  <2>5. CASE LoseDatagram \/ ReadUdp
    BY <1>2, <2>5 DEF ClosedMeansClosed, LoseDatagram, ReadUdp, reader, sender
  <2>6. CASE ParseOne \/ ParseNone \/ ParsePanics \/ next_pdu
    BY <1>2, <2>6 DEF ClosedMeansClosed, ParseOne, ParseNone, ParsePanics, next_pdu, sender
  <2>7. CASE UNCHANGED vars
    BY <1>2, <2>7 DEF ClosedMeansClosed, vars
  <2> QED
    BY <1>2, <2>2, <2>3, <2>4, <2>5, <2>6, <2>7 DEF Next
<1> QED
  BY <1>1, <1>2, FramingInvariance, PTL DEF Spec
=============================================================================
