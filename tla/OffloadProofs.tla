---------------------------- MODULE OffloadProofs ----------------------------
(***************************************************************************)
(* The fast path of a UDP forwarder, for any number of sessions, bursts of *)
(* any length and any limits: what the engine reads as one buffer leaves   *)
(* whole, in order and counted.  OffloadInv says that a burst being sent   *)
(* is sent up to the end of a datagram, and that the counters stand there  *)
(* too.                                                                    *)
(***************************************************************************)
EXTENDS UdpOffload, Integers, TLAPS

-----------------------------------------------------------------------------
(* The bursts of the fast path.                                            *)

\* The only positive number that is not above one.
LEMMA One == \A n \in Nat \ {0} : ~(n > 1) => n = 1
OBVIOUS

\* Products with a common factor are ordered as the other factors are.
LEMMA TimesOrdered ==
  ASSUME NEW a \in Nat, NEW b \in Nat, NEW d \in Nat, a <= b
  PROVE  a * d <= b * d /\ a * d \in Nat /\ (a < b => a * d + d <= b * d)
<1>1. PICK e \in Nat : b = a + e
  BY b = a + (b - a)
<1>2. b * d = a * d + e * d /\ e * d \in Nat /\ a * d \in Nat
  BY <1>1
<1>3. e # 0 => e * d >= d
  <2>1. CASE e = 0
    BY <2>1, Zenon
  <2>2. CASE e # 0
    <3>1. PICK h \in Nat : e = h + 1
      BY <2>2, e = (e - 1) + 1
    <3>2. e * d = h * d + d /\ h * d \in Nat
      BY <3>1
    <3>. QED
      BY <3>2
  <2>. QED
    BY <2>1, <2>2, Zenon
<1>. QED
  BY <1>1, <1>2, <1>3

\* One more factor.
LEMMA TimesNext == ASSUME NEW a \in Nat, NEW d \in Nat PROVE (a + 1) * d = a * d + d /\ a * d \in Nat
OBVIOUS

\* Counting up to a number.
LEMMA NotLast == ASSUME NEW n \in Nat, NEW k \in 1 .. n, k # n PROVE k \in 1 .. n - 1
OBVIOUS

\* A quotient is the number whose multiple is next below.
LEMMA QuotientIs ==
  ASSUME NEW x \in Nat, NEW d \in Nat \ {0}, NEW q \in Nat, q * d <= x, x < q * d + d
  PROVE  x \div d = q
<1> DEFINE p == x \div d
<1>1. p \in Nat /\ p * d <= x /\ x < p * d + d
  OBVIOUS
<1> HIDE DEF p
<1>2. ~(p < q)
  BY <1>1, TimesOrdered
<1>3. ~(q < p)
  BY <1>1, TimesOrdered
<1>. QED
  BY <1>1, <1>2, <1>3 DEF p

\* The bytes of the k-th datagram of a burst.
Datagram(b, k) == [i \in 1 .. b[k] |-> k]

\* What the assumption says of a burst.
LEMMA Burst ==
  ASSUME NEW b \in Bursts
  PROVE  /\ b \in Seq(Nat) /\ Len(b) \in Nat \ {0} /\ DOMAIN b = 1 .. Len(b)
         /\ \A k \in 1 .. Len(b) : b[k] \in Nat
         /\ Len(b) > 1 => /\ b[1] \in Nat \ {0}
                          /\ \A k \in 1 .. Len(b) : b[k] \in 1 .. b[1] /\ (k # Len(b) => b[k] = b[1])
<1>1. /\ b \in Seq(Nat) /\ b # <<>>
      /\ \A k \in 1 .. Len(b) - 1 : b[k] = b[1]
      /\ Len(b) > 1 => b[Len(b)] \in 1 .. b[1]
  BY OffloadAssumption, Zenon
<1>2. Len(b) \in Nat \ {0} /\ DOMAIN b = 1 .. Len(b) /\ \A k \in 1 .. Len(b) : b[k] \in Nat
  BY <1>1
<1>3. ASSUME Len(b) > 1
      PROVE  /\ b[1] \in Nat \ {0}
             /\ \A k \in 1 .. Len(b) : b[k] \in 1 .. b[1] /\ (k # Len(b) => b[k] = b[1])
  <2>1. b[1] \in Nat /\ b[Len(b)] \in 1 .. b[1]
    BY <1>1, <1>2, <1>3
  <2>2. b[1] \in Nat \ {0} /\ b[1] \in 1 .. b[1]
    BY <2>1
  <2>3. ASSUME NEW k \in 1 .. Len(b), k # Len(b) PROVE b[k] = b[1]
    <3>1. k \in 1 .. Len(b) - 1
      BY <1>2, <2>3, NotLast, Zenon
    <3>. QED
      BY <1>1, <3>1, Zenon
  <2>. QED
    BY <2>1, <2>2, <2>3, Zenon
<1>. QED
  BY <1>1, <1>2, <1>3, Zenon

\* A datagram as a sequence of bytes.
LEMMA DatagramSeq ==
  ASSUME NEW b \in Bursts, NEW k \in 1 .. Len(b)
  PROVE  /\ Datagram(b, k) \in Seq(Nat) /\ Len(Datagram(b, k)) = b[k]
         /\ \A i \in 1 .. b[k] : Datagram(b, k)[i] = k
BY Burst DEF Datagram

\* The buffer the kernel fills: it has the bytes of every datagram, the k-th from a
\* multiple of the segment size on.
LEMMA BurstBytes ==
  ASSUME NEW b \in Bursts
  PROVE  /\ Bytes(b) \in Seq(Nat) /\ Len(Bytes(b)) = (Len(b) - 1) * b[1] + b[Len(b)]
         /\ \A k \in 1 .. Len(b) : \A i \in 1 .. b[k] : Bytes(b)[(k - 1) * b[1] + i] = k
<1> DEFINE n == Len(b)
           s == b[1]
           len == (n - 1) * s + b[n]
<1>1. /\ n \in Nat \ {0} /\ n - 1 \in Nat /\ s \in Nat /\ b[n] \in Nat
      /\ \A k \in 1 .. n : b[k] \in Nat /\ (k # n => b[k] = s)
      /\ n > 1 => \A k \in 1 .. n : b[k] \in 1 .. s
  <2>1. /\ n \in Nat \ {0} /\ \A k \in 1 .. n : b[k] \in Nat
        /\ n > 1 => \A k \in 1 .. n : b[k] \in 1 .. s /\ (k # n => b[k] = s)
    BY Burst, Zenon
  <2>2. n - 1 \in Nat /\ 1 \in 1 .. n /\ n \in 1 .. n /\ \A k \in 1 .. n : k # n => n > 1
    BY <2>1
  <2>. QED
    BY <2>1, <2>2, Zenon
<1>2. \A k \in 1 .. n : \A i \in 1 .. b[k] : i \in Nat \ {0} /\ i <= s /\ s \in Nat \ {0}
  <2>1. ASSUME NEW k \in 1 .. n, NEW i \in 1 .. b[k] PROVE b[k] <= s
    <3>1. CASE n > 1
      BY <1>1, <3>1
    <3>2. CASE ~(n > 1)
      <4>1. n = 1
        BY <1>1, <3>2, One, Zenon
      <4>2. k = 1
        BY <4>1
      <4>. QED
        BY <1>1, <4>2
    <3>. QED
      BY <3>1, <3>2, Zenon
  <2>. QED
    BY <1>1, <2>1
<1>3. (n - 1) * s \in Nat /\ len \in Nat
  BY <1>1, TimesOrdered
<1> HIDE DEF n, s
<1>4. ASSUME NEW k \in 1 .. n, NEW i \in 1 .. b[k]
      PROVE  LET x == (k - 1) * s + i
             IN  x \in 1 .. len /\ (x - 1) \div s + 1 = k
  <2> DEFINE a == (k - 1) * s
  <2>1. k - 1 \in Nat /\ k - 1 <= n - 1 /\ i \in Nat \ {0} /\ i <= s /\ s \in Nat \ {0}
    BY <1>1, <1>2
  <2>2. a \in Nat /\ a <= (n - 1) * s /\ (k - 1 < n - 1 => a + s <= (n - 1) * s)
    BY <1>1, <2>1, TimesOrdered, Zenon
  <2> HIDE DEF a
  <2>3. a + i \in 1 .. len
    <3>1. CASE k = n
      <4>1. a = (n - 1) * s /\ i <= b[n]
        BY <1>1, <3>1 DEF a
      <4>. QED
        BY <1>1, <1>3, <2>1, <4>1
    <3>2. CASE k # n
      <4>1. a + s <= (n - 1) * s
        BY <1>1, <2>2, <3>2
      <4>. QED
        BY <1>1, <1>3, <2>1, <2>2, <4>1
    <3>. QED
      BY <3>1, <3>2, Zenon
  <2>4. (a + i) - 1 \in Nat /\ a <= (a + i) - 1 /\ (a + i) - 1 < a + s
    BY <2>1, <2>2
  <2>5. ((a + i) - 1) \div s = k - 1
    BY <2>1, <2>4, QuotientIs, Zenon DEF a
  <2>6. (k - 1) + 1 = k
    BY <1>1
  <2>. QED
    BY <2>3, <2>5, <2>6, Zenon DEF a
<1>5. \A i \in 1 .. len : (i - 1) \div s + 1 \in Nat
  <2>1. ASSUME NEW i \in 1 .. len PROVE s # 0
    BY <1>1, <1>2, <1>3
  <2>. QED
    BY <1>1, <1>3, <2>1
<1>6. Bytes(b) = [i \in 1 .. len |-> (i - 1) \div s + 1]
  BY Zenon DEF Bytes, n, s
<1> HIDE DEF len
<1>7. Bytes(b) \in Seq(Nat) /\ Len(Bytes(b)) = len /\ \A i \in 1 .. len : Bytes(b)[i] = (i - 1) \div s + 1
  BY <1>3, <1>5, <1>6
<1>8. ASSUME NEW k \in 1 .. n, NEW i \in 1 .. b[k] PROVE Bytes(b)[(k - 1) * s + i] = k
  BY <1>4, <1>7, Zenon
<1>. QED
  BY <1>7, <1>8, Zenon DEF n, s, len

\* A buffer of n stripes, each `seg' bytes long but for the last, the i-th of which
\* holds the number base + i.
StripeLen(n, seg, last, i) == IF i = n THEN last ELSE seg

Striped(data, base, n, seg, last) ==
  /\ base \in Nat /\ n \in Nat \ {0} /\ seg \in Nat \ {0} /\ last \in 1 .. seg
  /\ data \in Seq(Nat) /\ Len(data) = (n - 1) * seg + last
  /\ \A i \in 1 .. n : \A x \in 1 .. StripeLen(n, seg, last, i) : data[(i - 1) * seg + x] = base + i

\* A burst is such a buffer.
LEMMA BurstStriped ==
  ASSUME NEW b \in Bursts, Len(b) > 1
  PROVE  /\ Striped(Bytes(b), 0, Len(b), b[1], b[Len(b)])
         /\ \A k \in 1 .. Len(b) : b[k] = StripeLen(Len(b), b[1], b[Len(b)], k)
<1>1. /\ Len(b) \in Nat \ {0} /\ b[1] \in Nat \ {0}
      /\ \A k \in 1 .. Len(b) : b[k] \in 1 .. b[1] /\ (k # Len(b) => b[k] = b[1])
  BY Burst, Zenon
<1>2. \A k \in 1 .. Len(b) : b[k] = StripeLen(Len(b), b[1], b[Len(b)], k)
  BY <1>1, Zenon DEF StripeLen
<1>3. /\ Bytes(b) \in Seq(Nat) /\ Len(Bytes(b)) = (Len(b) - 1) * b[1] + b[Len(b)]
      /\ \A k \in 1 .. Len(b) : \A i \in 1 .. b[k] : Bytes(b)[(k - 1) * b[1] + i] = k
  BY BurstBytes, Zenon
<1>4. \A k \in 1 .. Len(b) : 0 + k = k
  BY <1>1
<1>5. b[Len(b)] \in 1 .. b[1]
  BY <1>1
<1>6. ASSUME NEW k \in 1 .. Len(b), NEW i \in 1 .. StripeLen(Len(b), b[1], b[Len(b)], k)
      PROVE  Bytes(b)[(k - 1) * b[1] + i] = 0 + k
  BY <1>2, <1>3, <1>4, <1>6, Zenon
<1>. QED
  BY <1>1, <1>2, <1>3, <1>5, <1>6, Zenon DEF Striped

\* Stripe i of n ends a stripe further on, or where the buffer does.
StripeEnd(n, seg, last, i) ==
  LET len == (n - 1) * seg + last
      to  == (i - 1) * seg + StripeLen(n, seg, last, i)
  IN  /\ len \in Nat /\ (i - 1) * seg \in Nat /\ to \in Nat
      /\ Smaller((i - 1) * seg + seg, len) = to
      /\ i * seg = (i - 1) * seg + seg
      /\ i # n => i * seg < len

\* Where a stripe ends.
LEMMA StripeEnds ==
  ASSUME NEW n \in Nat \ {0}, NEW seg \in Nat \ {0}, NEW last \in 1 .. seg, NEW i \in 1 .. n
  PROVE  StripeEnd(n, seg, last, i)
<1> DEFINE a == (i - 1) * seg
           z == (n - 1) * seg
<1>1. n - 1 \in Nat /\ i - 1 \in Nat /\ i - 1 <= n - 1 /\ (i # n => i - 1 < n - 1)
  OBVIOUS
<1>2. a \in Nat /\ a <= z /\ (i # n => a + seg <= z)
  BY <1>1, TimesOrdered, Zenon
<1>3. z \in Nat /\ (i = n => a = z)
  BY <1>1, TimesOrdered
<1>4. i * seg = a + seg
  <2>1. ((i - 1) + 1) * seg = (i - 1) * seg + seg
    BY <1>1, TimesNext, Zenon
  <2>2. (i - 1) + 1 = i
    OBVIOUS
  <2>. QED
    BY <2>1, <2>2, Zenon
<1> HIDE DEF a, z
<1>5. /\ z + last \in Nat /\ a + StripeLen(n, seg, last, i) \in Nat
      /\ Smaller(a + seg, z + last) = a + StripeLen(n, seg, last, i)
      /\ i # n => a + seg < z + last
  BY <1>2, <1>3 DEF StripeLen, Smaller
<1>. QED
  BY <1>2, <1>4, <1>5, Zenon DEF a, z, StripeEnd

\* What a part of a sequence is.
LEMMA PartOf ==
  ASSUME NEW data \in Seq(Nat), NEW from \in Nat, NEW len \in Nat, from + len <= Len(data)
  PROVE  /\ SubSeq(data, from + 1, from + len) = [x \in 1 .. len |-> data[from + x]]
         /\ SubSeq(data, from + 1, from + len) \in Seq(Nat)
         /\ Len(SubSeq(data, from + 1, from + len)) = len
<1>1. (from + len) - (from + 1) + 1 = len /\ \A x \in 1 .. len : (from + 1) + x - 1 = from + x
  OBVIOUS
<1>2. SubSeq(data, from + 1, from + len) = [x \in 1 .. len |-> data[from + x]]
  BY <1>1
<1>3. \A x \in 1 .. len : data[from + x] \in Nat
  OBVIOUS
<1>. QED
  BY <1>2, <1>3

\* The pieces of a striped buffer are its stripes.
LEMMA StripeSlice ==
  ASSUME NEW data, NEW base, NEW n, NEW seg, NEW last, Striped(data, base, n, seg, last), NEW i \in 1 .. n
  PROVE  Slice(data, (i - 1) * seg, seg) = [x \in 1 .. StripeLen(n, seg, last, i) |-> base + i]
<1> DEFINE a == (i - 1) * seg
           len == StripeLen(n, seg, last, i)
<1>1. /\ a \in Nat /\ Smaller(a + seg, Len(data)) = a + len
      /\ Len(data) \in Nat
  <2>1. StripeEnd(n, seg, last, i) /\ Len(data) = (n - 1) * seg + last
    BY StripeEnds, Zenon DEF Striped
  <2>. QED
    BY <2>1, Zenon DEF StripeEnd
<1>2. len \in Nat
  BY DEF Striped, StripeLen
<1>3. data \in Seq(Nat) /\ \A x \in 1 .. len : data[a + x] = base + i
  BY Zenon DEF Striped
<1>4. seg \in Nat
  BY Zenon DEF Striped
<1> HIDE DEF a, len
<1>5. a + len <= Len(data)
  BY <1>1, <1>2, <1>4 DEF Smaller
<1>6. SubSeq(data, a + 1, a + len) = [x \in 1 .. len |-> data[a + x]]
  BY <1>1, <1>2, <1>3, <1>5, PartOf, Zenon
<1>7. [x \in 1 .. len |-> data[a + x]] = [x \in 1 .. len |-> base + i]
  BY <1>3, Zenon
<1>8. Slice(data, a, seg) = [x \in 1 .. len |-> base + i]
  BY <1>1, <1>6, <1>7, Zenon DEF Slice
<1>. QED
  BY <1>8, Zenon DEF a, len

\* Dividing the length of a striped buffer by that of a stripe, rounding up, counts
\* the stripes.
LEMMA StripeCount ==
  ASSUME NEW data, NEW base, NEW n, NEW seg, NEW last, Striped(data, base, n, seg, last)
  PROVE  /\ (Len(data) + seg - 1) \div seg = n
         /\ segments(Len(data), seg) = n
         /\ Len(data) > seg <=> n # 1
<1> DEFINE z == (n - 1) * seg
<1>1. /\ n \in Nat /\ n # 0 /\ n - 1 \in Nat /\ seg \in Nat \ {0} /\ last \in 1 .. seg /\ Len(data) = z + last
  BY DEF Striped
<1>2. z \in Nat /\ n * seg = z + seg /\ (n = 1 => z = 0) /\ (n # 1 => z >= seg)
  <2>1. z \in Nat /\ ((n - 1) + 1) * seg = z + seg
    BY <1>1, TimesNext, Zenon
  <2>2. (n - 1) + 1 = n
    BY <1>1
  <2>3. n = 1 => z = 0
    BY <1>1
  <2>4. ASSUME n # 1 PROVE z >= seg
    <3>1. 0 \in Nat /\ 0 < n - 1 /\ 0 <= n - 1
      BY <1>1, <2>4
    <3>2. 0 * seg + seg <= z
      BY <1>1, <3>1, TimesOrdered, Zenon
    <3>3. 0 * seg = 0
      BY <1>1
    <3>. QED
      BY <1>1, <2>1, <3>2, <3>3
  <2>. QED
    BY <2>1, <2>2, <2>3, <2>4, Zenon
<1> HIDE DEF z
<1>3. /\ n * seg <= Len(data) + seg - 1 /\ Len(data) + seg - 1 < n * seg + seg
      /\ Len(data) + seg - 1 \in Nat
  BY <1>1, <1>2
<1>4. (Len(data) + seg - 1) \div seg = n
  BY <1>1, <1>3, QuotientIs, Zenon
<1>5. Len(data) > seg <=> n # 1
  BY <1>1, <1>2
<1>6. segments(Len(data), seg) = n
  BY <1>1, <1>2, <1>4, <1>5 DEF segments, is_coalesced
<1>. QED
  BY <1>4, <1>5, <1>6, Zenon

\* Stripes m + 1 to e are what c stripes' bytes from the end of stripe m hold.
ChunkEnd(n, seg, last, m, c, e) ==
  LET to == (e - 1) * seg + StripeLen(n, seg, last, e)
  IN  /\ Smaller(m * seg + seg * c, (n - 1) * seg + last) = to
      /\ to <= (n - 1) * seg + last
      /\ (e - 1) * seg = m * seg + (e - m - 1) * seg
      /\ m * seg \in Nat /\ (e - m - 1) * seg \in Nat

\* Where some stripes from a boundary on end.
LEMMA ChunkEnds ==
  ASSUME NEW n \in Nat \ {0}, NEW seg \in Nat \ {0}, NEW last \in 1 .. seg,
         NEW m \in 0 .. n - 1, NEW c \in Nat \ {0}, NEW e \in m + 1 .. n,
         m + c <= n => e = m + c, n < m + c => e = n
  PROVE  ChunkEnd(n, seg, last, m, c, e)
<1>1. e \in 1 .. n /\ e - 1 \in Nat /\ m \in Nat /\ e - m - 1 \in Nat /\ e - 1 = m + (e - m - 1)
  OBVIOUS
<1>2. PICK w \in 1 .. seg : w = StripeLen(n, seg, last, e)
  BY DEF StripeLen
<1>10. StripeEnd(n, seg, last, e)
  BY <1>1, StripeEnds, Zenon
<1>3. PICK len \in Nat, b \in Nat : len = (n - 1) * seg + last /\ b = (e - 1) * seg
  BY <1>10, Zenon DEF StripeEnd
<1>4. /\ Smaller(b + seg, len) = b + w
      /\ e * seg = b + seg /\ (e # n => e * seg < len)
  <2>1. /\ Smaller((e - 1) * seg + seg, (n - 1) * seg + last) = (e - 1) * seg + StripeLen(n, seg, last, e)
        /\ e * seg = (e - 1) * seg + seg /\ (e # n => e * seg < (n - 1) * seg + last)
    BY <1>10, Zenon DEF StripeEnd
  <2>. QED
    BY <1>2, <1>3, <2>1, Zenon
<1>5. PICK h \in Nat : h = (m + c) * seg
  BY <1>1, TimesOrdered
<1>6. m * seg + seg * c = h
  BY <1>1, <1>5
<1>7. Smaller(h, len) = b + w
  <2>1. CASE m + c <= n
    <3>1. e = m + c
      BY <2>1, Zenon
    <3>2. h = b + seg
      BY <1>4, <1>5, <3>1, Zenon
    <3>. QED
      BY <1>4, <3>2, Zenon
  <2>2. CASE n < m + c
    <3>1. e = n
      BY <2>2, Zenon
    <3>2. n * seg <= h
      <4>1. n \in Nat /\ m + c \in Nat /\ seg \in Nat /\ n <= m + c
        BY <1>1, <2>2
      <4>2. n * seg <= (m + c) * seg
        BY <4>1, TimesOrdered, Zenon
      <4>. QED
        BY <1>5, <4>2, Zenon
    <3>3. n * seg = b + seg /\ len = b + last /\ w = last
      BY <1>2, <1>3, <1>4, <3>1, Zenon DEF StripeLen
    <3>. QED
      BY <3>2, <3>3 DEF Smaller
  <2>. QED
    BY <1>1, <2>1, <2>2
<1>8. b + w <= len
  BY <1>5, <1>7 DEF Smaller
<1>9. (e - 1) * seg = m * seg + (e - m - 1) * seg /\ m * seg \in Nat /\ (e - m - 1) * seg \in Nat
  <2>1. PICK v \in Nat : v = e - m - 1 /\ e - 1 = m + v
    BY <1>1, Zenon
  <2>2. (m + v) * seg = m * seg + v * seg /\ m * seg \in Nat /\ v * seg \in Nat
    BY <1>1
  <2>. QED
    BY <2>1, <2>2, Zenon
<1>. QED
  BY <1>2, <1>3, <1>6, <1>7, <1>8, <1>9, Zenon DEF ChunkEnd

\* Some stripes from a boundary on are a striped buffer.
LEMMA StripeChunk ==
  ASSUME NEW data, NEW base, NEW n, NEW seg, NEW last, Striped(data, base, n, seg, last),
         NEW m \in 0 .. n - 1, NEW c \in Nat \ {0}, NEW e \in m + 1 .. n,
         m + c <= n => e = m + c, n < m + c => e = n
  PROVE  Striped(Slice(data, m * seg, seg * c), base + m, e - m, seg, StripeLen(n, seg, last, e))
<1> DEFINE part == Slice(data, m * seg, seg * c)
<1>1. /\ n \in Nat \ {0} /\ seg \in Nat \ {0} /\ last \in 1 .. seg /\ base \in Nat /\ m \in Nat
      /\ data \in Seq(Nat) /\ Len(data) = (n - 1) * seg + last
  BY DEF Striped
<1>2. PICK w \in 1 .. seg : w = StripeLen(n, seg, last, e)
  BY <1>1 DEF StripeLen
<1>3. /\ Smaller(m * seg + seg * c, Len(data)) = (e - 1) * seg + w
      /\ (e - 1) * seg + w <= Len(data)
      /\ (e - 1) * seg = m * seg + (e - m - 1) * seg
      /\ m * seg \in Nat /\ (e - m - 1) * seg \in Nat
  <2>1. ChunkEnd(n, seg, last, m, c, e)
    BY <1>1, ChunkEnds, Zenon
  <2>. QED
    BY <1>1, <1>2, <2>1, Zenon DEF ChunkEnd
<1>4. PICK a \in Nat, k \in Nat : a = m * seg /\ k = (e - m - 1) * seg
  BY <1>3, Zenon
<1>5. PICK u \in Nat : u = k + w /\ Smaller(a + seg * c, Len(data)) = a + u /\ a + u <= Len(data)
  <2>1. (a + k) + w = a + (k + w) /\ k + w \in Nat
    BY <1>2, <1>4
  <2>. QED
    BY <1>3, <1>4, <2>1, Zenon
<1>6. /\ part = [x \in 1 .. u |-> data[a + x]]
      /\ part \in Seq(Nat) /\ Len(part) = u
  <2>1. part = SubSeq(data, a + 1, a + u)
    BY <1>4, <1>5, Zenon DEF Slice
  <2>2. /\ SubSeq(data, a + 1, a + u) = [x \in 1 .. u |-> data[a + x]]
        /\ SubSeq(data, a + 1, a + u) \in Seq(Nat)
        /\ Len(SubSeq(data, a + 1, a + u)) = u
    <3>1. a + u <= Len(data) /\ data \in Seq(Nat)
      BY <1>1, <1>5, Zenon
    <3>. QED
      BY <3>1, PartOf
  <2>. QED
    BY <2>1, <2>2, Zenon
<1> HIDE DEF part
<1>11. n \in Nat /\ m \in Nat /\ e \in Nat /\ m < e /\ e <= n
  BY <1>1
<1>7. PICK q \in Nat \ {0} : q = e - m /\ k = (q - 1) * seg
  <2>1. e - m \in Nat \ {0} /\ (e - m) - 1 = e - m - 1
    BY <1>11
  <2>. QED
    BY <1>4, <2>1, Zenon
<1>8. ASSUME NEW i \in 1 .. q, NEW x \in 1 .. StripeLen(q, seg, w, i)
      PROVE  part[(i - 1) * seg + x] = (base + m) + i
  <2>1. i - 1 \in Nat /\ m + i \in 1 .. n /\ (m + i) - 1 = m + (i - 1) /\ (i = q <=> m + i = e)
    <3>1. q = e - m
      BY <1>7, Zenon
    <3>. QED
      BY <1>11, <3>1
  <2>2. PICK y \in Nat : y = (i - 1) * seg /\ ((m + i) - 1) * seg = a + y
    BY <1>1, <1>4, <2>1
  <2>3. PICK l \in Nat : l = StripeLen(q, seg, w, i)
    BY <1>1, <1>2 DEF StripeLen
  <2>4. l = StripeLen(n, seg, last, m + i)
    <3>1. CASE i = q
      BY <1>2, <2>1, <2>3, <3>1, Zenon DEF StripeLen
    <3>2. CASE i # q
      <4>1. m + i # n
        BY <1>11, <1>7, <3>2
      <4>. QED
        BY <2>3, <3>2, <4>1, Zenon DEF StripeLen
    <3>. QED
      BY <3>1, <3>2, Zenon
  <2>5. data[((m + i) - 1) * seg + x] = base + (m + i)
    BY <1>8, <2>1, <2>3, <2>4, Zenon DEF Striped
  <2>6. y + x \in 1 .. k + w
    <3>1. Smaller(y + seg, k + w) = y + l
      <4>1. Smaller((i - 1) * seg + seg, (q - 1) * seg + w) = (i - 1) * seg + StripeLen(q, seg, w, i)
        <5>1. StripeEnd(q, seg, w, i)
          BY <1>1, <1>2, StripeEnds, Zenon
        <5>. QED
          BY <5>1, Zenon DEF StripeEnd
      <4>. QED
        BY <1>7, <2>2, <2>3, <4>1, Zenon
    <3>2. y + l <= k + w
      <4>1. seg \in Nat /\ w \in Nat
        BY <1>1, <1>2
      <4>. QED
        BY <2>3, <3>1, <4>1 DEF Smaller
    <3>. QED
      BY <1>2, <1>8, <2>3, <3>2
  <2>7. part[y + x] = data[a + (y + x)]
    BY <1>5, <1>6, <2>6, Zenon
  <2>8. a + (y + x) = (a + y) + x /\ base + (m + i) = (base + m) + i
    BY <1>1, <1>8, <2>3, <2>1
  <2>. QED
    BY <2>2, <2>5, <2>7, <2>8, Zenon
<1>9. base + m \in Nat
  BY <1>1
<1>10. Striped(part, base + m, q, seg, w)
  BY <1>1, <1>2, <1>5, <1>6, <1>7, <1>8, <1>9, Zenon DEF Striped
<1>. QED
  BY <1>2, <1>7, <1>10, Zenon DEF part

\* The n stripes of a buffer.
Stripes(p, base, n, seg, last) ==
  /\ p \in Seq(Seq(Nat)) /\ Len(p) = n
  /\ \A i \in 1 .. n : p[i] = [x \in 1 .. StripeLen(n, seg, last, i) |-> base + i]

\* Cutting a striped buffer yields its stripes, be it sent in one piece or several.
LEMMA StripeSplit ==
  ASSUME NEW data, NEW base, NEW n, NEW seg, NEW last, Striped(data, base, n, seg, last)
  PROVE  Stripes(Chunks(data, IF Len(data) > seg THEN seg ELSE 0), base, n, seg, last)
<1> DEFINE stripe(i) == [x \in 1 .. StripeLen(n, seg, last, i) |-> base + i]
           p == Chunks(data, IF Len(data) > seg THEN seg ELSE 0)
<1>1. n \in Nat \ {0} /\ seg \in Nat \ {0} /\ last \in 1 .. seg /\ base \in Nat /\ data \in Seq(Nat)
  BY Zenon DEF Striped
<1>2. /\ (Len(data) + seg - 1) \div seg = n
      /\ Len(data) > seg <=> n # 1
  BY StripeCount, Zenon
<1>3. \A i \in 1 .. n : Slice(data, (i - 1) * seg, seg) = stripe(i)
  BY StripeSlice
<1>4. \A i \in 1 .. n : stripe(i) \in Seq(Nat)
  BY <1>1 DEF StripeLen
<1> HIDE DEF stripe
<1>5. p = [i \in 1 .. n |-> stripe(i)]
  <2>1. CASE n # 1
    <3>1. p = [i \in 1 .. n |-> Slice(data, (i - 1) * seg, seg)]
      BY <1>1, <1>2, <2>1, Zenon DEF Chunks
    <3>. QED
      BY <1>3, <3>1, Zenon
  <2>2. CASE n = 1
    <3>1. p = <<data>>
      BY <1>2, <2>2, Zenon DEF Chunks
    <3>2. Slice(data, 0, seg) = stripe(1)
      BY <1>1, <1>3, <2>2
    <3>3. Len(data) = last
      BY <1>1, <2>2 DEF Striped
    <3>4. Slice(data, 0, seg) = data
      BY <1>1, <3>3 DEF Slice, Smaller
    <3>. QED
      BY <2>2, <3>1, <3>2, <3>4
  <2>. QED
    BY <2>1, <2>2, Zenon
<1> HIDE DEF p
<1>6. p \in Seq(Seq(Nat)) /\ Len(p) = n /\ \A i \in 1 .. n : p[i] = stripe(i)
  BY <1>1, <1>4, <1>5
<1>. QED
  BY <1>6, Zenon DEF p, stripe, Stripes

-----------------------------------------------------------------------------
\* The invariant of a flow.

\* What left is among the first m datagrams that came, in their order.
Sent(came, wire, m) ==
  /\ wire \in Seq(Seq(Nat)) /\ Len(wire) <= m
  /\ \A i \in 1 .. Len(wire) : \E k \in 1 .. m : wire[i] = Datagram(came, k)
  /\ \A i, k \in 1 .. Len(wire) : i < k => wire[i][1] < wire[k][1]

Job == [pc : {"idle", "gso", "plain", "blocked", "done"}, data : Seq(Nat), segment : Nat, from : Nat,
        came : Seq(Nat), wire : Seq(Seq(Nat)), datagrams : Nat, dropped : Int, cut : Int]

\* A buffer being sent: it is sent up to the end of a datagram, and the datagrams up
\* to there are counted.
Going(j) ==
  LET m == j.datagrams + j.dropped
  IN  /\ j.came \in Bursts /\ j.data = Bytes(j.came)
      /\ j.segment = IF Len(j.came) > 1 THEN j.came[1] ELSE 0
      /\ j.dropped \in Nat /\ m < Len(j.came) /\ j.from = m * j.segment
      /\ j.datagrams = Len(j.wire) /\ Sent(j.came, j.wire, m)
      /\ j.cut = 0
      /\ j.pc = "gso" => j.dropped = 0 /\ Len(j.came) > 1

Done(j) ==
  /\ j.came \in Bursts
  /\ j.datagrams = Len(j.wire) /\ j.datagrams + j.dropped + j.cut = Len(j.came)
  /\ Sent(j.came, j.wire, Len(j.came))

JobInv(j) ==
  /\ j \in Job
  /\ j.pc = "idle" => j = Idle
  /\ j.pc \in {"gso", "plain", "blocked"} => Going(j)
  /\ j.pc = "done" => Done(j)

\* A listener with UDP_GRO set is read as such.
OffloadInv ==
  /\ off \in [gro_set : BOOLEAN, enabled : BOOLEAN, gro_aware : BOOLEAN, unsupported : BOOLEAN, gso_ok : BOOLEAN]
  /\ off.gro_set => off.gro_aware
  /\ DOMAIN job = Flow /\ \A f \in Flow : JobInv(job[f])

\* The datagrams after the first m, up to the e-th.
NextParts(b, parts, m, e) ==
  /\ parts \in Seq(Seq(Nat)) /\ Len(parts) = e - m
  /\ \A i \in 1 .. e - m : parts[i] = Datagram(b, m + i)

\* What is sent more, if it is what comes next.
LEMMA SentMore ==
  ASSUME NEW b \in Bursts, Len(b) > 1, NEW wire, NEW m \in Nat, Sent(b, wire, m),
         NEW e \in Nat, m <= e, e <= Len(b), NEW parts, NextParts(b, parts, m, e)
  PROVE  Sent(b, wire \o parts, e)
<1> DEFINE all == wire \o parts
           l == Len(wire)
<1>1. wire \in Seq(Seq(Nat)) /\ l \in Nat /\ l <= m
  BY DEF Sent
<1>0. /\ parts \in Seq(Seq(Nat)) /\ Len(parts) = e - m
      /\ \A i \in 1 .. e - m : parts[i] = Datagram(b, m + i)
  BY Zenon DEF NextParts
<1>2. /\ all \in Seq(Seq(Nat)) /\ Len(all) = l + (e - m)
      /\ \A i \in 1 .. Len(all) : all[i] = IF i <= l THEN wire[i] ELSE parts[i - l]
  BY <1>0, <1>1
<1>3. \A k \in 1 .. Len(b) : Datagram(b, k)[1] = k
  <2>1. \A k \in 1 .. Len(b) : 1 \in 1 .. b[k]
    BY Burst
  <2>. QED
    BY <2>1, DatagramSeq
<1>4. \A i \in 1 .. l : \E k \in 1 .. m : wire[i] = Datagram(b, k)
  BY Zenon DEF Sent
<1>5. \A i, k \in 1 .. l : i < k => wire[i][1] < wire[k][1]
  BY Zenon DEF Sent
<1> HIDE DEF all, l
<1>6. \A i \in 1 .. Len(all) : \E k \in 1 .. e :
        all[i] = Datagram(b, k) /\ (i <= l => k <= m) /\ (i > l => k = m + (i - l))
  <2>. SUFFICES ASSUME NEW i \in 1 .. Len(all)
                PROVE  \E k \in 1 .. e : all[i] = Datagram(b, k) /\ (i <= l => k <= m) /\ (i > l => k = m + (i - l))
    BY Zenon
  <2>1. CASE i <= l
    <3>0. i \in 1 .. l /\ i \in Nat /\ ~(i > l)
      BY <1>1, <1>2, <2>1
    <3>1. PICK k \in 1 .. m : wire[i] = Datagram(b, k)
      BY <1>4, <3>0, Zenon
    <3>2. k \in 1 .. e /\ k <= m
      BY <3>1
    <3>3. all[i] = wire[i]
      BY <1>2, <2>1, Zenon
    <3>. QED
      BY <2>1, <3>0, <3>1, <3>2, <3>3, Zenon
  <2>2. CASE i > l
    <3>1. i - l \in 1 .. e - m /\ m + (i - l) \in 1 .. e
      BY <1>1, <1>2, <2>2
    <3>2. all[i] = Datagram(b, m + (i - l))
      BY <1>0, <1>1, <1>2, <2>2, <3>1
    <3>. QED
      BY <1>1, <2>2, <3>1, <3>2
  <2>. QED
    BY <1>1, <1>2, <2>1, <2>2
<1>7. ASSUME NEW i \in 1 .. Len(all), NEW k \in 1 .. Len(all), i < k
      PROVE  all[i][1] < all[k][1]
  <2>0. i \in Nat /\ k \in Nat /\ 1 <= i /\ 1 <= k
    BY <1>2
  <2>1. CASE k <= l
    <3>1. i \in 1 .. l /\ k \in 1 .. l /\ i <= l
      BY <1>1, <1>7, <2>0, <2>1
    <3>2. all[i] = wire[i] /\ all[k] = wire[k]
      BY <1>2, <2>1, <3>1, Zenon
    <3>. QED
      BY <1>5, <1>7, <3>1, <3>2, Zenon
  <2>2. CASE k > l
    <3>1. PICK x \in 1 .. e : all[i] = Datagram(b, x) /\ (i <= l => x <= m) /\ (i > l => x = m + (i - l))
      BY <1>6, Zenon
    <3>2. PICK y \in 1 .. e : all[k] = Datagram(b, y) /\ y = m + (k - l)
      BY <1>6, <2>2, Zenon
    <3>3. x < y
      <4>1. i <= l \/ i > l
        BY <1>1, <2>0
      <4>. QED
        BY <1>1, <1>7, <2>0, <2>2, <3>1, <3>2, <4>1
    <3>5. x \in 1 .. Len(b) /\ y \in 1 .. Len(b)
      <4>1. Len(b) \in Nat
        BY Burst, Zenon
      <4>. QED
        BY <4>1
    <3>4. all[i][1] = x /\ all[k][1] = y
      BY <1>3, <3>1, <3>2, <3>5, Zenon
    <3>. QED
      BY <3>3, <3>4, Zenon
  <2>. QED
    BY <1>1, <1>2, <2>1, <2>2
<1>8. Len(all) <= e
  BY <1>1, <1>2
<1>9. Sent(b, all, e)
  BY <1>2, <1>6, <1>7, <1>8, Zenon DEF Sent
<1>. QED
  BY <1>9, Zenon DEF all

\* What is left out.
LEMMA SentLess ==
  ASSUME NEW b, NEW wire, NEW m \in Nat, Sent(b, wire, m), NEW e \in Nat, m <= e
  PROVE  Sent(b, wire, e)
<1>1. \A k \in 1 .. m : k \in 1 .. e
  OBVIOUS
<1>2. wire \in Seq(Seq(Nat)) /\ Len(wire) <= m
  BY Zenon DEF Sent
<1>3. Len(wire) <= e
  BY <1>2
<1>4. \A i \in 1 .. Len(wire) : \E k \in 1 .. e : wire[i] = Datagram(b, k)
  BY <1>1, Zenon DEF Sent
<1>5. \A i, k \in 1 .. Len(wire) : i < k => wire[i][1] < wire[k][1]
  BY Zenon DEF Sent
<1>. QED
  BY <1>2, <1>3, <1>4, <1>5, Zenon DEF Sent

\* Counting the stripes after the first m, from the bytes left and from those sent.
RestCounted(n, seg, last, m) ==
  /\ segments(((n - 1) * seg + last) - m * seg, seg) = n - m
  /\ segments((n - 1) * seg + last, seg) - (m * seg) \div seg = n - m

\* The number of stripes from a boundary on.
LEMMA RestCount ==
  ASSUME NEW n \in Nat \ {0}, NEW seg \in Nat \ {0}, NEW last \in 1 .. seg, NEW m \in 0 .. n - 1
  PROVE  RestCounted(n, seg, last, m)
<1> DEFINE len(k) == (k - 1) * seg + last
<1>1. ASSUME NEW k \in Nat \ {0} PROVE segments(len(k), seg) = k
  <2>1. CASE k = 1
    <3>1. len(k) = last
      BY <2>1
    <3>. QED
      BY <2>1, <3>1 DEF segments, is_coalesced
  <2>2. CASE k # 1
    <3>1. PICK z \in Nat : z = (k - 1) * seg /\ z >= seg /\ k * seg = z + seg
      <4>1. k - 1 \in Nat /\ (k - 1) + 1 = k /\ 0 \in Nat /\ 0 < k - 1 /\ 0 <= k - 1
        BY <2>2
      <4>2. ((k - 1) + 1) * seg = (k - 1) * seg + seg /\ (k - 1) * seg \in Nat
        BY <4>1, TimesNext, Zenon
      <4>3. 0 * seg + seg <= (k - 1) * seg
        BY <4>1, TimesOrdered, Zenon
      <4>4. 0 * seg = 0
        OBVIOUS
      <4>. QED
        BY <4>1, <4>2, <4>3, <4>4
    <3>2. (z + last + seg - 1) \div seg = k
      <4>1. /\ k * seg <= z + last + seg - 1 /\ z + last + seg - 1 < k * seg + seg
            /\ z + last + seg - 1 \in Nat
        BY <3>1
      <4>. QED
        BY <4>1, QuotientIs, Zenon
    <3>3. is_coalesced(z + last, seg)
      BY <3>1 DEF is_coalesced
    <3>. QED
      BY <3>1, <3>2, <3>3, Zenon DEF segments
  <2>. QED
    BY <2>1, <2>2, Zenon
<1>2. m \in Nat /\ n - m \in Nat \ {0} /\ n - 1 = m + (n - m - 1) /\ n - m - 1 \in Nat
  OBVIOUS
<1>3. ((n - 1) * seg + last) - m * seg = len(n - m)
  <2>1. PICK v \in Nat : v = n - m - 1 /\ n - 1 = m + v
    BY <1>2, Zenon
  <2>2. (m + v) * seg = m * seg + v * seg /\ m * seg \in Nat /\ v * seg \in Nat
    BY <1>2
  <2>. QED
    BY <2>1, <2>2
<1>4. (m * seg) \div seg = m
  <2>1. PICK x \in Nat : x = m * seg
    BY <1>2
  <2>2. x \div seg = m
    BY <1>2, <2>1, QuotientIs
  <2>. QED
    BY <2>1, <2>2, Zenon
<1>5. segments(len(n - m), seg) = n - m /\ segments(len(n), seg) = n
  BY <1>1, <1>2, Zenon
<1>. QED
  BY <1>3, <1>4, <1>5, Zenon DEF RestCounted

\* A buffer that was read.
LEMMA ReadJob ==
  ASSUME NEW b \in Bursts, NEW parses, NEW gso_ok, NEW lost, Len(b) > 1 => parses
  PROVE  JobInv(recv(b, parses, gso_ok, lost))
<1> DEFINE trunc   == parses /\ Len(Bytes(b)) > GRO_BUF_BYTES
           data    == IF trunc THEN Slice(Bytes(b), 0, GRO_BUF_BYTES) ELSE Bytes(b)
           segment == IF parses /\ Len(b) > 1 THEN b[1] ELSE 0
           count   == segments(Len(data), segment)
           mode    == IF is_coalesced(Len(data), segment) /\ gso_ok THEN "gso" ELSE "plain"
           cut     == IF trunc THEN Len(b) - count ELSE 0
           read    == [Idle EXCEPT !.data = data, !.segment = segment, !.came = b]
           lostjob == [read EXCEPT !.pc = "done", !.dropped = count, !.cut = cut]
           job0    == [read EXCEPT !.pc = mode]
<1>1. recv(b, parses, gso_ok, lost) = IF trunc \/ lost THEN lostjob ELSE job0
  BY Zenon DEF recv
<1>2. /\ b \in Seq(Nat) /\ Len(b) \in Nat /\ Len(b) > 0
      /\ segment = (IF Len(b) > 1 THEN b[1] ELSE 0) /\ segment \in Nat /\ (Len(b) > 1 => segment # 0)
  BY Burst
<1>3. Bytes(b) \in Seq(Nat)
  BY BurstBytes, Zenon
<1>4. GRO_BUF_BYTES \in Nat
  BY OffloadAssumption, Zenon
<1>5. data \in Seq(Nat) /\ Len(data) \in Nat
  BY <1>3, <1>4 DEF Slice, Smaller
<1>6. count \in Int
  <2> HIDE DEF data, segment
  <2>. QED
    BY <1>2, <1>5 DEF segments, is_coalesced
<1>7. ~trunc => count = Len(b) /\ (is_coalesced(Len(data), segment) => Len(b) > 1)
  <2>. SUFFICES ASSUME ~trunc
                PROVE  count = Len(b) /\ (is_coalesced(Len(data), segment) => Len(b) > 1)
    BY Zenon
  <2>1. data = Bytes(b)
    BY Zenon
  <2>2. CASE Len(b) > 1
    <3>1. segment = b[1]
      BY <2>2, Zenon
    <3>2. segments(Len(Bytes(b)), b[1]) = Len(b)
      BY <2>2, BurstStriped, StripeCount, Zenon
    <3>. QED
      BY <2>1, <2>2, <3>1, <3>2, Zenon
  <2>3. CASE ~(Len(b) > 1)
    <3>1. segment = 0 /\ Len(b) = 1
      <4>1. segment = 0
        BY <1>2, <2>3, Zenon
      <4>2. Len(b) \in Nat \ {0}
        BY Burst, Zenon
      <4>. QED
        BY <2>3, <4>1, <4>2, One, Zenon
    <3>. QED
      BY <3>1 DEF segments, is_coalesced
  <2>. QED
    BY <2>2, <2>3, Zenon
<1>8. Sent(b, <<>>, 0) /\ Sent(b, <<>>, Len(b))
  BY <1>2 DEF Sent
<1>11. /\ read \in Job /\ read.came = b /\ read.data = data /\ read.segment = segment /\ read.from = 0
       /\ read.wire = <<>> /\ read.datagrams = 0 /\ read.dropped = 0 /\ read.cut = 0
  <2> HIDE DEF data, segment
  <2>1. Idle \in Job
    BY DEF Idle, Job
  <2>2. read \in Job
    BY <1>2, <1>5, <2>1, Zenon DEF Job
  <2>. QED
    BY <2>2, Zenon DEF Idle
<1>9. CASE trunc \/ lost
  <2>1. 0 + count + cut = Len(b) /\ cut \in Int
    <3> HIDE DEF count
    <3>. QED
      BY <1>2, <1>6, <1>7
  <2> HIDE DEF trunc, data, segment, count, cut, read
  <2>2. lostjob \in Job /\ lostjob.pc = "done"
    BY <1>6, <1>11, <2>1, Zenon DEF Job
  <2>4. /\ lostjob.came = b /\ lostjob.wire = <<>> /\ lostjob.datagrams = 0
        /\ lostjob.dropped = count /\ lostjob.cut = cut
    BY <1>11, Zenon DEF Job
  <2>3. Done(lostjob)
    BY <1>8, <2>1, <2>4 DEF Done
  <2> HIDE DEF lostjob
  <2>. QED
    BY <1>1, <1>9, <2>2, <2>3, Zenon DEF JobInv
<1>10. CASE ~(trunc \/ lost)
  <2>1. data = Bytes(b) /\ mode \in {"gso", "plain"} /\ (mode = "gso" => Len(b) > 1)
    BY <1>7, <1>10, Zenon
  <2> HIDE DEF trunc, data, segment, count, cut, mode, read
  <2>2. job0 \in Job /\ job0.pc = mode
    BY <1>11, <2>1, Zenon DEF Job
  <2>4. /\ job0.came = b /\ job0.data = data /\ job0.segment = segment /\ job0.from = 0
        /\ job0.wire = <<>> /\ job0.datagrams = 0 /\ job0.dropped = 0 /\ job0.cut = 0
    BY <1>11, Zenon DEF Job
  <2> HIDE DEF job0
  <2>5. job0.datagrams + job0.dropped = 0 /\ job0.from = 0 * job0.segment /\ Len(job0.wire) = 0
    BY <1>2, <2>4
  <2>6. 0 \in Nat /\ 0 < Len(b)
    BY <1>2, Zenon
  <2>3. Going(job0)
    BY <1>2, <1>8, <2>1, <2>2, <2>4, <2>5, <2>6, Zenon DEF Going
  <2>. QED
    BY <1>1, <1>10, <2>1, <2>2, <2>3, Zenon DEF JobInv
<1>. QED
  BY <1>9, <1>10, Zenon

\* The lengths in a buffer that is being sent.
LEMMA GoingOn ==
  ASSUME NEW j, JobInv(j), j.pc \in {"gso", "plain", "blocked"}
  PROVE  LET n == Len(j.came)
             m == j.datagrams + j.dropped
         IN  /\ j \in Job /\ j.came \in Bursts /\ n \in Nat \ {0} /\ m \in 0 .. n - 1
             /\ j.datagrams \in Nat /\ j.dropped \in Nat
             /\ n > 1 => /\ Striped(j.data, 0, n, j.segment, j.came[n])
                         /\ \A k \in 1 .. n : j.came[k] = StripeLen(n, j.segment, j.came[n], k)
             /\ ~(n > 1) => n = 1 /\ m = 0 /\ j.segment = 0 /\ j.from = 0 /\ j.data = Datagram(j.came, 1)
<1> DEFINE n == Len(j.came)
           m == j.datagrams + j.dropped
<1>1. /\ j \in Job /\ j.came \in Bursts /\ j.data = Bytes(j.came)
      /\ j.segment = (IF Len(j.came) > 1 THEN j.came[1] ELSE 0)
      /\ j.dropped \in Nat /\ m < n /\ j.from = m * j.segment
  BY Zenon DEF JobInv, Going
<1>2. j.datagrams \in Nat /\ n \in Nat \ {0} /\ m \in 0 .. n - 1
  BY <1>1, Burst DEF Job
<1>3. n > 1 => /\ Striped(j.data, 0, n, j.segment, j.came[n])
               /\ \A k \in 1 .. n : j.came[k] = StripeLen(n, j.segment, j.came[n], k)
  BY <1>1, BurstStriped, Zenon
<1>4. ASSUME ~(n > 1) PROVE n = 1 /\ m = 0 /\ j.segment = 0 /\ j.from = 0 /\ j.data = Datagram(j.came, 1)
  <2>1. n = 1
    BY <1>2, <1>4, One, Zenon
  <2>2. j.came \in Seq(Nat) /\ \A k \in 1 .. n : j.came[k] \in Nat
    BY <1>1, Burst, Zenon
  <2>3. n = 1 /\ m = 0 /\ j.segment = 0 /\ j.from = 0
    BY <1>1, <1>2, <1>4, <2>1
  <2>4. j.came[1] \in Nat
    BY <2>1, <2>2
  <2>5. /\ Bytes(j.came) \in Seq(Nat) /\ Len(Bytes(j.came)) = (n - 1) * j.came[1] + j.came[n]
        /\ \A k \in 1 .. n : \A i \in 1 .. j.came[k] : Bytes(j.came)[(k - 1) * j.came[1] + i] = k
    BY <1>1, BurstBytes, Zenon
  <2>6. PICK c \in Nat : c = j.came[1]
    BY <2>4, Zenon
  <2>7. Len(Bytes(j.came)) = c /\ \A i \in 1 .. c : Bytes(j.came)[i] = 1
    BY <2>3, <2>5, <2>6
  <2>8. Bytes(j.came) = [i \in 1 .. c |-> 1]
    BY <2>5, <2>7
  <2>. QED
    BY <1>1, <2>3, <2>6, <2>8, Zenon DEF Datagram
<1>. QED
  BY <1>1, <1>2, <1>3, <1>4, Zenon

\* A burst given up.
LEMMA DropJob ==
  ASSUME NEW f \in Flow, NEW j, JobInv(j), j.pc = "gso"
  PROVE  JobInv(DropRest(f, j))
<1> DEFINE n    == Len(j.came)
           m    == j.datagrams + j.dropped
           more == IF f[2] = "forward" THEN segments(Len(j.data), j.segment) - j.from \div j.segment
                                       ELSE segments(Len(j.data) - j.from, j.segment)
           drop == [j EXCEPT !.pc = "done", !.dropped = j.dropped + more]
<1>1. /\ j \in Job /\ j.came \in Bursts /\ n \in Nat \ {0} /\ m \in 0 .. n - 1
      /\ j.datagrams \in Nat /\ j.dropped \in Nat
      /\ n > 1 => Striped(j.data, 0, n, j.segment, j.came[n])
  BY GoingOn, Zenon
<1>2. /\ n > 1 /\ j.from = m * j.segment /\ j.datagrams = Len(j.wire)
      /\ Sent(j.came, j.wire, m) /\ j.cut = 0
  BY Zenon DEF JobInv, Going
<1>3. /\ j.segment \in Nat \ {0} /\ j.came[n] \in 1 .. j.segment
      /\ Len(j.data) = (n - 1) * j.segment + j.came[n]
  BY <1>1, <1>2, Zenon DEF Striped
<1>4. more = n - m
  <2>0. n \in Nat \ {0} /\ m \in 0 .. n - 1
    BY <1>1, Zenon
  <2> DEFINE last == j.came[n]
  <2> HIDE DEF last, n, m
  <2>2. last \in 1 .. j.segment
    BY <1>3, Zenon DEF last, n
  <2>5. RestCounted(n, j.segment, last, m)
    BY <1>3, <2>0, <2>2, RestCount, Zenon
  <2>3. segments(((n - 1) * j.segment + last) - m * j.segment, j.segment) = n - m
    BY <2>5, Zenon DEF RestCounted
  <2>4. segments((n - 1) * j.segment + last, j.segment) - (m * j.segment) \div j.segment = n - m
    BY <2>5, Zenon DEF RestCounted
  <2>1. /\ segments(((n - 1) * j.segment + j.came[n]) - m * j.segment, j.segment) = n - m
        /\ segments((n - 1) * j.segment + j.came[n], j.segment) - (m * j.segment) \div j.segment = n - m
    BY <2>3, <2>4, Zenon DEF last
  <2>. QED
    BY <1>2, <1>3, <2>1, Zenon
<1>5. DropRest(f, j) = drop
  BY Zenon DEF DropRest
<1>6. j.dropped + more \in Int /\ j.datagrams + (j.dropped + more) + 0 = n
  <2> HIDE DEF n, more
  <2>. QED
    BY <1>1, <1>4
<1> HIDE DEF more
<1>7. drop \in Job /\ drop.pc = "done"
  BY <1>1, <1>6, Zenon DEF Job
<1>8. /\ drop.came = j.came /\ drop.wire = j.wire /\ drop.datagrams = j.datagrams
      /\ drop.dropped = j.dropped + more /\ drop.cut = 0
  BY <1>1, <1>2, Zenon DEF Job
<1>9. Sent(j.came, j.wire, n)
  <2> HIDE DEF n
  <2>1. m \in Nat /\ n \in Nat /\ m <= n
    BY <1>1
  <2>. QED
    BY <1>2, <2>1, SentLess, Zenon
<1> HIDE DEF drop
<1>10. Done(drop)
  BY <1>1, <1>2, <1>6, <1>8, <1>9, Zenon DEF Done
<1>. QED
  BY <1>5, <1>7, <1>10, Zenon DEF JobInv

\* A chunk is a whole number of segments.
LEMMA ChunkBytes == ASSUME NEW seg \in Nat \ {0} PROVE \E c \in Nat \ {0} : chunk_bytes(seg) = seg * c
<1> DEFINE fit == GSO_MAX_PAYLOAD \div seg
           c   == IF fit < 1 THEN 1 ELSE Smaller(fit, MAX_GSO_SEGMENTS)
<1>1. GSO_MAX_PAYLOAD \in Nat /\ MAX_GSO_SEGMENTS \in Nat \ {0}
  BY OffloadAssumption, Zenon
<1>2. fit \in Nat
  BY <1>1
<1>3. chunk_bytes(seg) = seg * c
  BY Zenon DEF chunk_bytes
<1> HIDE DEF fit
<1>4. c \in Nat \ {0}
  BY <1>1, <1>2 DEF Smaller
<1> HIDE DEF c
<1>. QED
  BY <1>3, <1>4, Zenon

\* The datagrams m + 1 to e of a burst, and where they end in its buffer.
PartsTo(parts, len, data, n, seg, last, m, e) ==
  /\ parts \in Seq(Seq(Nat)) /\ Len(parts) = e - m
  /\ \A i \in 1 .. e - m : parts[i] = [x \in 1 .. StripeLen(n, seg, last, m + i) |-> m + i]
  /\ len \in Nat
  /\ e = n => m * seg + len = Len(data)
  /\ e # n => m * seg + len = e * seg /\ e * seg < Len(data)

\* A chunk of a burst holds the next whole datagrams, which it is cut into again.
LEMMA ChunkParts ==
  ASSUME NEW data, NEW n, NEW seg, NEW last, Striped(data, 0, n, seg, last), NEW m \in 0 .. n - 1
  PROVE  LET part == Slice(data, m * seg, chunk_bytes(seg))
         IN  \E e \in m + 1 .. n :
               PartsTo(Chunks(part, IF Len(part) > seg THEN seg ELSE 0), Len(part), data, n, seg, last, m, e)
<1>1. /\ n \in Nat /\ n # 0 /\ seg \in Nat /\ seg # 0 /\ last \in 1 .. seg /\ m \in Nat /\ m <= n - 1
      /\ Len(data) = (n - 1) * seg + last
  BY DEF Striped
<1>2. PICK c \in Nat \ {0} : chunk_bytes(seg) = seg * c
  BY <1>1, ChunkBytes, Zenon
<1>3. PICK e \in m + 1 .. n : (m + c <= n => e = m + c) /\ (n < m + c => e = n)
  <2>1. CASE m + c <= n
    BY <1>1, <2>1
  <2>2. CASE n < m + c
    BY <1>1, <2>2
  <2>. QED
    BY <1>1, <2>1, <2>2
<1>4. e \in Nat /\ e # 0 /\ e <= n /\ m < e
  BY <1>1, <1>3
<1> DEFINE part == Slice(data, m * seg, seg * c)
           w == StripeLen(n, seg, last, e)
           parts == Chunks(part, IF Len(part) > seg THEN seg ELSE 0)
<1>5. Striped(part, 0 + m, e - m, seg, w)
  BY <1>3, StripeChunk, Zenon
<1>6. ChunkEnd(n, seg, last, m, c, e)
  BY <1>1, <1>3, ChunkEnds, Zenon
<1>7. StripeEnd(n, seg, last, e)
  BY <1>1, <1>4, StripeEnds
<1> HIDE DEF part
<1>8. /\ parts \in Seq(Seq(Nat)) /\ Len(parts) = e - m
      /\ \A i \in 1 .. e - m : parts[i] = [x \in 1 .. StripeLen(e - m, seg, w, i) |-> (0 + m) + i]
  <2>1. Stripes(parts, 0 + m, e - m, seg, w)
    BY <1>5, StripeSplit, Zenon
  <2>. QED
    BY <2>1, Zenon DEF Stripes
<1>9. ASSUME NEW i \in 1 .. e - m
      PROVE  StripeLen(e - m, seg, w, i) = StripeLen(n, seg, last, m + i) /\ (0 + m) + i = m + i
  <2>1. i = e - m <=> m + i = e
    BY <1>1, <1>4
  <2>2. m + i = n => m + i = e
    BY <1>1, <1>4
  <2>3. (0 + m) + i = m + i
    BY <1>1
  <2>. QED
    BY <2>1, <2>2, <2>3, Zenon DEF StripeLen
<1>10. \A i \in 1 .. e - m : parts[i] = [x \in 1 .. StripeLen(n, seg, last, m + i) |-> m + i]
  BY <1>8, <1>9, Zenon
<1>11. Len(part) = ((e - m) - 1) * seg + w /\ w \in 1 .. seg
  BY <1>5, Zenon DEF Striped
<1>12. PICK k \in Nat, a \in Nat, b \in Nat : k = ((e - m) - 1) * seg /\ a = m * seg /\ b = (e - 1) * seg /\ b = a + k
  <2>1. (e - 1) * seg = m * seg + (e - m - 1) * seg /\ m * seg \in Nat /\ (e - m - 1) * seg \in Nat
    BY <1>6, Zenon DEF ChunkEnd
  <2>2. (e - m) - 1 = e - m - 1
    BY Zenon
  <2>. QED
    BY <2>1, <2>2
<1>13. m * seg + Len(part) = b + w /\ Len(part) \in Nat
  <2> HIDE DEF w
  <2>. QED
    BY <1>1, <1>11, <1>12
<1>14. e = n => m * seg + Len(part) = Len(data)
  BY <1>1, <1>12, <1>13, Zenon DEF StripeLen
<1>15. e # n => m * seg + Len(part) = e * seg /\ e * seg < Len(data)
  <2>. SUFFICES ASSUME e # n PROVE m * seg + Len(part) = e * seg /\ e * seg < Len(data)
    BY Zenon
  <2>1. w = seg
    BY Zenon DEF StripeLen
  <2>2. e * seg = (e - 1) * seg + seg /\ e * seg < (n - 1) * seg + last
    BY <1>7, Zenon DEF StripeEnd
  <2>. QED
    BY <1>1, <1>12, <1>13, <2>1, <2>2, Zenon
<1> HIDE DEF parts
<1>16. PartsTo(parts, Len(part), data, n, seg, last, m, e)
  BY <1>8, <1>10, <1>13, <1>14, <1>15, Zenon DEF PartsTo
<1>. QED
  BY <1>2, <1>3, <1>16, Zenon DEF part, parts

\* A chunk sent.
LEMMA ChunkJob ==
  ASSUME NEW j, JobInv(j), j.pc = "gso"
  PROVE  JobInv(ChunkSent(j, Slice(j.data, j.from, chunk_bytes(j.segment))))
<1> DEFINE n     == Len(j.came)
           m     == j.datagrams + j.dropped
           last  == j.came[n]
           part  == Slice(j.data, j.from, chunk_bytes(j.segment))
           len   == Len(part)
           parts == Chunks(part, IF len > j.segment THEN j.segment ELSE 0)
           to    == j.from + len
           count == IF to >= Len(j.data) THEN segments(Len(j.data), j.segment) ELSE to \div j.segment
           adv   == Advance(j, to)
           new   == [adv EXCEPT !.wire = adv.wire \o parts, !.datagrams = count]
<1>1. /\ j \in Job /\ j.came \in Bursts /\ n \in Nat \ {0} /\ m \in 0 .. n - 1
      /\ j.datagrams \in Nat /\ j.dropped \in Nat
      /\ n > 1 => /\ Striped(j.data, 0, n, j.segment, last)
                  /\ \A k \in 1 .. n : j.came[k] = StripeLen(n, j.segment, last, k)
  BY GoingOn, Zenon
<1>2. /\ n > 1 /\ j.from = m * j.segment /\ j.datagrams = Len(j.wire)
      /\ Sent(j.came, j.wire, m) /\ j.cut = 0 /\ j.dropped = 0
      /\ j.data = Bytes(j.came) /\ j.segment = IF n > 1 THEN j.came[1] ELSE 0
  BY Zenon DEF JobInv, Going
<1>3. j.segment \in Nat \ {0} /\ last \in 1 .. j.segment /\ Len(j.data) = (n - 1) * j.segment + last
  BY <1>1, <1>2, Zenon DEF Striped
<1>4. ChunkSent(j, part) = new
  BY Zenon DEF ChunkSent
<1>5. PICK e \in m + 1 .. n : PartsTo(parts, len, j.data, n, j.segment, last, m, e)
  <2> DEFINE same == Slice(j.data, m * j.segment, chunk_bytes(j.segment))
  <2>1. \E e \in m + 1 .. n :
          PartsTo(Chunks(same, IF Len(same) > j.segment THEN j.segment ELSE 0), Len(same), j.data, n,
                  j.segment, last, m, e)
    <3>1. Striped(j.data, 0, n, j.segment, last) /\ m \in 0 .. n - 1
      BY <1>1, <1>2, Zenon
    <3> HIDE DEF n, m, last
    <3>. QED
      BY <3>1, ChunkParts, Zenon
  <2>2. same = part
    BY <1>2, Zenon
  <2>. QED
    BY <2>1, <2>2, Zenon
<1> HIDE DEF parts, len, part
<1>6. m = j.datagrams /\ m \in Nat /\ n \in Nat /\ e \in Nat /\ m < e /\ e <= n
  <2> HIDE DEF n
  <2>. QED
    BY <1>1, <1>2
<1> HIDE DEF m, n
<1>7. \A i \in 1 .. e - m : parts[i] = Datagram(j.came, m + i)
  <2>. SUFFICES ASSUME NEW i \in 1 .. e - m PROVE parts[i] = Datagram(j.came, m + i)
    BY Zenon
  <2>1. m + i \in 1 .. n
    BY <1>6
  <2>2. j.came[m + i] = StripeLen(n, j.segment, last, m + i)
    BY <1>1, <1>2, <2>1, Zenon
  <2>3. parts[i] = [x \in 1 .. StripeLen(n, j.segment, last, m + i) |-> m + i]
    BY <1>5, Zenon DEF PartsTo
  <2>. QED
    BY <2>2, <2>3, Zenon DEF Datagram
<1>8. parts \in Seq(Seq(Nat)) /\ Len(parts) = e - m
  BY <1>5, Zenon DEF PartsTo
<1>9. Sent(j.came, j.wire \o parts, e) /\ Len(j.wire \o parts) = e
  <2>1. Sent(j.came, j.wire \o parts, e) /\ Len(j.wire \o parts) = Len(j.wire) + (e - m)
    <3>1. Len(j.came) > 1 /\ e <= Len(j.came) /\ m <= e
      BY <1>2, <1>6 DEF n
    <3>2. NextParts(j.came, parts, m, e)
      BY <1>7, <1>8, Zenon DEF NextParts
    <3>3. j.came \in Bursts /\ Sent(j.came, j.wire, m) /\ m \in Nat /\ e \in Nat
      BY <1>1, <1>2, <1>6, Zenon
    <3>4. Sent(j.came, j.wire \o parts, e)
      BY <3>1, <3>2, <3>3, SentMore, Zenon
    <3>5. Len(j.wire \o parts) = Len(j.wire) + (e - m)
      <4>1. j.wire \in Seq(Seq(Nat))
        BY <3>3, Zenon DEF Sent
      <4>2. parts \in Seq(Seq(Nat))
        BY <1>8, Zenon
      <4>3. Len(j.wire \o parts) = Len(j.wire) + Len(parts)
        BY <4>1, <4>2
      <4>. QED
        BY <1>8, <4>3, Zenon
    <3>. QED
      BY <3>4, <3>5, Zenon
  <2>2. Len(j.wire) + (e - m) = e
    BY <1>2, <1>6
  <2>. QED
    BY <2>1, <2>2, Zenon
<1>10. to \in Nat /\ count = e /\ (to >= Len(j.data) <=> e = n) /\ (e # n => to = e * j.segment)
  <2>1. len \in Nat /\ (e = n => to = Len(j.data)) /\ (e # n => to = e * j.segment /\ e * j.segment < Len(j.data))
    BY <1>2, <1>5, Zenon DEF PartsTo
  <2>2. j.from \in Nat /\ Len(j.data) \in Nat
    BY <1>1 DEF Job
  <2>3. to \in Nat
    BY <2>1, <2>2
  <2>4. CASE e = n
    <3>1. to >= Len(j.data)
      BY <2>1, <2>2, <2>4
    <3>2. segments(Len(j.data), j.segment) = n
      BY <1>1, <1>2, StripeCount, Zenon
    <3>. QED
      BY <2>3, <2>4, <3>1, <3>2, Zenon
  <2>5. CASE e # n
    <3>1. ~(to >= Len(j.data)) /\ to = e * j.segment
      BY <2>1, <2>2, <2>3, <2>5
    <3>2. (e * j.segment) \div j.segment = e
      <4>1. e * j.segment \in Nat /\ j.segment \in Nat \ {0}
        BY <1>3, <2>3, <3>1, Zenon
      <4>2. e * j.segment <= e * j.segment /\ e * j.segment < e * j.segment + j.segment
        BY <4>1
      <4>. QED
        BY <1>6, <4>1, <4>2, QuotientIs, Zenon
    <3>. QED
      BY <2>3, <2>5, <3>1, <3>2, Zenon
  <2>. QED
    BY <2>4, <2>5, Zenon
<1> HIDE DEF to, count
<1>11. CASE e = n
  <2>1. adv = [j EXCEPT !.pc = "done", !.from = to]
    BY <1>10, <1>11, Zenon DEF Advance
  <2>2. /\ adv \in Job /\ adv.pc = "done" /\ adv.wire = j.wire /\ adv.came = j.came /\ adv.dropped = j.dropped
        /\ adv.cut = j.cut
    BY <1>1, <1>10, <2>1, Zenon DEF Job
  <2>5. adv.wire \o parts \in Seq(Seq(Nat)) /\ count \in Nat
    BY <1>6, <1>8, <1>9, <1>10, <2>2, Zenon DEF Sent
  <2> HIDE DEF adv
  <2>3. new \in Job /\ new.pc = "done"
    BY <2>2, <2>5, Zenon DEF Job
  <2>6. /\ new.wire = j.wire \o parts /\ new.came = j.came /\ new.dropped = 0 /\ new.cut = 0
        /\ new.datagrams = e
    BY <1>2, <1>10, <2>2, Zenon DEF Job
  <2> HIDE DEF new
  <2>7. new.datagrams + new.dropped + new.cut = Len(j.came)
    BY <1>6, <1>11, <2>6 DEF n
  <2>4. Done(new)
    BY <1>1, <1>9, <1>11, <2>6, <2>7, Zenon DEF Done, n
  <2>. QED
    BY <1>4, <2>3, <2>4, Zenon DEF JobInv, part
<1>12. CASE e # n
  <2>1. adv = [j EXCEPT !.from = to]
    BY <1>10, <1>12, Zenon DEF Advance
  <2>2. /\ adv \in Job /\ adv.pc = "gso" /\ adv.wire = j.wire /\ adv.came = j.came /\ adv.dropped = j.dropped
        /\ adv.cut = j.cut /\ adv.data = j.data /\ adv.segment = j.segment /\ adv.from = to
    BY <1>1, <1>10, <2>1, Zenon DEF Job
  <2>5. adv.wire \o parts \in Seq(Seq(Nat)) /\ count \in Nat
    BY <1>6, <1>8, <1>9, <1>10, <2>2, Zenon DEF Sent
  <2> HIDE DEF adv
  <2>3. new \in Job /\ new.pc = "gso"
    BY <2>2, <2>5, Zenon DEF Job
  <2>6. /\ new.wire = j.wire \o parts /\ new.came = j.came /\ new.dropped = 0 /\ new.cut = 0
        /\ new.datagrams = e /\ new.data = j.data /\ new.segment = j.segment /\ new.from = to
    BY <1>2, <1>10, <2>2, Zenon DEF Job
  <2> HIDE DEF new
  <2>7. new.datagrams + new.dropped = e /\ e < n /\ 0 \in Nat
    BY <1>6, <1>12, <2>6
  <2>4. Going(new)
    BY <1>1, <1>2, <1>9, <1>10, <1>12, <2>6, <2>7, Zenon DEF Going, n
  <2>. QED
    BY <1>4, <2>3, <2>4, Zenon DEF JobInv, part
<1>. QED
  BY <1>11, <1>12, Zenon

\* The piece a datagram at a time is sent by.
LEMMA NextPiece ==
  ASSUME NEW j, JobInv(j), j.pc \in {"plain", "blocked"}
  PROVE  LET n == Len(j.came)
             k == j.datagrams + j.dropped + 1
             to == j.from + Len(Piece(j))
         IN  /\ k \in 1 .. n /\ Piece(j) = Datagram(j.came, k) /\ to \in Nat
             /\ to >= Len(j.data) <=> k = n
             /\ k # n => to = k * j.segment
<1> DEFINE n == Len(j.came)
           m == j.datagrams + j.dropped
           last == j.came[n]
           to == j.from + Len(Piece(j))
<1>1. /\ j \in Job /\ j.came \in Bursts /\ n \in Nat \ {0} /\ m \in 0 .. n - 1
      /\ j.datagrams \in Nat /\ j.dropped \in Nat
      /\ n > 1 => /\ Striped(j.data, 0, n, j.segment, last)
                  /\ \A k \in 1 .. n : j.came[k] = StripeLen(n, j.segment, last, k)
      /\ ~(n > 1) => n = 1 /\ m = 0 /\ j.segment = 0 /\ j.from = 0 /\ j.data = Datagram(j.came, 1)
  BY GoingOn, Zenon
<1>2. j.from = m * j.segment /\ j.data \in Seq(Nat) /\ Len(j.data) \in Nat
  <2>1. Going(j)
    BY Zenon DEF JobInv
  <2>2. j.from = m * j.segment
    BY <2>1, Zenon DEF Going
  <2>3. j.data \in Seq(Nat)
    BY <1>1, Zenon DEF Job
  <2>. QED
    BY <2>2, <2>3
<1>3. CASE ~(n > 1)
  <2>1. n = 1 /\ m = 0 /\ j.segment = 0 /\ j.from = 0 /\ j.data = Datagram(j.came, 1)
    BY <1>1, <1>3, Zenon
  <2>2. Piece(j) = j.data
    BY <2>1, Zenon DEF Piece
  <2>3. to = Len(j.data)
    BY <1>2, <2>1, <2>2
  <2>4. to >= Len(j.data)
    BY <1>2, <2>3
  <2>5. m + 1 = 1 /\ 1 \in 1 .. 1
    BY <2>1
  <2>. QED
    BY <1>2, <2>1, <2>2, <2>3, <2>4, <2>5, Zenon
<1>4. CASE n > 1
  <2> DEFINE k == m + 1
  <2>1. /\ Striped(j.data, 0, n, j.segment, last)
        /\ \A x \in 1 .. n : j.came[x] = StripeLen(n, j.segment, last, x)
    BY <1>1, <1>4, Zenon
  <2>2. /\ j.segment \in Nat \ {0} /\ last \in 1 .. j.segment
        /\ Len(j.data) = (n - 1) * j.segment + last
    BY <2>1, Zenon DEF Striped
  <2>3. k \in 1 .. n /\ k - 1 = m /\ 0 + k = k
    <3> HIDE DEF n
    <3>. QED
      BY <1>1
  <2>4. Piece(j) = Slice(j.data, (k - 1) * j.segment, j.segment)
    BY <1>2, <2>2, <2>3, Zenon DEF Piece
  <2> HIDE DEF k, n, m, last
  <2>5. Slice(j.data, (k - 1) * j.segment, j.segment) = [x \in 1 .. StripeLen(n, j.segment, last, k) |-> 0 + k]
    <3>1. Striped(j.data, 0, n, j.segment, last) /\ k \in 1 .. n
      BY <2>1, <2>3, Zenon
    <3>. QED
      BY <3>1, StripeSlice
  <2>6. j.came[k] = StripeLen(n, j.segment, last, k)
    BY <2>1, <2>3, Zenon
  <2>7. Piece(j) = Datagram(j.came, k)
    BY <2>3, <2>4, <2>5, <2>6, Zenon DEF Datagram
  <2>8. Len(Piece(j)) = StripeLen(n, j.segment, last, k)
    <3>1. j.came \in Bursts /\ k \in 1 .. Len(j.came)
      BY <1>1, <2>3, Zenon DEF n
    <3>2. Len(Datagram(j.came, k)) = j.came[k]
      BY <3>1, DatagramSeq, Zenon
    <3>. QED
      BY <2>6, <2>7, <3>2, Zenon
  <2>9. StripeEnd(n, j.segment, last, k)
    BY <1>1, <2>2, <2>3, StripeEnds, Zenon
  <2>10. to = (k - 1) * j.segment + StripeLen(n, j.segment, last, k)
    BY <1>2, <2>3, <2>8, Zenon
  <2>11. to \in Nat /\ k * j.segment = (k - 1) * j.segment + j.segment /\ (k # n => k * j.segment < Len(j.data))
    BY <2>2, <2>9, <2>10, Zenon DEF StripeEnd
  <2> HIDE DEF to
  <2>12. CASE k = n
    <3>1. to = Len(j.data)
      BY <2>2, <2>10, <2>12, Zenon DEF StripeLen
    <3>2. to >= Len(j.data)
      BY <1>2, <3>1
    <3>. QED
      BY <2>3, <2>7, <2>11, <2>12, <3>2, Zenon DEF k, n, m, to
  <2>13. CASE k # n
    <3>1. to = k * j.segment
      BY <2>10, <2>11, <2>13, Zenon DEF StripeLen
    <3>2. ~(to >= Len(j.data))
      BY <1>2, <2>11, <2>13, <3>1
    <3>. QED
      BY <2>3, <2>7, <2>11, <2>13, <3>1, <3>2, Zenon DEF k, n, m, to
  <2>. QED
    BY <2>12, <2>13, Zenon
<1>. QED
  BY <1>3, <1>4, Zenon

\* A datagram sent by itself, or dropped.
LEMMA PieceJob ==
  ASSUME NEW j, JobInv(j), j.pc \in {"plain", "blocked"}
  PROVE  LET next == Advance(j, j.from + Len(Piece(j)))
         IN  /\ JobInv([next EXCEPT !.wire = Append(next.wire, Piece(j)), !.datagrams = next.datagrams + 1])
             /\ JobInv([next EXCEPT !.dropped = next.dropped + 1])
<1> DEFINE n    == Len(j.came)
           m    == j.datagrams + j.dropped
           k    == m + 1
           to   == j.from + Len(Piece(j))
           next == Advance(j, to)
           mode   == IF k = n THEN "done" ELSE j.pc
           sent == [next EXCEPT !.wire = Append(next.wire, Piece(j)), !.datagrams = next.datagrams + 1]
           lost == [next EXCEPT !.dropped = next.dropped + 1]
<1>1. /\ j \in Job /\ j.came \in Bursts /\ n \in Nat \ {0} /\ m \in 0 .. n - 1
      /\ j.datagrams \in Nat /\ j.dropped \in Nat
      /\ ~(n > 1) => m = 0
  BY GoingOn, Zenon
<1>2. Going(j) /\ j.pc # "gso" /\ j.pc # "idle" /\ j.pc # "done"
  BY Zenon DEF JobInv
<1>3. /\ j.data = Bytes(j.came) /\ j.segment = (IF n > 1 THEN j.came[1] ELSE 0)
      /\ j.datagrams = Len(j.wire) /\ Sent(j.came, j.wire, m) /\ j.cut = 0
  BY <1>2, Zenon DEF Going
<1>4. /\ k \in 1 .. n /\ Piece(j) = Datagram(j.came, k) /\ to \in Nat
      /\ to >= Len(j.data) <=> k = n
      /\ k # n => to = k * j.segment
  BY NextPiece, Zenon
<1>5. /\ next \in Job /\ next.pc = mode /\ next.data = j.data /\ next.segment = j.segment /\ next.from = to
      /\ next.came = j.came /\ next.wire = j.wire /\ next.datagrams = j.datagrams /\ next.dropped = j.dropped
      /\ next.cut = 0
  <2> HIDE DEF to, n, k
  <2>1. CASE k = n
    <3>1. next = [j EXCEPT !.pc = "done", !.from = to]
      BY <1>4, <2>1, Zenon DEF Advance
    <3>. QED
      BY <1>1, <1>3, <1>4, <2>1, <3>1, Zenon DEF Job
  <2>2. CASE k # n
    <3>1. next = [j EXCEPT !.from = to]
      BY <1>4, <2>2, Zenon DEF Advance
    <3>. QED
      BY <1>1, <1>3, <1>4, <2>2, <3>1, Zenon DEF Job
  <2>. QED
    BY <2>1, <2>2, Zenon
<1>6. /\ m \in Nat /\ k \in Nat /\ n \in Nat /\ m < k /\ k <= n /\ k = m + 1
      /\ (j.datagrams + 1) + j.dropped = k /\ j.datagrams + (j.dropped + 1) = k
      /\ (j.datagrams + 1) + j.dropped + 0 = k /\ j.datagrams + (j.dropped + 1) + 0 = k
  <2> HIDE DEF n
  <2>1. m \in Nat /\ n \in Nat /\ k \in Nat /\ k <= n
    BY <1>1, <1>4
  <2>2. /\ (j.datagrams + 1) + j.dropped = k /\ j.datagrams + (j.dropped + 1) = k
        /\ (j.datagrams + 1) + j.dropped + 0 = k /\ j.datagrams + (j.dropped + 1) + 0 = k
    BY <1>1
  <2>. QED
    BY <2>1, <2>2
<1>7. j.wire \in Seq(Seq(Nat)) /\ Piece(j) \in Seq(Nat)
  <2>1. k \in 1 .. Len(j.came)
    BY <1>4, Zenon
  <2> HIDE DEF k
  <2>2. Datagram(j.came, k) \in Seq(Nat)
    BY <1>1, <2>1, DatagramSeq, Zenon
  <2>. QED
    BY <1>3, <1>4, <2>2, Zenon DEF Sent
<1> HIDE DEF next, k, n, m, to
<1>8. Sent(j.came, j.wire, k)
  BY <1>3, <1>6, SentLess
<1>9. Sent(j.came, Append(j.wire, Piece(j)), k) /\ Len(Append(j.wire, Piece(j))) = j.datagrams + 1
  <2>1. Len(Append(j.wire, Piece(j))) = j.datagrams + 1 /\ Append(j.wire, Piece(j)) \in Seq(Seq(Nat))
    BY <1>3, <1>7
  <2>2. CASE n > 1
    <3> DEFINE parts == <<Piece(j)>>
    <3>1. Append(j.wire, Piece(j)) = j.wire \o parts
      BY <1>7
    <3>2. parts \in Seq(Seq(Nat)) /\ Len(parts) = 1 /\ parts[1] = Piece(j) /\ 1 .. 1 = {1}
      BY <1>7
    <3>3. k - m = 1 /\ k = m + 1 /\ m <= k
      BY <1>6
    <3> HIDE DEF parts
    <3>4. \A i \in 1 .. k - m : parts[i] = Datagram(j.came, m + i)
      BY <1>4, <3>2, <3>3, Zenon
    <3>5. NextParts(j.came, parts, m, k)
      BY <3>2, <3>3, <3>4, Zenon DEF NextParts
    <3>6. Sent(j.came, j.wire \o parts, k)
      BY <1>1, <1>3, <1>6, <2>2, <3>3, <3>5, SentMore, Zenon DEF n
    <3>. QED
      BY <2>1, <3>1, <3>6, Zenon
  <2>3. CASE ~(n > 1)
    <3>0. m = 0 /\ j.datagrams = 0
      BY <1>1, <2>3 DEF m
    <3>1. m = 0 /\ Len(j.wire) = 0 /\ k = 1
      BY <1>3, <1>6, <3>0
    <3> DEFINE all == Append(j.wire, Piece(j))
    <3>2. Len(all) = 1 /\ all[1] = Datagram(j.came, 1) /\ all \in Seq(Seq(Nat)) /\ 1 .. 1 = {1}
      BY <1>3, <1>4, <1>7, <2>1, <3>1
    <3> HIDE DEF all
    <3>3. Sent(j.came, all, 1)
      BY <3>2 DEF Sent
    <3>. QED
      BY <2>1, <3>1, <3>3, Zenon DEF all
  <2>. QED
    BY <2>2, <2>3, Zenon
<1>10. JobInv(sent)
  <2>0. Append(next.wire, Piece(j)) \in Seq(Seq(Nat)) /\ next.datagrams + 1 \in Nat
    BY <1>1, <1>5, <1>7
  <2>1. sent \in Job
    BY <1>5, <2>0, Zenon DEF Job
  <2>2. /\ sent.pc = mode /\ sent.data = j.data /\ sent.segment = j.segment /\ sent.from = to /\ sent.came = j.came
        /\ sent.wire = Append(j.wire, Piece(j)) /\ sent.datagrams = j.datagrams + 1 /\ sent.dropped = j.dropped
        /\ sent.cut = 0
    BY <1>5, Zenon DEF Job
  <2> HIDE DEF sent
  <2>3. CASE k = n
    <3>1. Done(sent)
      BY <1>1, <1>6, <1>9, <2>2, <2>3, Zenon DEF Done, n
    <3>. QED
      BY <2>1, <2>2, <2>3, <3>1, Zenon DEF JobInv
  <2>4. CASE k # n
    <3>2. k < n
      BY <1>6, <2>4
    <3>1. Going(sent)
      BY <1>1, <1>2, <1>3, <1>4, <1>6, <1>9, <2>2, <2>4, <3>2, Zenon DEF Going, n
    <3>. QED
      BY <1>2, <2>1, <2>2, <2>4, <3>1, Zenon DEF JobInv
  <2>. QED
    BY <2>3, <2>4, Zenon
<1>11. JobInv(lost)
  <2>0. next.dropped + 1 \in Int
    BY <1>1, <1>5
  <2>1. lost \in Job
    BY <1>5, <2>0, Zenon DEF Job
  <2>2. /\ lost.pc = mode /\ lost.data = j.data /\ lost.segment = j.segment /\ lost.from = to /\ lost.came = j.came
        /\ lost.wire = j.wire /\ lost.datagrams = j.datagrams /\ lost.dropped = j.dropped + 1
        /\ lost.cut = 0
    BY <1>5, Zenon DEF Job
  <2> HIDE DEF lost
  <2>3. CASE k = n
    <3>1. Done(lost)
      BY <1>1, <1>3, <1>6, <1>8, <2>2, <2>3, Zenon DEF Done, n
    <3>. QED
      BY <2>1, <2>2, <2>3, <3>1, Zenon DEF JobInv
  <2>4. CASE k # n
    <3>2. k < n /\ j.dropped + 1 \in Nat
      BY <1>1, <1>6, <2>4
    <3>1. Going(lost)
      BY <1>1, <1>2, <1>3, <1>4, <1>6, <1>8, <2>2, <2>4, <3>2, Zenon DEF Going, n
    <3>. QED
      BY <1>2, <2>1, <2>2, <2>4, <3>1, Zenon DEF JobInv
  <2>. QED
    BY <2>3, <2>4, Zenon
<1>. QED
  BY <1>10, <1>11, Zenon DEF next, to

-----------------------------------------------------------------------------
\* The invariant.

\* It holds at first.
LEMMA OffloadStart == OffloadInit => OffloadInv
<1>. SUFFICES ASSUME OffloadInit PROVE OffloadInv
  BY Zenon
<1>1. Idle \in Job /\ Idle.pc = "idle"
  BY DEF Idle, Job
<1>2. JobInv(Idle)
  BY <1>1, Zenon DEF JobInv
<1>. QED
  BY <1>2, Zenon DEF OffloadInit, OffloadInv

\* Changing one flow's job.
LEMMA JobChange ==
  ASSUME DOMAIN job = Flow, \A g \in Flow : JobInv(job[g]), NEW f \in Flow, NEW j, JobInv(j),
         job' = [job EXCEPT ![f] = j]
  PROVE  DOMAIN job' = Flow /\ \A g \in Flow : JobInv(job'[g])
BY Zenon

\* The jobs that only change how they are sent.
LEMMA PcJob ==
  ASSUME NEW j, JobInv(j), NEW mode, \/ j.pc = "gso" /\ mode \in {"plain", "blocked"}
                                     \/ j.pc = "plain" /\ mode = "blocked"
  PROVE  JobInv([j EXCEPT !.pc = mode])
<1> DEFINE new == [j EXCEPT !.pc = mode]
<1>1. j \in Job /\ Going(j) /\ mode \in {"plain", "blocked"}
  BY Zenon DEF JobInv
<1>2. /\ new \in Job /\ new.pc = mode /\ new.data = j.data /\ new.segment = j.segment /\ new.from = j.from
      /\ new.came = j.came /\ new.wire = j.wire /\ new.datagrams = j.datagrams /\ new.dropped = j.dropped
      /\ new.cut = j.cut
  BY <1>1, Zenon DEF Job
<1> HIDE DEF new
<1>3. mode # "gso" /\ mode # "idle" /\ mode # "done"
  BY <1>1, Zenon
<1>4. Going(new)
  BY <1>1, <1>2, <1>3, Zenon DEF Going
<1>5. JobInv(new)
  BY <1>1, <1>2, <1>3, <1>4, Zenon DEF JobInv
<1>. QED
  BY <1>5, Zenon DEF new

\* Every step keeps it.
LEMMA OffloadStep == OffloadInv /\ [OffloadNext]_offloadVars => OffloadInv'
<1> DEFINE Jobs == DOMAIN job = Flow /\ \A f \in Flow : JobInv(job[f])
           Listener == /\ off \in [gro_set : BOOLEAN, enabled : BOOLEAN, gro_aware : BOOLEAN,
                                   unsupported : BOOLEAN, gso_ok : BOOLEAN]
                       /\ off.gro_set => off.gro_aware
<1>. SUFFICES ASSUME OffloadInv, [OffloadNext]_offloadVars PROVE OffloadInv'
  BY Zenon
<1>1. Jobs /\ Listener
  BY Zenon DEF OffloadInv
<1>2. Jobs' /\ Listener' => OffloadInv'
  BY Zenon DEF OffloadInv
<1>3. UNCHANGED job => Jobs'
  BY <1>1, Zenon
<1>4. UNCHANGED off => Listener'
  BY <1>1, Zenon
<1>5. \A s \in Session : <<s, "forward">> \in Flow /\ <<s, "reply">> \in Flow
  BY Zenon DEF Flow
<1>6. JobInv(Idle)
  <2>1. Idle \in Job /\ Idle.pc = "idle"
    BY DEF Idle, Job
  <2>. QED
    BY <2>1, Zenon DEF JobInv
<1>7. CASE Sweep
  <2>1. Listener'
    BY <1>1, <1>7, Zenon DEF Sweep, apply_gro_knob
  <2>. QED
    BY <1>2, <1>3, <1>7, <2>1, Zenon DEF Sweep
<1>8. CASE Reload
  BY <1>2, <1>3, <1>4, <1>8, Zenon DEF Reload
<1>9. ASSUME NEW s \in Session, ClientBurst(s) PROVE OffloadInv'
  <2>1. PICK b \in Bursts, opens \in BOOLEAN, gro \in BOOLEAN :
          LET read == recv(b, off.gro_aware, ses[s].gso_ok, ~opens)
              new  == ~ses[s].open /\ read.pc # "done"
          IN  /\ Len(b) > 1 => off.gro_set
              /\ job' = [job EXCEPT ![<<s, "forward">>] = read]
              /\ off' \in IF new /\ off.enabled /\ ~gro THEN {off, [off EXCEPT !.unsupported = TRUE]} ELSE {off}
    BY <1>9, Zenon DEF ClientBurst
  <2>2. off.gro_aware \in BOOLEAN /\ (Len(b) > 1 => off.gro_aware)
    BY <1>1, <2>1, Zenon
  <2>3. JobInv(recv(b, off.gro_aware, ses[s].gso_ok, ~opens))
    BY <2>2, ReadJob, Zenon
  <2>4. Jobs'
    BY <1>1, <1>5, <2>1, <2>3, JobChange, Zenon
  <2>5. off' = off \/ off' = [off EXCEPT !.unsupported = TRUE]
    BY <2>1, Zenon
  <2>6. Listener'
    BY <1>1, <2>5, Zenon
  <2>. QED
    BY <1>2, <2>4, <2>6, Zenon
<1>10. ASSUME NEW s \in Session, TargetBurst(s) PROVE OffloadInv'
  <2>1. PICK b \in Bursts : /\ Len(b) > 1 => ses[s].gro
                            /\ job' = [job EXCEPT ![<<s, "reply">>] = recv(b, ses[s].gro, off.gso_ok, FALSE)]
    BY <1>10, Zenon DEF TargetBurst
  <2>2. JobInv(recv(b, ses[s].gro, off.gso_ok, FALSE))
    BY <2>1, ReadJob, Zenon
  <2>3. Jobs'
    BY <1>1, <1>5, <2>1, <2>2, JobChange, Zenon
  <2>. QED
    BY <1>2, <1>4, <1>10, <2>3, Zenon DEF TargetBurst
<1>11. ASSUME NEW s \in Session, Evict(s) PROVE OffloadInv'
  BY <1>1, <1>2, <1>4, <1>5, <1>6, <1>11, JobChange, Zenon DEF Evict
<1>12. ASSUME NEW f \in Flow, GsoSend(f) PROVE OffloadInv'
  <2> DEFINE j == job[f]
  <2>1. JobInv(j) /\ j.pc = "gso"
    BY <1>1, <1>12, Zenon DEF GsoSend
  <2>2. \E k : JobInv(k) /\ job' = [job EXCEPT ![f] = k]
    <3>1. JobInv(ChunkSent(j, Slice(j.data, j.from, chunk_bytes(j.segment))))
      BY <2>1, ChunkJob, Zenon
    <3>2. JobInv(FallsBack(j)) /\ JobInv([j EXCEPT !.pc = "blocked"])
      BY <2>1, PcJob, Zenon DEF FallsBack
    <3>3. JobInv(DropRest(f, j))
      BY <2>1, DropJob, Zenon
    <3>4. \/ job' = [job EXCEPT ![f] = ChunkSent(j, Slice(j.data, j.from, chunk_bytes(j.segment)))]
          \/ job' = [job EXCEPT ![f] = FallsBack(j)]
          \/ job' = [job EXCEPT ![f] = [j EXCEPT !.pc = "blocked"]]
          \/ job' = [job EXCEPT ![f] = DropRest(f, j)]
      BY <1>12, Zenon DEF GsoSend
    <3>. QED
      BY <3>1, <3>2, <3>3, <3>4, Zenon
  <2>3. Jobs'
    BY <1>1, <2>2, JobChange, Zenon
  <2>4. off' = off \/ off' = [off EXCEPT !.gso_ok = FALSE]
    BY <1>12, Zenon DEF GsoSend, Reject
  <2>5. Listener'
    BY <1>1, <2>4, Zenon
  <2>. QED
    BY <1>2, <2>3, <2>5, Zenon
<1>13. ASSUME NEW f \in Flow, PlainSend(f) PROVE OffloadInv'
  <2> DEFINE j == job[f]
             next == Advance(j, j.from + Len(Piece(j)))
             sent == [next EXCEPT !.wire = Append(next.wire, Piece(j)), !.datagrams = next.datagrams + 1]
             lost == [next EXCEPT !.dropped = next.dropped + 1]
  <2>1. JobInv(j) /\ j.pc \in {"plain", "blocked"}
    BY <1>1, <1>13, Zenon DEF PlainSend
  <2>2. JobInv(sent) /\ JobInv(lost)
    BY <2>1, PieceJob, Zenon
  <2>3. j.pc = "plain" => JobInv([j EXCEPT !.pc = "blocked"])
    BY <2>1, PcJob, Zenon
  <2>4. \/ job' = [job EXCEPT ![f] = sent]
        \/ job' = [job EXCEPT ![f] = lost]
        \/ j.pc = "plain" /\ job' = [job EXCEPT ![f] = [j EXCEPT !.pc = "blocked"]]
    BY <1>13, Zenon DEF PlainSend
  <2> HIDE DEF sent, lost
  <2>5. \E k : JobInv(k) /\ job' = [job EXCEPT ![f] = k]
    BY <2>2, <2>3, <2>4, Zenon
  <2>6. Jobs'
    BY <1>1, <2>5, JobChange, Zenon
  <2>. QED
    BY <1>2, <1>4, <1>13, <2>6, Zenon DEF PlainSend
<1>14. ASSUME NEW f \in Flow, Flush(f) PROVE OffloadInv'
  BY <1>1, <1>2, <1>4, <1>6, <1>14, JobChange, Zenon DEF Flush
<1>15. CASE UNCHANGED offloadVars
  BY <1>2, <1>3, <1>4, <1>15, Zenon DEF offloadVars
<1>. QED
  BY <1>7, <1>8, <1>9, <1>10, <1>11, <1>12, <1>13, <1>14, <1>15, Zenon DEF OffloadNext

\* The invariant of the fast path is an invariant.
THEOREM OffloadInvariance == OffloadSpec => []OffloadInv
BY OffloadStart, OffloadStep, PTL DEF OffloadSpec

\* What left a flow came to it, whole, once and in order.
LEMMA FlowWhole == OffloadInv => WholeInOrder
<1>. SUFFICES ASSUME OffloadInv, NEW f \in Flow
              PROVE  LET j == job[f]
                     IN  /\ \A i \in DOMAIN j.wire :
                              \/ j.wire[i] = <<>> /\ j.came = <<0>> /\ Len(j.wire) = 1
                              \/ \E k \in DOMAIN j.came : j.came[k] > 0 /\ j.wire[i] = [b \in 1 .. j.came[k] |-> k]
                         /\ \A i, k \in DOMAIN j.wire : i < k => j.wire[i][1] < j.wire[k][1]
  BY Zenon DEF WholeInOrder
<1> DEFINE j == job[f]
<1>1. JobInv(j)
  BY Zenon DEF OffloadInv
<1>2. CASE j = Idle
  BY <1>2 DEF Idle
<1>3. CASE j # Idle
  <2>1. j.came \in Bursts /\ Sent(j.came, j.wire, Len(j.came))
    <3>1. j.pc = "done" => j.came \in Bursts /\ Sent(j.came, j.wire, Len(j.came))
      BY <1>1, Zenon DEF JobInv, Done
    <3>2. ASSUME Going(j) PROVE j.came \in Bursts /\ Sent(j.came, j.wire, Len(j.came))
      <4> DEFINE m == j.datagrams + j.dropped
      <4>1. j.came \in Bursts /\ Sent(j.came, j.wire, m) /\ m < Len(j.came) /\ j.dropped \in Nat
        BY <3>2, Zenon DEF Going
      <4>2. j.datagrams \in Nat /\ Len(j.came) \in Nat
        BY <1>1 DEF JobInv, Job
      <4>3. m \in Nat /\ m <= Len(j.came)
        BY <4>1, <4>2
      <4> HIDE DEF m
      <4>. QED
        BY <4>1, <4>2, <4>3, SentLess, Zenon
    <3>3. j.pc = "done" \/ Going(j)
      BY <1>1, <1>3, Zenon DEF JobInv, Job
    <3>. QED
      BY <3>1, <3>2, <3>3, Zenon
  <2> DEFINE n == Len(j.came)
  <2>2. /\ j.wire \in Seq(Seq(Nat)) /\ DOMAIN j.wire = 1 .. Len(j.wire) /\ Len(j.wire) \in Nat /\ Len(j.wire) <= n
        /\ \A i \in 1 .. Len(j.wire) : \E k \in 1 .. n : j.wire[i] = Datagram(j.came, k)
        /\ \A i, k \in 1 .. Len(j.wire) : i < k => j.wire[i][1] < j.wire[k][1]
    BY <2>1 DEF Sent
  <2>3. /\ j.came \in Seq(Nat) /\ n \in Nat \ {0} /\ DOMAIN j.came = 1 .. n
        /\ \A k \in 1 .. n : j.came[k] \in Nat
        /\ n > 1 => \A k \in 1 .. n : j.came[k] \in 1 .. j.came[1]
    BY <2>1, Burst, Zenon
  <2>4. ASSUME NEW i \in DOMAIN j.wire
        PROVE  \/ j.wire[i] = <<>> /\ j.came = <<0>> /\ Len(j.wire) = 1
               \/ \E k \in DOMAIN j.came : j.came[k] > 0 /\ j.wire[i] = [b \in 1 .. j.came[k] |-> k]
    <3>1. PICK k \in 1 .. n : j.wire[i] = Datagram(j.came, k)
      BY <2>2, Zenon
    <3>5. k \in DOMAIN j.came /\ i \in 1 .. Len(j.wire)
      BY <2>2, <2>3, Zenon
    <3>2. j.wire[i] = [b \in 1 .. j.came[k] |-> k]
      BY <3>1, Zenon DEF Datagram
    <3>3. CASE j.came[k] > 0
      BY <3>2, <3>3, <3>5, Zenon
    <3>4. CASE ~(j.came[k] > 0)
      <4>1. j.came[k] = 0
        BY <2>3, <3>4
      <4>2. ~(n > 1)
        BY <2>3, <4>1
      <4>3. n = 1
        BY <2>3, <4>2, One, Zenon
      <4>4. k = 1 /\ j.came = <<0>>
        BY <2>3, <4>1, <4>3
      <4>5. Len(j.wire) = 1
        <5>1. Len(j.wire) \in Nat \ {0} /\ ~(Len(j.wire) > 1)
          BY <2>2, <3>5, <4>3
        <5>. QED
          BY <5>1, One, Zenon
      <4>6. 1 .. 0 = {}
        OBVIOUS
      <4>7. j.wire[i] = <<>>
        BY <3>2, <4>1, <4>6
      <4>. QED
        BY <4>4, <4>5, <4>7, Zenon
    <3>. QED
      BY <3>3, <3>4, Zenon
  <2>6. \A i, k \in DOMAIN j.wire : i < k => j.wire[i][1] < j.wire[k][1]
    <3>1. DOMAIN j.wire = 1 .. Len(j.wire)
      BY <2>2, Zenon
    <3>. QED
      BY <2>2, <3>1, Zenon
  <2>. QED
    BY <2>4, <2>6, Zenon
<1>. QED
  BY <1>2, <1>3, Zenon

\* Coalescing is invisible: chunked sends, short last segments and a fallback in
\* mid-burst send the datagrams that arrived, whole, none twice and in order, for
\* any bursts and any limits on a send.
THEOREM BurstsStayWhole == OffloadSpec => []WholeInOrder
<1>1. OffloadInv => WholeInOrder
  BY FlowWhole, Zenon
<1>. QED
  BY <1>1, OffloadInvariance, PTL

\* The counters account for every datagram of a burst, whichever path it took and
\* wherever the sends stopped.
THEOREM BurstsAreCounted == OffloadSpec => []EveryDatagramCounted
<1>1. OffloadInv => EveryDatagramCounted
  BY Zenon DEF OffloadInv, JobInv, Done, EveryDatagramCounted
<1>. QED
  BY <1>1, OffloadInvariance, PTL
=============================================================================
