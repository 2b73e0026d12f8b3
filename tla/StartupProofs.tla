---------------------------- MODULE StartupProofs ----------------------------
(***************************************************************************)
(* The way from a configuration to a serving process and through its       *)
(* reloads, for any files, flags, environments and limits.                 *)
(*                                                                         *)
(* StartInv says what is known of a configuration at each stage of its way:*)
(* the lists loaded are sound and come from their source, the settings     *)
(* main goes on with passed the check with the flags in them, the knobs,   *)
(* those a reload is storing one by one and those a reader has loaded so   *)
(* far have good values, and a flag's knob does not move.                  *)
(***************************************************************************)
EXTENDS Startup, FiniteSetTheorems, WellFoundedInduction, TLAPS

-----------------------------------------------------------------------------
(* Induction and sequences.                                                *)

\* Every nonempty set of naturals has a least element.
LEMMA LeastOf ==
  ASSUME NEW S, S \subseteq Nat, S # {}
  PROVE  \E m \in S : \A n \in S : m <= n
<1>1. PICK m \in S : \A n \in S : ~(<<n, m>> \in OpToRel(<, Nat))
  BY NatLessThanWellFounded, WFMin, Zenon
<1>2. \A n \in S : ~(n < m)
  BY <1>1, Zenon DEF OpToRel
<1>. QED
  BY <1>2

\* A set of naturals with 0 and the successors of its elements has them all: the
\* form of induction that takes no operator.
LEMMA SetInduction ==
  ASSUME NEW S, S \subseteq Nat, 0 \in S, \A n \in S : n + 1 \in S
  PROVE  S = Nat
<1> SUFFICES ASSUME Nat \ S # {} PROVE FALSE
  BY Zenon
<1>1. PICK m \in Nat \ S : \A n \in Nat \ S : m <= n
  BY LeastOf, Zenon
<1>2. m - 1 \in Nat /\ (m - 1) + 1 = m /\ ~(m <= m - 1)
  BY <1>1
<1>. QED
  BY <1>1, <1>2, Zenon

\* A finite set of naturals can be listed in ascending order.
LEMMA AscendingExists ==
  ASSUME NEW S, S \subseteq Nat, IsFiniteSet(S)
  PROVE  \E s \in [1 .. Cardinality(S) -> S] :
           \A i, j \in 1 .. Cardinality(S) : i < j => s[i] < s[j]
<1> DEFINE Listed(T, n) == \E s \in [1 .. n -> T] : \A i, j \in 1 .. n : i < j => s[i] < s[j]
           Good == {n \in Nat : \A T \in SUBSET Nat :
                                  IsFiniteSet(T) /\ Cardinality(T) = n => Listed(T, n)}
<1>1. 0 \in Good
  <2>1. ASSUME NEW T \in SUBSET Nat PROVE Listed(T, 0)
    <3>1. [i \in 1 .. 0 |-> 0] \in [1 .. 0 -> T] /\ \A i \in 1 .. 0 : FALSE
      OBVIOUS
    <3>. QED
      BY <3>1, Zenon
  <2>. QED
    BY <2>1, Zenon
<1>2. ASSUME NEW n \in Good PROVE n + 1 \in Good
  <2>0. n \in Nat /\ n + 1 \in Nat
    OBVIOUS
  <2>1. ASSUME NEW T \in SUBSET Nat, IsFiniteSet(T), Cardinality(T) = n + 1
        PROVE  Listed(T, n + 1)
    <3>1. T # {}
      BY <2>0, <2>1, FS_EmptySet
    <3>2. PICK m \in T : \A x \in T : m <= x
      BY <3>1, LeastOf, Zenon
    <3>3. IsFiniteSet(T \ {m}) /\ Cardinality(T \ {m}) = n
      <4>1. IsFiniteSet(T \ {m}) /\ Cardinality(T \ {m}) = Cardinality(T) - 1
        BY <2>1, FS_RemoveElement, Zenon
      <4>. QED
        BY <2>0, <2>1, <4>1
    <3>4. Listed(T \ {m}, n)
      BY <3>3, Zenon
    <3>5. PICK s \in [1 .. n -> T \ {m}] : \A i, j \in 1 .. n : i < j => s[i] < s[j]
      BY <3>4, Zenon
    <3> DEFINE r == [i \in 1 .. n + 1 |-> IF i = 1 THEN m ELSE s[i - 1]]
    <3>6. \A i \in 1 .. n : s[i] \in Nat /\ s[i] \in T /\ m < s[i]
      <4>1. \A x \in T \ {m} : x \in Nat /\ x \in T /\ m < x
        BY <3>2
      <4>2. \A i \in 1 .. n : s[i] \in T \ {m}
        BY Zenon
      <4>. QED
        BY <4>1, <4>2, Zenon
    <3>7. \A i \in 1 .. n + 1 : i # 1 => i - 1 \in 1 .. n
      BY <2>0
    <3>8. r \in [1 .. n + 1 -> T]
      BY <3>6, <3>7, Zenon
    <3>9. ASSUME NEW i \in 1 .. n + 1, NEW j \in 1 .. n + 1, i < j PROVE r[i] < r[j]
      <4>1. j # 1 /\ j - 1 \in 1 .. n /\ r[j] = s[j - 1]
        BY <2>0, <3>7, <3>9
      <4>2. CASE i = 1
        BY <3>6, <4>1, <4>2, Zenon
      <4>3. CASE i # 1
        <5>1. i - 1 \in 1 .. n /\ r[i] = s[i - 1] /\ i - 1 < j - 1
          BY <2>0, <3>7, <3>9, <4>3
        <5>. QED
          BY <3>5, <4>1, <5>1, Zenon
      <4>. QED
        BY <4>2, <4>3, Zenon
    <3>. QED
      BY <3>8, <3>9, Zenon
  <2>. QED
    BY <2>0, <2>1, Zenon
<1>3. Good = Nat
  <2> HIDE DEF Good
  <2>1. Good \subseteq Nat
    BY Zenon DEF Good
  <2>. QED
    BY <1>1, <1>2, <2>1, SetInduction, Zenon
<1>4. Cardinality(S) \in Nat
  BY FS_CardinalityType, Zenon
<1>. QED
  BY <1>3, <1>4, Zenon

\* The names of the environment's forwarders are looked at one by one.
LEMMA AscendingLists ==
  ASSUME NEW S, S \subseteq Nat, IsFiniteSet(S)
  PROVE  Ascending(S) \in [1 .. Cardinality(S) -> S] /\ Cardinality(S) \in Nat
<1>1. Cardinality(S) \in Nat
  BY FS_CardinalityType, Zenon
<1>. QED
  BY <1>1, AscendingExists, Zenon DEF Ascending

\* What the recursion of Flatten computes, one sequence at a time.
Joins(g, seqs) ==
  g = [i \in 1 .. Len(seqs) |-> IF i = 1 THEN seqs[i] ELSE g[i - 1] \o seqs[i]]

\* The recursion has a solution, so Flatten is the last of the partial joins.
LEMMA FlattenJoins ==
  ASSUME NEW S, NEW seqs \in Seq(Seq(S)), seqs # <<>>
  PROVE  \E g : Joins(g, seqs) /\ Flatten(seqs) = g[Len(seqs)]
<1> DEFINE N == Len(seqs)
           Part(h, n) == /\ h \in [1 .. n -> Seq(S)]
                         /\ \A i \in 1 .. n : h[i] = IF i = 1 THEN seqs[i] ELSE h[i - 1] \o seqs[i]
           Good == {n \in Nat : n <= N => \E h : Part(h, n)}
<1>0. N \in Nat /\ N # 0 /\ \A i \in 1 .. N : seqs[i] \in Seq(S)
  OBVIOUS
<1>1. 0 \in Good
  <2>1. Part([i \in 1 .. 0 |-> <<>>], 0)
    OBVIOUS
  <2>. QED
    BY <2>1, Zenon
<1>2. ASSUME NEW n \in Good PROVE n + 1 \in Good
  <2>0. n \in Nat /\ n + 1 \in Nat
    OBVIOUS
  <2> SUFFICES ASSUME n + 1 <= N PROVE \E h : Part(h, n + 1)
    BY <2>0, Zenon
  <2>1. PICK h : Part(h, n)
    <3>1. n <= N
      BY <1>0, <2>0
    <3>. QED
      BY <3>1, Zenon
  <2> DEFINE last == IF n = 0 THEN seqs[1] ELSE h[n] \o seqs[n + 1]
             k    == [i \in 1 .. n + 1 |-> IF i <= n THEN h[i] ELSE last]
  <2>2. last \in Seq(S)
    <3>1. CASE n = 0
      BY <1>0, <3>1
    <3>2. CASE n # 0
      <4>1. h[n] \in Seq(S) /\ seqs[n + 1] \in Seq(S)
        BY <1>0, <2>0, <2>1, <3>2
      <4>. QED
        BY <3>2, <4>1
    <3>. QED
      BY <3>1, <3>2, Zenon
  <2>3. k \in [1 .. n + 1 -> Seq(S)]
    <3>1. \A i \in 1 .. n + 1 : i <= n => i \in 1 .. n
      BY <2>0
    <3>. QED
      BY <2>1, <2>2, <3>1, Zenon
  <2>4. ASSUME NEW i \in 1 .. n + 1
        PROVE  k[i] = IF i = 1 THEN seqs[i] ELSE k[i - 1] \o seqs[i]
    <3>1. CASE i <= n
      <4>1. i \in 1 .. n /\ k[i] = h[i] /\ (i # 1 => i - 1 \in 1 .. n + 1 /\ k[i - 1] = h[i - 1])
        BY <2>0, <3>1
      <4>. QED
        BY <2>1, <4>1, Zenon
    <3>2. CASE i = n + 1
      <4>1. k[i] = last /\ (i # 1 => n # 0 /\ i - 1 = n /\ k[n] = h[n]) /\ (i = 1 => n = 0)
        BY <2>0, <3>2
      <4>. QED
        BY <3>2, <4>1, Zenon
    <3>. QED
      BY <2>0, <3>1, <3>2
  <2>. QED
    BY <2>3, <2>4, Zenon
<1>3. Good = Nat
  <2> HIDE DEF Good
  <2>1. Good \subseteq Nat
    BY Zenon DEF Good
  <2>. QED
    BY <1>1, <1>2, <2>1, SetInduction, Zenon
<1>4. PICK h : Part(h, N)
  <2>1. N \in Good
    BY <1>0, <1>3, Zenon
  <2>2. N <= N
    BY <1>0
  <2>. QED
    BY <2>1, <2>2, Zenon
<1> DEFINE G == CHOOSE g : g = [i \in 1 .. Len(seqs) |-> IF i = 1 THEN seqs[i] ELSE g[i - 1] \o seqs[i]]
<1>5. Joins(h, seqs)
  BY <1>4, Zenon DEF Joins
<1>6. Joins(G, seqs)
  BY <1>5, Zenon DEF Joins
<1>7. Flatten(seqs) = G[Len(seqs)]
  BY <1>0, Zenon DEF Flatten
<1>. QED
  BY <1>6, <1>7, Zenon

\* What concatenation does to the elements of two sequences.
LEMMA ConcatElements ==
  ASSUME NEW S, NEW a \in Seq(S), NEW b \in Seq(S)
  PROVE  a \o b \in Seq(S) /\ Range(a \o b) = Range(a) \cup Range(b)
<1> DEFINE c == a \o b
<1>1. /\ c \in Seq(S) /\ Len(a) \in Nat /\ Len(b) \in Nat /\ Len(c) = Len(a) + Len(b)
      /\ DOMAIN a = 1 .. Len(a) /\ DOMAIN b = 1 .. Len(b) /\ DOMAIN c = 1 .. Len(c)
  OBVIOUS
<1>2. \A i \in 1 .. Len(c) : c[i] = IF i <= Len(a) THEN a[i] ELSE b[i - Len(a)]
  OBVIOUS
<1> HIDE DEF c
<1>3. ASSUME NEW x \in Range(c) PROVE x \in Range(a) \cup Range(b)
  <2>1. PICK i \in 1 .. Len(c) : x = c[i]
    BY <1>1, Zenon DEF Range
  <2>2. i <= Len(a) => i \in DOMAIN a /\ x = a[i]
    BY <1>1, <1>2, <2>1
  <2>3. ~(i <= Len(a)) => i - Len(a) \in DOMAIN b /\ x = b[i - Len(a)]
    BY <1>1, <1>2, <2>1
  <2>. QED
    BY <2>2, <2>3, Zenon DEF Range
<1>4. ASSUME NEW x \in Range(a) PROVE x \in Range(c)
  <2>1. PICK i \in DOMAIN a : x = a[i]
    BY Zenon DEF Range
  <2>2. i \in DOMAIN c /\ x = c[i]
    BY <1>1, <1>2, <2>1
  <2>. QED
    BY <2>2, Zenon DEF Range
<1>5. ASSUME NEW x \in Range(b) PROVE x \in Range(c)
  <2>1. PICK i \in DOMAIN b : x = b[i]
    BY Zenon DEF Range
  <2>2. i + Len(a) \in DOMAIN c /\ (i + Len(a)) - Len(a) = i /\ ~(i + Len(a) <= Len(a))
    BY <1>1, <2>1
  <2>3. x = c[i + Len(a)]
    BY <1>1, <1>2, <2>1, <2>2, Zenon
  <2>. QED
    BY <2>2, <2>3, Zenon DEF Range
<1>. QED
  BY <1>1, <1>3, <1>4, <1>5, Zenon DEF c

\* Flatten of sequences has their elements and no others.
LEMMA FlattenElements ==
  ASSUME NEW S, NEW seqs \in Seq(Seq(S))
  PROVE  /\ Flatten(seqs) \in Seq(S)
         /\ Range(Flatten(seqs)) = UNION {Range(seqs[i]) : i \in DOMAIN seqs}
<1>1. CASE seqs = <<>>
  <2>1. Flatten(seqs) = <<>> /\ DOMAIN seqs = {}
    BY <1>1 DEF Flatten
  <2>2. Range(<<>>) = {}
    BY DEF Range
  <2>. QED
    BY <2>1, <2>2
<1>2. CASE seqs # <<>>
  <2> DEFINE N == Len(seqs)
  <2>1. PICK g : Joins(g, seqs) /\ Flatten(seqs) = g[N]
    BY <1>2, FlattenJoins, Zenon
  <2>2. /\ N \in Nat /\ N # 0 /\ DOMAIN seqs = 1 .. N
        /\ \A i \in 1 .. N : seqs[i] \in Seq(S)
    BY <1>2
  <2>3. \A i \in 1 .. N : g[i] = IF i = 1 THEN seqs[i] ELSE g[i - 1] \o seqs[i]
    BY <2>1, Zenon DEF Joins
  <2> DEFINE Below(n) == UNION {Range(seqs[i]) : i \in 1 .. n}
  <2> HIDE DEF N
  <2>4. g[1] \in Seq(S) /\ Range(g[1]) = Below(1)
    <3>1. g[1] = seqs[1] /\ seqs[1] \in Seq(S)
      <4>1. 1 \in 1 .. N
        BY <2>2
      <4>. QED
        BY <2>2, <2>3, <4>1, Zenon
    <3>2. 1 .. 1 = {1}
      OBVIOUS
    <3>3. Below(1) = Range(seqs[1])
      BY <3>2, Zenon
    <3>. QED
      BY <3>1, <3>3, Zenon
  <2>5. ASSUME NEW n \in Nat, n + 1 < N, g[n + 1] \in Seq(S), Range(g[n + 1]) = Below(n + 1)
        PROVE  g[n + 2] \in Seq(S) /\ Range(g[n + 2]) = Below(n + 2)
    <3> HIDE DEF Below
    <3>1. n + 2 \in 1 .. N /\ n + 2 # 1 /\ (n + 2) - 1 = n + 1
      BY <2>2, <2>5
    <3>2. seqs[n + 2] \in Seq(S) /\ g[n + 2] = g[n + 1] \o seqs[n + 2]
      BY <2>2, <2>3, <3>1, Zenon
    <3>3. Range(g[n + 2]) = Below(n + 1) \cup Range(seqs[n + 2]) /\ g[n + 2] \in Seq(S)
      <4>1. /\ Range(g[n + 1] \o seqs[n + 2]) = Range(g[n + 1]) \cup Range(seqs[n + 2])
            /\ g[n + 1] \o seqs[n + 2] \in Seq(S)
        BY <2>5, <3>2, ConcatElements
      <4>. QED
        BY <2>5, <3>2, <4>1, Zenon
    <3>4. 1 .. n + 2 = (1 .. n + 1) \cup {n + 2}
      OBVIOUS
    <3>5. Below(n + 2) = Below(n + 1) \cup Range(seqs[n + 2])
      BY <3>4, Zenon DEF Below
    <3>. QED
      BY <3>3, <3>5, Zenon
  <2> DEFINE Good == {n \in Nat : n < N => g[n + 1] \in Seq(S) /\ Range(g[n + 1]) = Below(n + 1)}
  <2> HIDE DEF Below
  <2>6. Good = Nat
    <3>1. 0 \in Good
      BY <2>4
    <3>2. ASSUME NEW n \in Good PROVE n + 1 \in Good
      <4>1. n \in Nat /\ (n + 1) + 1 = n + 2 /\ (n + 1 < N => n < N)
        BY <2>2
      <4>. QED
        BY <2>5, <4>1
    <3> HIDE DEF Good
    <3>3. Good \subseteq Nat
      BY Zenon DEF Good
    <3>. QED
      BY <3>1, <3>2, <3>3, SetInduction, Zenon
  <2>7. N - 1 \in Nat /\ N - 1 < N /\ (N - 1) + 1 = N
    BY <2>2
  <2>8. g[N] \in Seq(S) /\ Range(g[N]) = Below(N)
    BY <2>6, <2>7, Zenon
  <2>. QED
    BY <2>1, <2>2, <2>8, Zenon DEF Below, N
<1>. QED
  BY <1>1, <1>2, Zenon

-----------------------------------------------------------------------------
(* Entries and the forwarders made of them.                                *)

\* Two spans of the same length, within u16.
GoodSpec(spec) ==
  /\ {spec.local.start, spec.local.end, spec.remote.start, spec.remote.end} \subseteq U16
  /\ spec.local.start <= spec.local.end
  /\ spec.local.end - spec.local.start = spec.remote.end - spec.remote.start

\* PortSpan::range accepts what starts at a port and does not run backwards.
LEMMA RangeSpan ==
  ASSUME NEW p \in U16, NEW q \in U16, NEW span \in range(p, q)
  PROVE  span.start = p /\ span.end = q /\ p <= q
BY PortAssumption DEF range, U16

\* ForwarderSpec::new makes a good spec of two spans.
LEMMA NewSpec ==
  ASSUME NEW lh, NEW l, NEW rh, NEW r, NEW p, NEW spec \in ForwarderSpec_new(lh, l, rh, r, p),
         {l.start, l.end, r.start, r.end} \subseteq U16, l.start <= l.end
  PROVE  /\ GoodSpec(spec) /\ spec.local = l /\ spec.remote = r
         /\ spec.local_host = lh /\ spec.remote_host = rh /\ spec.protocol = p
<1>1. SpanLen(l) = SpanLen(r) /\ spec = [local_host |-> lh, local |-> l, remote_host |-> rh,
                                         remote |-> r, protocol |-> p]
  BY Zenon DEF ForwarderSpec_new
<1>2. /\ spec.local = l /\ spec.remote = r
      /\ spec.local_host = lh /\ spec.remote_host = rh /\ spec.protocol = p
  BY <1>1, Zenon
<1>3. l.end - l.start = r.end - r.start
  BY <1>1, PortAssumption DEF SpanLen, U16
<1>. QED
  BY <1>2, <1>3, Zenon DEF GoodSpec

\* What parse makes of a text is a span.
LEMMA ParsedSpan ==
  ASSUME NEW text, NEW span \in parse(text)
  PROVE  {span.start, span.end} \subseteq U16 /\ span.start <= span.end
<1>1. CASE ~text.dash
  <2>1. PICK p \in text.first \cap U16 : span = single(p)
    BY <1>1 DEF parse
  <2>. QED
    BY <2>1, PortAssumption DEF single, U16
<1>2. CASE text.dash
  <2>1. PICK p \in text.first \cap U16, q \in text.last \cap U16 : span \in range(p, q)
    BY <1>2 DEF parse
  <2>. QED
    BY <2>1, RangeSpan
<1>. QED
  BY <1>1, <1>2, Zenon

\* parse_forwarder_spec yields good specs only.
LEMMA TextSpec ==
  ASSUME NEW entry, NEW spec \in parse_forwarder_spec(entry)
  PROVE  GoodSpec(spec)
<1>1. PICK l \in parse(entry.local), r \in parse(entry.remote), p \in SuffixProtocol(entry.suffix) :
        spec \in ForwarderSpec_new(entry.local_host, l, entry.remote_host, r, p)
  BY DEF parse_forwarder_spec
<1>2. /\ {l.start, l.end} \subseteq U16 /\ l.start <= l.end /\ {r.start, r.end} \subseteq U16
  BY <1>1, ParsedSpan, Zenon
<1>3. {l.start, l.end, r.start, r.end} \subseteq U16
  BY <1>2, Zenon
<1>. QED
  BY <1>1, <1>2, <1>3, NewSpec, Zenon

\* What into_spec makes of an entry of the file.
LEMMA RawSpec ==
  ASSUME NEW raw, IsRaw(raw), NEW spec \in into_spec(raw)
  PROVE  /\ GoodSpec(spec)
         /\ spec.local.start = raw.local_port /\ spec.remote.start = raw.remote_port
         /\ spec.local_host = raw.local_host /\ spec.remote_host = raw.remote_host
         /\ spec.protocol = raw.protocol
         /\ IF raw.local_port_end = {} THEN spec.local.end = raw.local_port
            ELSE raw.local_port_end = {spec.local.end}
         /\ \A l \in raw.local_port_end, r \in raw.remote_port_end :
              l - raw.local_port = r - raw.remote_port
<1>0. PICK l \in RawLocal(raw) : \E r \in RawRemote(raw, l) :
        spec \in ForwarderSpec_new(raw.local_host, l, raw.remote_host, r, raw.protocol)
  BY DEF into_spec
<1>1. PICK r \in RawRemote(raw, l) :
        spec \in ForwarderSpec_new(raw.local_host, l, raw.remote_host, r, raw.protocol)
  BY <1>0, Zenon
<1>2. /\ raw.local_port \in U16 /\ raw.remote_port \in U16
      /\ raw.local_port_end \subseteq U16 /\ raw.remote_port_end \subseteq U16
      /\ \A p, q \in raw.local_port_end : p = q
      /\ \A p, q \in raw.remote_port_end : p = q
  BY Zenon DEF IsRaw
<1>3. CASE raw.local_port_end = {}
  <2>1. l = single(raw.local_port) /\ r = single(raw.remote_port) /\ raw.remote_port_end = {}
    BY <1>1, <1>3, Zenon DEF RawLocal, RawRemote
  <2>2. /\ l.start = raw.local_port /\ l.end = raw.local_port
        /\ r.start = raw.remote_port /\ r.end = raw.remote_port
    BY <2>1, Zenon DEF single
  <2>3. {l.start, l.end, r.start, r.end} \subseteq U16 /\ l.start <= l.end
    BY <1>2, <2>2, PortAssumption DEF U16
  <2>4. /\ GoodSpec(spec) /\ spec.local = l /\ spec.remote = r
        /\ spec.local_host = raw.local_host /\ spec.remote_host = raw.remote_host
        /\ spec.protocol = raw.protocol
    BY <1>1, <2>3, NewSpec
  <2>. QED
    BY <1>3, <2>2, <2>4, Zenon
<1>4. CASE raw.local_port_end # {}
  <2>1. PICK e \in raw.local_port_end : l \in range(raw.local_port, e)
    BY <1>1, <1>4, Zenon DEF RawLocal
  <2>2. PICK x \in RawRemoteEnd(raw, l) : r \in range(raw.remote_port, x)
    BY <1>1, <1>4, Zenon DEF RawRemote
  <2>3. x \in U16 /\ (raw.remote_port_end # {} => x \in raw.remote_port_end)
    BY <1>2, <2>2, Zenon DEF RawRemoteEnd
  <2>4. l.start = raw.local_port /\ l.end = e /\ l.start <= l.end /\ l.start \in U16 /\ l.end \in U16
    BY <1>2, <2>1, RangeSpan
  <2>5. r.start = raw.remote_port /\ r.end = x /\ r.start \in U16 /\ r.end \in U16
    BY <1>2, <2>2, <2>3, RangeSpan
  <2>6. {l.start, l.end, r.start, r.end} \subseteq U16
    BY <2>4, <2>5, Zenon
  <2>7. /\ GoodSpec(spec) /\ spec.local = l /\ spec.remote = r
        /\ spec.local_host = raw.local_host /\ spec.remote_host = raw.remote_host
        /\ spec.protocol = raw.protocol
    BY <1>1, <2>4, <2>6, NewSpec
  <2>8. raw.local_port_end = {e}
    BY <1>2, <2>1, Zenon
  <2>9. e - raw.local_port = x - raw.remote_port
    BY <2>4, <2>5, <2>7, Zenon DEF GoodSpec
  <2>10. \A y \in raw.remote_port_end : y = x
    BY <1>2, <2>3, Zenon
  <2>. QED
    BY <1>4, <2>4, <2>5, <2>7, <2>8, <2>9, <2>10, Zenon
<1>. QED
  BY <1>3, <1>4, Zenon

\* The forwarders of one spec: one per port of the span.
PortsOf(spec) == {ForwarderConfig(spec, k) : k \in 0 .. spec.local.end - spec.local.start}

\* expand yields exactly those.
LEMMA ExpandElements ==
  ASSUME NEW spec, GoodSpec(spec)
  PROVE  expand(spec) \in Seq(PortsOf(spec)) /\ Range(expand(spec)) = PortsOf(spec)
<1> DEFINE d == spec.local.end - spec.local.start
<1>1. d \in Nat /\ SpanLen(spec.local) = d + 1
  BY PortAssumption DEF GoodSpec, SpanLen, U16
<1>2. expand(spec) = [k \in 1 .. d + 1 |-> ForwarderConfig(spec, k - 1)]
  BY <1>1, Zenon DEF expand
<1> HIDE DEF d
<1>3. \A k \in 1 .. d + 1 : k - 1 \in 0 .. d
  BY <1>1
<1>4. \A k \in 0 .. d : k + 1 \in 1 .. d + 1 /\ (k + 1) - 1 = k
  BY <1>1
<1>5. \A k \in 1 .. d + 1 : ForwarderConfig(spec, k - 1) \in PortsOf(spec)
  BY <1>3, Zenon DEF PortsOf, d
<1>6. expand(spec) \in Seq(PortsOf(spec))
  <2>1. d + 1 \in Nat
    BY <1>1
  <2>. QED
    BY <1>2, <1>5, <2>1
<1>7. Range(expand(spec)) = {ForwarderConfig(spec, k - 1) : k \in 1 .. d + 1}
  BY <1>2, Zenon DEF Range
<1>8. {ForwarderConfig(spec, k - 1) : k \in 1 .. d + 1} = PortsOf(spec)
  <2>1. ASSUME NEW k \in 0 .. d
        PROVE  ForwarderConfig(spec, k) \in {ForwarderConfig(spec, j - 1) : j \in 1 .. d + 1}
    <3>1. k + 1 \in 1 .. d + 1 /\ ForwarderConfig(spec, k) = ForwarderConfig(spec, (k + 1) - 1)
      BY <1>4, Zenon
    <3>. QED
      BY <3>1, Zenon
  <2>2. \A x \in PortsOf(spec) : \E k \in 0 .. d : x = ForwarderConfig(spec, k)
    BY Zenon DEF PortsOf, d
  <2>. QED
    BY <1>5, <2>1, <2>2, Zenon
<1>. QED
  BY <1>6, <1>7, <1>8, Zenon

\* Every port of a spec is a u16, on both sides.
LEMMA PortsFit ==
  ASSUME NEW spec, GoodSpec(spec), NEW f \in PortsOf(spec)
  PROVE  {f.local_port, f.remote_port} \subseteq U16
<1>1. PICK k \in 0 .. spec.local.end - spec.local.start : f = ForwarderConfig(spec, k)
  BY Zenon DEF PortsOf
<1>2. f.local_port = spec.local.start + k /\ f.remote_port = spec.remote.start + k
  BY <1>1, Zenon DEF ForwarderConfig
<1>. QED
  BY <1>1, <1>2, PortAssumption DEF GoodSpec, U16

\* expand_specs yields one list or none, with the ports of all its specs.
LEMMA ExpandSpecs ==
  ASSUME NEW n \in Nat, NEW specs, DOMAIN specs = 1 .. n, \A i \in 1 .. n : GoodSpec(specs[i]),
         NEW l \in expand_specs(specs)
  PROVE  /\ Range(l) = UNION {PortsOf(specs[i]) : i \in 1 .. n}
         /\ DOMAIN l = 1 .. Len(l) /\ Len(l) \in Nat
         /\ \A i \in DOMAIN l : {l[i].local_port, l[i].remote_port} \subseteq U16
<1> DEFINE All  == UNION {PortsOf(specs[i]) : i \in 1 .. n}
           seqs == [i \in DOMAIN specs |-> expand(specs[i])]
<1>1. l = Flatten(seqs)
  BY Zenon DEF expand_specs
<1>2. \A i \in 1 .. n : expand(specs[i]) \in Seq(PortsOf(specs[i])) /\ Range(expand(specs[i])) = PortsOf(specs[i])
  BY ExpandElements, Zenon
<1>3. \A i \in 1 .. n : PortsOf(specs[i]) \subseteq All
  BY Zenon
<1> HIDE DEF All
<1>4. \A i \in 1 .. n : expand(specs[i]) \in Seq(All)
  BY <1>2, <1>3
<1>5. seqs \in Seq(Seq(All)) /\ DOMAIN seqs = 1 .. n /\ \A i \in 1 .. n : seqs[i] = expand(specs[i])
  BY <1>4
<1> HIDE DEF seqs
<1>6. l \in Seq(All) /\ Range(l) = UNION {Range(seqs[i]) : i \in DOMAIN seqs}
  BY <1>1, <1>5, FlattenElements, Zenon
<1>7. \A i \in DOMAIN seqs : Range(seqs[i]) = PortsOf(specs[i])
  BY <1>2, <1>5, Zenon
<1>8. Range(l) = All
  BY <1>5, <1>6, <1>7, Zenon DEF All
<1>9. \A f \in All : {f.local_port, f.remote_port} \subseteq U16
  BY PortsFit, Zenon DEF All
<1>10. DOMAIN l = 1 .. Len(l) /\ Len(l) \in Nat /\ \A i \in DOMAIN l : l[i] \in All
  BY <1>6
<1>. QED
  BY <1>8, <1>9, <1>10, Zenon DEF All

\* Each loader yields at most one list: a Result.
LEMMA OneList ==
  /\ \A specs : \E l : expand_specs(specs) \subseteq {l}
  /\ \A results : \E specs : AllSpecs(results) \subseteq {specs}
<1>1. \A specs : \E l : expand_specs(specs) \subseteq {l}
  BY Zenon DEF expand_specs
<1>2. \A results : \E specs : AllSpecs(results) \subseteq {specs}
  BY Zenon DEF AllSpecs
<1>. QED
  BY <1>1, <1>2, Zenon

\* The ports into_spec gives an entry are the ones its numbers ask for.
LEMMA WantedPorts ==
  ASSUME NEW raw, IsRaw(raw), NEW spec \in into_spec(raw)
  PROVE  PortsOf(spec) = {f \in Wanted(raw) : InRange(raw, f)}
<1> DEFINE d == spec.local.end - spec.local.start
           top == IF raw.local_port_end = {} THEN 0 ELSE MaxPort
           Entry(k) == [local_host  |-> raw.local_host,  local_port  |-> raw.local_port + k,
                        remote_host |-> raw.remote_host, remote_port |-> raw.remote_port + k,
                        protocol    |-> raw.protocol]
<1>1. /\ GoodSpec(spec)
      /\ spec.local.start = raw.local_port /\ spec.remote.start = raw.remote_port
      /\ spec.local_host = raw.local_host /\ spec.remote_host = raw.remote_host
      /\ spec.protocol = raw.protocol
      /\ IF raw.local_port_end = {} THEN spec.local.end = raw.local_port
         ELSE raw.local_port_end = {spec.local.end}
  BY RawSpec, Zenon
<1>2. /\ raw.local_port \in 0 .. MaxPort /\ spec.local.end \in 0 .. MaxPort
      /\ MaxPort \in Nat /\ d \in 0 .. MaxPort /\ d = spec.local.end - raw.local_port
  BY <1>1, PortAssumption DEF GoodSpec, U16
<1>3. \A k : ForwarderConfig(spec, k) = Entry(k)
  BY <1>1, Zenon DEF ForwarderConfig
<1>4. Wanted(raw) = {Entry(k) : k \in 0 .. top}
  BY Zenon DEF Wanted
<1>5. \A k : Entry(k).local_port = raw.local_port + k
  BY Zenon
<1> HIDE DEF Entry
<1>6. ASSUME NEW k \in 0 .. d PROVE k \in 0 .. top /\ InRange(raw, Entry(k))
  <2>1. CASE raw.local_port_end = {}
    BY <1>1, <1>2, <2>1 DEF InRange
  <2>2. CASE raw.local_port_end # {}
    <3>1. raw.local_port_end = {spec.local.end} /\ raw.local_port + k <= spec.local.end
      BY <1>1, <1>2, <2>2
    <3>2. InRange(raw, Entry(k))
      BY <1>5, <3>1, Zenon DEF InRange
    <3>. QED
      BY <1>2, <2>2, <3>2
  <2>. QED
    BY <2>1, <2>2, Zenon
<1>7. ASSUME NEW k \in 0 .. top, InRange(raw, Entry(k)) PROVE k \in 0 .. d
  <2>1. CASE raw.local_port_end = {}
    BY <1>1, <1>2, <2>1
  <2>2. CASE raw.local_port_end # {}
    <3>1. raw.local_port + k <= spec.local.end
      BY <1>1, <1>5, <1>7, <2>2, Zenon DEF InRange
    <3>. QED
      BY <1>2, <2>2, <3>1
  <2>. QED
    BY <2>1, <2>2, Zenon
<1>8. PortsOf(spec) = {Entry(k) : k \in 0 .. d}
  BY <1>3, Zenon DEF PortsOf
<1> HIDE DEF d, top
<1>. QED
  BY <1>4, <1>6, <1>7, <1>8, Zenon

\* What a list of the file's entries becomes.
LEMMA FileForwarders ==
  ASSUME NEW raws, raws \in Seq(Range(raws)), \A raw \in Range(raws) : IsRaw(raw),
         NEW l \in deserialize_forwarders(raws)
  PROVE  /\ Range(l) = UNION {{f \in Wanted(raws[i]) : InRange(raws[i], f)} : i \in DOMAIN raws}
         /\ \A i \in DOMAIN l : {l[i].local_port, l[i].remote_port} \subseteq U16
         /\ \A i \in DOMAIN raws : \A p \in raws[i].local_port_end, q \in raws[i].remote_port_end :
              p - raws[i].local_port = q - raws[i].remote_port
<1> DEFINE n == Len(raws)
           results == [i \in DOMAIN raws |-> into_spec(raws[i])]
           specs == [i \in DOMAIN results |-> CHOOSE spec \in results[i] : TRUE]
<1>1. n \in Nat /\ DOMAIN raws = 1 .. n /\ \A i \in 1 .. n : IsRaw(raws[i])
  BY DEF Range
<1>2. /\ \A i \in DOMAIN results : results[i] # {}
      /\ l \in expand_specs(specs)
  BY Zenon DEF deserialize_forwarders, AllSpecs
<1>3. DOMAIN specs = 1 .. n /\ \A i \in 1 .. n : specs[i] \in into_spec(raws[i])
  BY <1>1, <1>2, Zenon
<1> HIDE DEF specs, n, results
<1>4. \A i \in 1 .. n : /\ GoodSpec(specs[i])
                        /\ PortsOf(specs[i]) = {f \in Wanted(raws[i]) : InRange(raws[i], f)}
                        /\ \A p \in raws[i].local_port_end, q \in raws[i].remote_port_end :
                             p - raws[i].local_port = q - raws[i].remote_port
  BY <1>1, <1>3, RawSpec, WantedPorts, Zenon
<1>5. /\ Range(l) = UNION {PortsOf(specs[i]) : i \in 1 .. n}
      /\ \A i \in DOMAIN l : {l[i].local_port, l[i].remote_port} \subseteq U16
  BY <1>1, <1>2, <1>3, <1>4, ExpandSpecs, Zenon
<1>. QED
  BY <1>1, <1>4, <1>5, Zenon

\* What the texts of the command line become, and that it is determined.
LEMMA CliForwarders ==
  ASSUME NEW texts, texts \in Seq(Range(texts)), NEW l \in cli_forwarders(texts)
  PROVE  /\ cli_forwarders(texts) = {l}
         /\ \A i \in DOMAIN l : {l[i].local_port, l[i].remote_port} \subseteq U16
<1> DEFINE n == Len(texts)
           results == [i \in DOMAIN texts |-> parse_forwarder_spec(texts[i])]
           specs == [i \in DOMAIN results |-> CHOOSE spec \in results[i] : TRUE]
<1>1. n \in Nat /\ DOMAIN texts = 1 .. n
  OBVIOUS
<1>2. /\ \A i \in DOMAIN results : results[i] # {}
      /\ l \in expand_specs(specs)
      /\ cli_forwarders(texts) = expand_specs(specs)
  <2>1. cli_forwarders(texts) = UNION {expand_specs(s) : s \in AllSpecs(results)}
    BY Zenon DEF cli_forwarders
  <2>2. AllSpecs(results) # {}
    BY <2>1, Zenon
  <2>3. AllSpecs(results) = {specs} /\ \A i \in DOMAIN results : results[i] # {}
    BY <2>2, Zenon DEF AllSpecs
  <2> HIDE DEF specs, results
  <2>. QED
    BY <2>1, <2>3, Zenon
<1>3. DOMAIN specs = 1 .. n /\ \A i \in 1 .. n : specs[i] \in parse_forwarder_spec(texts[i])
  BY <1>1, <1>2, Zenon
<1> HIDE DEF specs, n, results
<1>4. \A i \in 1 .. n : GoodSpec(specs[i])
  BY <1>3, TextSpec, Zenon
<1>5. \A i \in DOMAIN l : {l[i].local_port, l[i].remote_port} \subseteq U16
  BY <1>1, <1>2, <1>3, <1>4, ExpandSpecs, Zenon
<1>6. cli_forwarders(texts) = {l}
  BY <1>2, OneList, Zenon
<1>. QED
  BY <1>5, <1>6, Zenon

\* What the environment's texts become, and that it is determined.
LEMMA EnvForwarders ==
  ASSUME NEW texts, IsFiniteSet(DOMAIN texts), DOMAIN texts \subseteq Nat,
         NEW l \in load_env_forwarders(texts)
  PROVE  /\ load_env_forwarders(texts) = {l}
         /\ \A i \in DOMAIN l : {l[i].local_port, l[i].remote_port} \subseteq U16
<1> DEFINE sound == {n \in DOMAIN texts : parse_forwarder_spec(texts[n]) # {}}
           order == Ascending(sound)
           specs == [i \in DOMAIN order |-> CHOOSE spec \in parse_forwarder_spec(texts[order[i]]) : TRUE]
           n == Cardinality(sound)
<1>1. load_env_forwarders(texts) = expand_specs(specs)
  BY Zenon DEF load_env_forwarders
<1>2. IsFiniteSet(sound) /\ sound \subseteq Nat
  BY FS_Subset, Zenon
<1>3. order \in [1 .. n -> sound] /\ n \in Nat
  <2> HIDE DEF sound
  <2>. QED
    BY <1>2, AscendingLists, Zenon
<1> HIDE DEF order, n
<1>4. DOMAIN specs = 1 .. n /\ \A i \in 1 .. n : specs[i] \in parse_forwarder_spec(texts[order[i]])
  BY <1>3, Zenon
<1> HIDE DEF specs, sound
<1>5. \A i \in 1 .. n : GoodSpec(specs[i])
  BY <1>4, TextSpec, Zenon
<1>6. \A i \in DOMAIN l : {l[i].local_port, l[i].remote_port} \subseteq U16
  BY <1>1, <1>3, <1>4, <1>5, ExpandSpecs
<1>7. load_env_forwarders(texts) = {l}
  BY <1>1, OneList, Zenon
<1>. QED
  BY <1>6, <1>7, Zenon

-----------------------------------------------------------------------------
(* Settings.                                                               *)

\* All the fields, each with a value of its type.
IsSettings(s) == Written(s) /\ DOMAIN s = DOMAIN Default

Fields == {"metrics_addr", "report_interval_secs", "sample_interval_secs", "buffer_bytes",
           "socket_buffer_bytes", "use_splice", "max_connections", "connect_timeout_secs",
           "dns_timeout_secs", "keepalive_idle_secs", "keepalive_interval_secs",
           "keepalive_retries", "webhook_url", "instance_name", "probe_interval_secs",
           "unreachable_after_secs", "udp_session_timeout_secs", "udp_max_sessions",
           "udp_gro_gso"}

Options  == {"socket_buffer_bytes", "max_connections"}
TextFields    == {"metrics_addr", "webhook_url", "instance_name"}
Switches == {"use_splice", "udp_gro_gso"}
Numbers  == Fields \ (Options \cup TextFields \cup Switches)

\* The names of the fields.
LEMMA FieldNames == DOMAIN Default = Fields
BY DEF Default, Fields

\* The type of a field, by its kind.
LEMMA FieldKinds ==
  ASSUME NEW f \in Fields, NEW v
  PROVE  /\ f \in Numbers => (OfField(f, v) <=> v \in Nat)
         /\ f \in Options => (OfField(f, v) <=> \A n, m \in v : n \in Nat /\ n = m)
         /\ f \in TextFields => OfField(f, v)
         /\ f \in Switches => (OfField(f, v) <=> v \in BOOLEAN)
BY Zenon DEF OfField, Fields, Numbers, Options, TextFields, Switches

\* The defaults are settings.
LEMMA DefaultTyped == IsSettings(Default)
<1> SUFFICES ASSUME NEW f \in Fields PROVE OfField(f, Default[f])
  BY FieldNames, Zenon DEF IsSettings, Written
<1>1. CASE f \in Numbers
  <2>1. Default[f] \in Nat
    BY <1>1 DEF Default, Numbers, Fields, Options, TextFields, Switches
  <2>. QED
    BY <1>1, <2>1, FieldKinds, Zenon
<1>2. CASE f \in Options
  <2>1. Default[f] = {}
    BY <1>2 DEF Default, Options
  <2>. QED
    BY <1>2, <2>1, FieldKinds, Zenon
<1>3. CASE f \in Switches
  <2>1. Default[f] = FALSE
    BY <1>3 DEF Default, Switches
  <2>. QED
    BY <1>3, <2>1, FieldKinds, Zenon
<1>. QED
  BY <1>1, <1>2, <1>3, FieldKinds, Zenon DEF Numbers

\* Fields laid over settings make settings.
LEMMA OverTyped ==
  ASSUME NEW top, Written(top), NEW bottom, IsSettings(bottom)
  PROVE  /\ IsSettings(Over(top, bottom))
         /\ \A f \in DOMAIN top : Over(top, bottom)[f] = top[f]
<1>1. DOMAIN Over(top, bottom) = DOMAIN top \cup DOMAIN bottom
  BY Zenon DEF Over
<1>2. DOMAIN top \cup DOMAIN bottom = DOMAIN Default
  BY Zenon DEF IsSettings, Written
<1>3. \A f \in DOMAIN top \cup DOMAIN bottom :
        Over(top, bottom)[f] = IF f \in DOMAIN top THEN top[f] ELSE bottom[f]
  BY Zenon DEF Over
<1>4. \A f \in DOMAIN Default : OfField(f, Over(top, bottom)[f])
  BY <1>2, <1>3, Zenon DEF IsSettings, Written
<1>. QED
  BY <1>1, <1>2, <1>3, <1>4, Zenon DEF IsSettings, Written

\* The file's settings are settings.
LEMMA FileTyped == ASSUME NEW w, Written(w) PROVE IsSettings(FromFile(w))
BY OverTyped, DefaultTyped, Zenon DEF FromFile

\* So are they under the flags, which prevail.
LEMMA CliTyped ==
  ASSUME NEW s, IsSettings(s), NEW flags, Written(flags)
  PROVE  /\ IsSettings(apply_cli_overrides(s, flags))
         /\ \A f \in DOMAIN flags \ {"webhook_url"} : apply_cli_overrides(s, flags)[f] = flags[f]
<1> DEFINE top == [f \in DOMAIN flags |-> IF f = "webhook_url" THEN flags[f] \ {"blank"} ELSE flags[f]]
<1>1. apply_cli_overrides(s, flags) = Over(top, s)
  BY Zenon DEF apply_cli_overrides
<1>2. DOMAIN top = DOMAIN flags /\ \A f \in DOMAIN flags \ {"webhook_url"} : top[f] = flags[f]
  BY Zenon
<1> HIDE DEF top
<1>3. ASSUME NEW f \in DOMAIN flags PROVE OfField(f, top[f])
  <2>1. f \in Fields /\ OfField(f, flags[f])
    BY FieldNames, Zenon DEF Written
  <2>2. CASE f = "webhook_url"
    BY <2>1, <2>2, FieldKinds, Zenon DEF TextFields
  <2>. QED
    BY <1>2, <2>1, <2>2, Zenon
<1>4. Written(top)
  BY <1>2, <1>3, Zenon DEF Written
<1>. QED
  BY <1>1, <1>2, <1>4, OverTyped

\* What clamp_in_place does to a field, by its kind.
LEMMA ClampField ==
  ASSUME NEW s, IsSettings(s), NEW f \in Fields
  PROVE  /\ DOMAIN clamp_in_place(s) = Fields
         /\ f \in Floored => clamp_in_place(s)[f] = floor(s[f])
         /\ f = "buffer_bytes" => clamp_in_place(s)[f] = clamp(s[f], MIN_BUFFER_BYTES, MAX_BUFFER_BYTES)
         /\ f = "udp_max_sessions" => clamp_in_place(s)[f] = clamp(s[f], 1, MAX_UDP_SESSIONS)
         /\ f \in Options => clamp_in_place(s)[f] = s[f] \ {0}
         /\ f \in KeepaliveDetails =>
              clamp_in_place(s)[f] = IF s.keepalive_idle_secs > 0 THEN floor(s[f]) ELSE s[f]
         /\ f \in TextFields \cup Switches \cup {"keepalive_idle_secs"} => clamp_in_place(s)[f] = s[f]
<1>1. DOMAIN s = Fields
  BY FieldNames, Zenon DEF IsSettings
<1>2. DOMAIN clamp_in_place(s) = Fields
  BY <1>1, Zenon DEF clamp_in_place
<1>3. clamp_in_place(s)[f] =
        CASE f \in Floored           -> floor(s[f])
          [] f = "buffer_bytes"      -> clamp(s[f], MIN_BUFFER_BYTES, MAX_BUFFER_BYTES)
          [] f = "udp_max_sessions"  -> clamp(s[f], 1, MAX_UDP_SESSIONS)
          [] f \in {"socket_buffer_bytes", "max_connections"} -> s[f] \ {0}
          [] f \in KeepaliveDetails  -> IF s.keepalive_idle_secs > 0 THEN floor(s[f]) ELSE s[f]
          [] OTHER                   -> s[f]
  BY <1>1, Zenon DEF clamp_in_place
<1>. QED
  BY <1>2, <1>3, Zenon DEF Floored, Options, KeepaliveDetails, TextFields, Switches

\* The kinds cover the fields.
LEMMA ClampKinds ==
  /\ Numbers = Floored \cup {"buffer_bytes", "udp_max_sessions", "keepalive_idle_secs"} \cup KeepaliveDetails
  /\ Fields = Numbers \cup Options \cup TextFields \cup Switches
BY Zenon DEF Numbers, Fields, Floored, KeepaliveDetails, Options, TextFields, Switches

\* The limits are in order.
LEMMA LimitsOrdered ==
  /\ MIN_BUFFER_BYTES \in Nat /\ MAX_BUFFER_BYTES \in Nat /\ MIN_BUFFER_BYTES <= MAX_BUFFER_BYTES
  /\ MAX_UDP_SESSIONS \in Nat /\ 1 <= MAX_UDP_SESSIONS
BY SMT, Zenon DEF MIN_BUFFER_BYTES, MAX_BUFFER_BYTES, MAX_UDP_SESSIONS

\* clamp brings a number between the limits and leaves one that is there alone.
LEMMA Clamps ==
  ASSUME NEW lo \in Nat, NEW hi \in Nat, lo <= hi, NEW v \in Nat
  PROVE  clamp(v, lo, hi) \in lo .. hi /\ (v \in lo .. hi => clamp(v, lo, hi) = v)
BY DEF clamp

\* The numbers and the options of settings.
LEMMA SettingsKinds ==
  ASSUME NEW s, IsSettings(s)
  PROVE  /\ DOMAIN s = Fields
         /\ \A f \in Numbers : s[f] \in Nat
         /\ \A f \in Options : \A n, m \in s[f] : n \in Nat /\ n = m
<1>1. DOMAIN s = Fields /\ \A f \in Fields : OfField(f, s[f])
  BY FieldNames, Zenon DEF IsSettings, Written
<1>2. Numbers \subseteq Fields /\ Options \subseteq Fields
  BY ClampKinds, Zenon
<1>. QED
  BY <1>1, <1>2, FieldKinds, Zenon

\* clamp_in_place leaves what validate accepts alone.
LEMMA ClampKeepsValid ==
  ASSUME NEW s, IsSettings(s), s = [f \in DOMAIN s |-> s[f]], NumbersValid(s)
  PROVE  clamp_in_place(s) = s
<1>1. /\ DOMAIN s = Fields
      /\ \A f \in Numbers : s[f] \in Nat
      /\ \A f \in Options : \A n, m \in s[f] : n \in Nat /\ n = m
  BY SettingsKinds, Zenon
<1>2. ASSUME NEW f \in Fields PROVE clamp_in_place(s)[f] = s[f]
  <2>1. CASE f \in Floored
    <3>1. s[f] \in Nat /\ s[f] # 0
      BY <1>1, <2>1, ClampKinds, Zenon DEF NumbersValid
    <3>2. floor(s[f]) = s[f]
      BY <3>1 DEF floor
    <3>. QED
      BY <2>1, <3>2, ClampField, Zenon
  <2>2. CASE f = "buffer_bytes"
    <3>1. s[f] \in MIN_BUFFER_BYTES .. MAX_BUFFER_BYTES
      BY <2>2, Zenon DEF NumbersValid
    <3>2. clamp(s[f], MIN_BUFFER_BYTES, MAX_BUFFER_BYTES) = s[f]
      BY <1>1, <2>2, <3>1, Clamps, LimitsOrdered, ClampKinds, Zenon
    <3>. QED
      BY <2>2, <3>2, ClampField, Zenon
  <2>3. CASE f = "udp_max_sessions"
    <3>1. s[f] \in 1 .. MAX_UDP_SESSIONS
      BY <2>3, Zenon DEF NumbersValid
    <3>2. clamp(s[f], 1, MAX_UDP_SESSIONS) = s[f]
      BY <1>1, <2>3, <3>1, Clamps, LimitsOrdered, ClampKinds, Zenon
    <3>. QED
      BY <2>3, <3>2, ClampField, Zenon
  <2>4. CASE f \in Options
    <3>1. s[f] # {0} /\ \A n, m \in s[f] : n = m
      BY <1>1, <2>4, Zenon DEF NumbersValid, Options
    <3>2. s[f] \ {0} = s[f]
      BY <3>1, Zenon
    <3>. QED
      BY <2>4, <3>2, ClampField, Zenon
  <2>5. CASE f \in KeepaliveDetails
    <3>1. s[f] \in Nat /\ (s.keepalive_idle_secs > 0 => s[f] # 0)
      BY <1>1, <2>5, ClampKinds, Zenon DEF NumbersValid, KeepaliveDetails
    <3>2. s.keepalive_idle_secs > 0 => floor(s[f]) = s[f]
      BY <3>1 DEF floor
    <3>. QED
      BY <2>5, <3>2, ClampField, Zenon
  <2>. QED
    BY <2>1, <2>2, <2>3, <2>4, <2>5, ClampField, ClampKinds, Zenon
<1>3. clamp_in_place(s) = [f \in Fields |-> clamp_in_place(s)[f]]
  BY <1>1 DEF clamp_in_place
<1>. QED
  BY <1>1, <1>2, <1>3, Zenon

\* And what it leaves is valid.
LEMMA ClampValid ==
  ASSUME NEW s, IsSettings(s)
  PROVE  NumbersValid(clamp_in_place(s))
<1> DEFINE c == clamp_in_place(s)
<1>1. /\ \A f \in Numbers : s[f] \in Nat
      /\ \A f \in Options : \A n, m \in s[f] : n \in Nat /\ n = m
  BY SettingsKinds, Zenon
<1>2. \A n \in Nat : floor(n) # 0 /\ floor(n) \in Nat
  BY DEF floor
<1>3. \A f \in Floored : c[f] # 0
  BY <1>1, <1>2, ClampField, ClampKinds
<1>4. c.buffer_bytes \in MIN_BUFFER_BYTES .. MAX_BUFFER_BYTES
  <2>1. s["buffer_bytes"] \in Nat /\ "buffer_bytes" \in Fields
    BY <1>1, ClampKinds, Zenon
  <2>2. c["buffer_bytes"] = clamp(s["buffer_bytes"], MIN_BUFFER_BYTES, MAX_BUFFER_BYTES)
    BY <2>1, ClampField, Zenon
  <2>3. clamp(s["buffer_bytes"], MIN_BUFFER_BYTES, MAX_BUFFER_BYTES) \in MIN_BUFFER_BYTES .. MAX_BUFFER_BYTES
    BY <2>1, Clamps, LimitsOrdered, Zenon
  <2>. QED
    BY <2>2, <2>3, Zenon
<1>5. c.udp_max_sessions \in 1 .. MAX_UDP_SESSIONS
  <2>1. s["udp_max_sessions"] \in Nat /\ "udp_max_sessions" \in Fields
    BY <1>1, ClampKinds, Zenon
  <2>2. c["udp_max_sessions"] = clamp(s["udp_max_sessions"], 1, MAX_UDP_SESSIONS)
    BY <2>1, ClampField, Zenon
  <2>3. clamp(s["udp_max_sessions"], 1, MAX_UDP_SESSIONS) \in 1 .. MAX_UDP_SESSIONS
    BY <2>1, Clamps, LimitsOrdered, Zenon
  <2>. QED
    BY <2>2, <2>3, Zenon
<1>6. c.socket_buffer_bytes # {0} /\ c.max_connections # {0}
  <2>1. "socket_buffer_bytes" \in Fields \cap Options /\ "max_connections" \in Fields \cap Options
    BY ClampKinds, Zenon DEF Options
  <2>2. /\ c["socket_buffer_bytes"] = s["socket_buffer_bytes"] \ {0}
        /\ c["max_connections"] = s["max_connections"] \ {0}
    BY <2>1, ClampField, Zenon
  <2>. QED
    BY <2>2, Zenon
<1>7. c.keepalive_idle_secs > 0 => c.keepalive_interval_secs # 0 /\ c.keepalive_retries # 0
  <2>1. /\ "keepalive_idle_secs" \in Fields
        /\ "keepalive_interval_secs" \in Fields \cap Numbers \cap KeepaliveDetails
        /\ "keepalive_retries" \in Fields \cap Numbers \cap KeepaliveDetails
    BY ClampKinds, Zenon DEF KeepaliveDetails
  <2>2. c["keepalive_idle_secs"] = s["keepalive_idle_secs"]
    BY <2>1, ClampField, Zenon
  <2>3. s.keepalive_idle_secs > 0 => /\ c["keepalive_interval_secs"] = floor(s["keepalive_interval_secs"])
                                     /\ c["keepalive_retries"] = floor(s["keepalive_retries"])
    BY <2>1, ClampField, Zenon
  <2>. QED
    BY <1>1, <1>2, <2>1, <2>2, <2>3, Zenon
<1>. QED
  BY <1>3, <1>4, <1>5, <1>6, <1>7, Zenon DEF NumbersValid

\* The metrics address and the webhook URL stay as they are.
LEMMA ClampEndpoints ==
  ASSUME NEW s, IsSettings(s)
  PROVE  EndpointsValid(clamp_in_place(s)) <=> EndpointsValid(s)
<1>1. {"metrics_addr", "webhook_url"} \subseteq Fields \cap TextFields
  BY ClampKinds, Zenon DEF TextFields
<1>2. /\ clamp_in_place(s)["metrics_addr"] = s["metrics_addr"]
      /\ clamp_in_place(s)["webhook_url"] = s["webhook_url"]
  BY <1>1, ClampField, Zenon
<1>. QED
  BY <1>2, Zenon DEF EndpointsValid

\* Clamped settings keep their types.
LEMMA ClampTyped ==
  ASSUME NEW s, IsSettings(s)
  PROVE  /\ \A f \in Numbers : clamp_in_place(s)[f] \in Nat
         /\ \A f \in Options : \A n, m \in clamp_in_place(s)[f] : n \in Nat /\ n = m
<1>1. /\ \A f \in Numbers : s[f] \in Nat
      /\ \A f \in Options : \A n, m \in s[f] : n \in Nat /\ n = m
  BY SettingsKinds, Zenon
<1>2. ASSUME NEW f \in Numbers PROVE clamp_in_place(s)[f] \in Nat
  <2>1. f \in Fields /\ s[f] \in Nat
    BY <1>1, ClampKinds, Zenon
  <2>2. CASE f \in Floored \cup KeepaliveDetails \cup {"keepalive_idle_secs"}
    <3>1. clamp_in_place(s)[f] \in {floor(s[f]), s[f]}
      BY <2>1, <2>2, ClampField, Zenon
    <3>2. floor(s[f]) \in Nat
      BY <2>1, Zenon DEF floor
    <3>. QED
      BY <2>1, <3>1, <3>2, Zenon
  <2>3. CASE f = "buffer_bytes"
    <3>1. clamp_in_place(s)[f] = clamp(s[f], MIN_BUFFER_BYTES, MAX_BUFFER_BYTES)
      BY <2>1, <2>3, ClampField, Zenon
    <3>2. clamp(s[f], MIN_BUFFER_BYTES, MAX_BUFFER_BYTES) \in MIN_BUFFER_BYTES .. MAX_BUFFER_BYTES
      BY <2>1, Clamps, LimitsOrdered, Zenon
    <3>. QED
      BY <3>1, <3>2, LimitsOrdered
  <2>4. CASE f = "udp_max_sessions"
    <3>1. clamp_in_place(s)[f] = clamp(s[f], 1, MAX_UDP_SESSIONS)
      BY <2>1, <2>4, ClampField, Zenon
    <3>2. clamp(s[f], 1, MAX_UDP_SESSIONS) \in 1 .. MAX_UDP_SESSIONS
      BY <2>1, Clamps, LimitsOrdered, Zenon
    <3>. QED
      BY <3>1, <3>2, LimitsOrdered
  <2>. QED
    BY <2>2, <2>3, <2>4, ClampKinds, Zenon
<1>3. ASSUME NEW f \in Options PROVE \A n, m \in clamp_in_place(s)[f] : n \in Nat /\ n = m
  <2>1. f \in Fields
    BY ClampKinds, Zenon
  <2>2. clamp_in_place(s)[f] = s[f] \ {0}
    BY <2>1, ClampField, Zenon
  <2>. QED
    BY <1>1, <2>2, Zenon
<1>. QED
  BY <1>2, <1>3, Zenon

-----------------------------------------------------------------------------
(* Knobs.                                                                  *)

\* A stored value a connection can work with.
GoodKnob(f, v) ==
  /\ f = "buffer_bytes" => v \in MIN_BUFFER_BYTES .. MAX_BUFFER_BYTES
  /\ f \notin Switches => v \in Nat

GoodKnobs(k) == DOMAIN k = KnobFields /\ \A f \in KnobFields : GoodKnob(f, k[f])

\* What RuntimeKnobs::update stores of a field.
LEMMA StoredField ==
  ASSUME NEW s, NEW f \in KnobFields
  PROVE  /\ DOMAIN Stored(s) = KnobFields
         /\ f # "socket_buffer_bytes" => Stored(s)[f] = clamp_in_place(s)[f]
         /\ f = "socket_buffer_bytes" =>
              Stored(s)[f] = IF clamp_in_place(s)[f] = {} THEN 0 ELSE CHOOSE n \in clamp_in_place(s)[f] : TRUE
BY Zenon DEF Stored

\* The knobs are fields, all but two of them numbers or the buffer size.
LEMMA KnobKinds == KnobFields \subseteq Numbers \cup Switches \cup {"socket_buffer_bytes"}
BY Zenon DEF KnobFields, Numbers, Fields, Options, TextFields, Switches

\* Whatever the settings were, the values stored are good.
LEMMA StoredGood == ASSUME NEW s, IsSettings(s) PROVE GoodKnobs(Stored(s))
<1>1. DOMAIN Stored(s) = KnobFields
  BY Zenon DEF Stored
<1>2. ASSUME NEW f \in KnobFields PROVE GoodKnob(f, Stored(s)[f])
  <2>1. CASE f = "buffer_bytes"
    <3>1. clamp_in_place(s)["buffer_bytes"] \in MIN_BUFFER_BYTES .. MAX_BUFFER_BYTES
      BY ClampValid, Zenon DEF NumbersValid
    <3>2. Stored(s)[f] = clamp_in_place(s)[f]
      BY <2>1, StoredField, Zenon
    <3>. QED
      BY <2>1, <3>1, <3>2, LimitsOrdered DEF GoodKnob
  <2>2. CASE f = "socket_buffer_bytes"
    <3>1. Stored(s)[f] = IF clamp_in_place(s)[f] = {} THEN 0 ELSE CHOOSE n \in clamp_in_place(s)[f] : TRUE
      BY <2>2, StoredField, Zenon
    <3>2. \A n \in clamp_in_place(s)[f] : n \in Nat
      BY <2>2, ClampTyped, Zenon DEF Options
    <3>3. Stored(s)[f] \in Nat
      BY <3>1, <3>2
    <3>. QED
      BY <2>2, <3>3, Zenon DEF GoodKnob
  <2>3. CASE f \in Numbers \ {"buffer_bytes"}
    <3>1. f # "socket_buffer_bytes"
      BY <2>3, Zenon DEF Numbers, Options
    <3>2. Stored(s)[f] \in Nat
      BY <2>3, <3>1, StoredField, ClampTyped, Zenon
    <3>. QED
      BY <2>3, <3>2, Zenon DEF GoodKnob
  <2>4. CASE f \in Switches
    BY <2>4, Zenon DEF GoodKnob, Switches
  <2>. QED
    BY <2>1, <2>2, <2>3, <2>4, KnobKinds, Zenon
<1>. QED
  BY <1>1, <1>2, Zenon DEF GoodKnobs

\* Knobs that agree with the command line, as OverridesSurvive asks.
Pinned(k) ==
  \A f \in DOMAIN cli.flags \cap KnobFields :
    \/ k[f] = PinnedTo(f)
    \/ f \in {"keepalive_interval_secs", "keepalive_retries"} /\ PinnedTo(f) = 0 /\ k[f] = 1

\* Settings in which the flags prevail.
Carries(s) == IsSettings(s) /\ \A f \in DOMAIN cli.flags \cap KnobFields : s[f] = cli.flags[f]

\* The flags that are knobs passed the check at startup.
FlagsValid ==
  \A f \in DOMAIN cli.flags \cap KnobFields :
    /\ f \in Floored => cli.flags[f] # 0
    /\ f = "buffer_bytes" => cli.flags[f] \in MIN_BUFFER_BYTES .. MAX_BUFFER_BYTES
    /\ f = "socket_buffer_bytes" => cli.flags[f] # {0}

\* Clamping does not touch a flag that passed the check but for keepalive's details,
\* so the knobs agree with the command line after every update.
LEMMA StoredPinned ==
  ASSUME NEW s, Carries(s), FlagsValid, IsCli(cli)
  PROVE  Pinned(Stored(s))
<1>0. IsSettings(s)
  BY Zenon DEF Carries
<1>1. /\ \A f \in Numbers : s[f] \in Nat
      /\ \A f \in Options : \A n, m \in s[f] : n \in Nat /\ n = m
  BY <1>0, SettingsKinds, Zenon
<1> SUFFICES ASSUME NEW f \in DOMAIN cli.flags \cap KnobFields
             PROVE  \/ Stored(s)[f] = PinnedTo(f)
                    \/ /\ f \in {"keepalive_interval_secs", "keepalive_retries"}
                       /\ PinnedTo(f) = 0 /\ Stored(s)[f] = 1
  BY Zenon DEF Pinned
<1>2. s[f] = cli.flags[f]
  BY Zenon DEF Carries
<1>3. f # "socket_buffer_bytes" => PinnedTo(f) = s[f] /\ Stored(s)[f] = clamp_in_place(s)[f]
  BY <1>2, StoredField, Zenon DEF PinnedTo
<1>4. CASE f = "socket_buffer_bytes"
  <2>1. f \in Fields \cap Options
    BY <1>4, ClampKinds, Zenon DEF Options
  <2>2. clamp_in_place(s)[f] = s[f] \ {0}
    BY <1>0, <2>1, ClampField, Zenon
  <2>3. s[f] # {} /\ s[f] # {0} /\ \A n, m \in s[f] : n = m
    BY <1>1, <1>2, <1>4, <2>1, Zenon DEF FlagsValid, IsCli
  <2>4. clamp_in_place(s)[f] = s[f]
    BY <2>2, <2>3, Zenon
  <2>5. Stored(s)[f] = CHOOSE n \in s[f] : TRUE
    BY <1>4, <2>3, <2>4, StoredField, Zenon
  <2>. QED
    BY <1>2, <1>4, <2>5, Zenon DEF PinnedTo
<1>5. CASE f \in Floored
  <2>1. f \in Fields /\ s[f] \in Nat /\ s[f] # 0 /\ f # "socket_buffer_bytes"
    BY <1>1, <1>2, <1>5, ClampKinds, Zenon DEF FlagsValid, Floored
  <2>2. clamp_in_place(s)[f] = floor(s[f]) /\ floor(s[f]) = s[f]
    <3>1. clamp_in_place(s)[f] = floor(s[f])
      BY <1>0, <1>5, <2>1, ClampField, Zenon
    <3>2. floor(s[f]) = s[f]
      BY <2>1 DEF floor
    <3>. QED
      BY <3>1, <3>2, Zenon
  <2>. QED
    BY <1>3, <2>1, <2>2, Zenon
<1>6. CASE f = "buffer_bytes"
  <2>1. f \in Fields /\ s[f] \in Nat /\ s[f] \in MIN_BUFFER_BYTES .. MAX_BUFFER_BYTES
    BY <1>1, <1>2, <1>6, ClampKinds, Zenon DEF FlagsValid
  <2>2. clamp_in_place(s)[f] = clamp(s[f], MIN_BUFFER_BYTES, MAX_BUFFER_BYTES)
    BY <1>0, <1>6, <2>1, ClampField, Zenon
  <2>3. clamp(s[f], MIN_BUFFER_BYTES, MAX_BUFFER_BYTES) = s[f]
    BY <2>1, Clamps, LimitsOrdered, Zenon
  <2>. QED
    BY <1>3, <1>6, <2>2, <2>3, Zenon
<1>7. CASE f \in KeepaliveDetails
  <2>1. f \in Fields /\ s[f] \in Nat
    BY <1>1, <1>7, ClampKinds, Zenon
  <2>2. clamp_in_place(s)[f] = IF s.keepalive_idle_secs > 0 THEN floor(s[f]) ELSE s[f]
    BY <1>0, <1>7, <2>1, ClampField, Zenon
  <2>3. floor(s[f]) = IF s[f] = 0 THEN 1 ELSE s[f]
    BY <2>1 DEF floor
  <2>. QED
    BY <1>3, <1>7, <2>2, <2>3, Zenon DEF KeepaliveDetails
<1>8. CASE f \in Switches \cup {"keepalive_idle_secs"}
  <2>1. f \in Fields /\ f # "socket_buffer_bytes"
    BY <1>8, ClampKinds, Zenon DEF Switches
  <2>2. clamp_in_place(s)[f] = s[f]
    BY <1>0, <1>8, <2>1, ClampField, Zenon
  <2>. QED
    BY <1>3, <2>1, <2>2, Zenon
<1>9. KnobFields \subseteq {"socket_buffer_bytes", "buffer_bytes", "keepalive_idle_secs"} \cup Floored
                             \cup KeepaliveDetails \cup Switches
  BY Zenon DEF KnobFields, Floored, KeepaliveDetails, Switches
<1>. QED
  BY <1>4, <1>5, <1>6, <1>7, <1>8, <1>9, Zenon

-----------------------------------------------------------------------------
(* The open-file limit.                                                    *)

Limit == [soft : Nat, hard : Nat]

\* fds_for saturates, but not below what the connections need.
LEMMA FdsEnough ==
  ASSUME NEW max \in Nat, NEW splice
  PROVE  fds_for(max, splice) >= BASE_FDS + (IF splice THEN 6 ELSE 2) * Least(max, MaxU64 \div 8)
<1> DEFINE q == MaxU64 \div 8
<1>1. MaxU64 \in Nat /\ MaxU64 >= 512 /\ q \in Nat /\ 8 * q <= MaxU64
  BY WidthAssumption
<1> HIDE DEF q
<1>2. Least(max, q) \in Nat /\ Least(max, q) <= max /\ Least(max, q) <= q
  BY <1>1 DEF Least
<1>3. CASE splice
  <2>1. fds_for(max, splice) \in {MaxU64, 6 * max + 128}
    BY <1>1, <1>3 DEF fds_for, saturating_add, saturating_mul, BASE_FDS
  <2>2. MaxU64 >= 128 + 6 * q /\ 6 * max + 128 >= 128 + 6 * Least(max, q)
    BY <1>1, <1>2
  <2>3. fds_for(max, splice) >= 128 + 6 * Least(max, q)
    BY <1>1, <1>2, <2>1, <2>2
  <2>. QED
    BY <1>3, <2>3, Zenon DEF BASE_FDS, q
<1>4. CASE ~splice
  <2>1. fds_for(max, splice) \in {MaxU64, 2 * max + 128}
    BY <1>1, <1>4 DEF fds_for, saturating_add, saturating_mul, BASE_FDS
  <2>2. MaxU64 >= 128 + 2 * q /\ 2 * max + 128 >= 128 + 2 * Least(max, q)
    BY <1>1, <1>2
  <2>3. fds_for(max, splice) >= 128 + 2 * Least(max, q)
    BY <1>1, <1>2, <2>1, <2>2
  <2>. QED
    BY <1>4, <2>3, Zenon DEF BASE_FDS, q
<1>. QED
  BY <1>3, <1>4, Zenon

\* raise_soft_limit raises the limit up to the hard one, and without a warning it
\* leaves room for max_connections.
LEMMA RaiseSound ==
  ASSUME NEW l \in Limit, NEW os, NEW most, \A max \in most : max \in Nat, NEW splice
  PROVE  LET r == raise_soft_limit(l, os, most, splice)
         IN  /\ r.rl \in Limit /\ r.rl.hard = l.hard /\ r.rl.soft >= l.soft
             /\ r.rl.soft > l.soft => r.rl.soft <= l.hard
             /\ os # "unreadable" /\ ~r.warn =>
                  \A max \in most : r.rl.soft >= BASE_FDS + (IF splice THEN 6 ELSE 2) * Least(max, MaxU64 \div 8)
<1> DEFINE soft == IF os = "granted" THEN plan(l) ELSE l.soft
           r == raise_soft_limit(l, os, most, splice)
<1>1. l.soft \in Nat /\ l.hard \in Nat
  BY Zenon DEF Limit
<1>2. soft \in Nat /\ soft >= l.soft /\ (soft > l.soft => soft <= l.hard)
  <2>1. Least(l.hard, SOFT_LIMIT_CAP) \in Nat /\ Least(l.hard, SOFT_LIMIT_CAP) <= l.hard
    BY <1>1, SMT, Zenon DEF Least, SOFT_LIMIT_CAP
  <2>2. plan(l) = IF Least(l.hard, SOFT_LIMIT_CAP) > l.soft THEN Least(l.hard, SOFT_LIMIT_CAP) ELSE l.soft
    BY Zenon DEF plan
  <2>. QED
    BY <1>1, <2>1, <2>2
<1>3. /\ r.rl = [l EXCEPT !.soft = soft]
      /\ r.warn <=> (os # "unreadable" /\ \E max \in most : soft < fds_for(max, splice))
  BY Zenon DEF raise_soft_limit
<1> HIDE DEF soft, r
<1>4. r.rl \in Limit /\ r.rl.hard = l.hard /\ r.rl.soft = soft
  BY <1>2, <1>3, Zenon DEF Limit
<1>5. ASSUME os # "unreadable", ~r.warn, NEW max \in most
      PROVE  soft >= BASE_FDS + (IF splice THEN 6 ELSE 2) * Least(max, MaxU64 \div 8)
  <2> DEFINE need == BASE_FDS + (IF splice THEN 6 ELSE 2) * Least(max, MaxU64 \div 8)
  <2>1. ~(soft < fds_for(max, splice)) /\ max \in Nat
    BY <1>3, <1>5, Zenon
  <2>2. fds_for(max, splice) >= need
    BY <2>1, FdsEnough, Zenon
  <2>3. fds_for(max, splice) \in Nat
    BY <2>1, WidthAssumption DEF fds_for, saturating_add, saturating_mul, BASE_FDS
  <2>4. need \in Nat
    BY <2>1, WidthAssumption DEF Least, BASE_FDS
  <2> HIDE DEF need
  <2>5. soft >= need
    BY <1>2, <2>1, <2>2, <2>3, <2>4
  <2>. QED
    BY <2>5, Zenon DEF need
<1>. QED
  BY <1>2, <1>4, <1>5, Zenon DEF r

\* So does ensure_fd_budget for the sessions.
LEMMA BudgetSound ==
  ASSUME NEW l \in Limit, NEW os, NEW most \in Nat
  PROVE  LET r == ensure_fd_budget(l, os, most)
         IN  /\ r.rl \in Limit /\ r.rl.hard = l.hard /\ r.rl.soft >= l.soft
             /\ r.rl.soft > l.soft => r.rl.soft <= l.hard
             /\ os # "unreadable" /\ ~r.warn => r.rl.soft >= most + FD_HEADROOM
<1> DEFINE needed == most + FD_HEADROOM
           soft == IF l.soft < needed /\ l.hard > l.soft /\ os = "granted" THEN Least(l.hard, needed) ELSE l.soft
           r == ensure_fd_budget(l, os, most)
<1>1. l.soft \in Nat /\ l.hard \in Nat /\ needed \in Nat
  BY DEF Limit, FD_HEADROOM
<1>2. r.rl = [l EXCEPT !.soft = soft] /\ (r.warn <=> (os # "unreadable" /\ soft < needed))
  BY Zenon DEF ensure_fd_budget
<1> HIDE DEF needed
<1>3. soft \in Nat /\ soft >= l.soft /\ (soft > l.soft => soft <= l.hard)
  BY <1>1 DEF Least
<1> HIDE DEF soft, r
<1>4. r.rl \in Limit /\ r.rl.hard = l.hard /\ r.rl.soft = soft
  BY <1>2, <1>3, Zenon DEF Limit
<1>. QED
  BY <1>1, <1>2, <1>3, <1>4 DEF r, needed

-----------------------------------------------------------------------------
(* The invariant.                                                          *)

\* The inputs keep their types; the limit is the one the process was started with
\* until it serves.
ConfigInv ==
  /\ IsCli(cli) /\ IsFile(file) /\ IsFiniteSet(DOMAIN env) /\ DOMAIN env \subseteq Nat
  /\ rl \in Limit /\ rl0 \in Limit /\ (stage # "serving" => rl = rl0)

\* The settings main goes on with passed the check with the flags in them.
SettingsInv ==
  /\ IsSettings(settings)
  /\ stage \in {"limits", "serving"} => NumbersValid(settings) /\ Carries(settings)

\* The knobs, and what a reload in progress is about to make them.
KnobInv ==
  /\ GoodKnobs(knobs)
  /\ update = [busy |-> update.busy, to |-> update.to, left |-> update.left, loaded |-> update.loaded]
  /\ update.left \subseteq KnobFields /\ (update.left # {} => update.busy)
  /\ update.busy => stage = "serving" /\ GoodKnobs(update.to) /\ Pinned(update.to)
  /\ stage = "serving" => Pinned(knobs)

\* A list of forwarders without duplicates and with ports that are u16.
SoundList(l) ==
  /\ validate_no_duplicates(l)
  /\ \A i \in DOMAIN l : {l[i].local_port, l[i].remote_port} \subseteq U16

\* The list is what the entries of a file ask for.
ListOf(l, e) == Range(l) = UNION {{f \in Wanted(e[i]) : InRange(e[i], f)} : i \in DOMAIN e}

EndsAgree(e) ==
  \A i \in DOMAIN e : \A l \in e[i].local_port_end, r \in e[i].remote_port_end :
    l - e[i].local_port = r - e[i].remote_port

\* The running forwarders and the ones a reload has loaded.
ListInv ==
  /\ stage \in {"settings", "limits", "serving"} =>
       /\ SoundList(forwarders) /\ EndsAgree(entries)
       /\ source = "File" => ListOf(forwarders, entries)
       /\ load_env_forwarders(env) # {<<>>} =>
            source = "Env" /\ load_env_forwarders(env) = {forwarders}
       /\ source = "Cli" => cli_forwarders(cli.forwarders) = {forwarders}
  /\ update.busy => /\ SoundList(update.loaded.list) /\ EndsAgree(update.loaded.entries)
                    /\ ListOf(update.loaded.list, update.loaded.entries)

\* A snapshot in the making has the first fields of the order, with good values.
Loaded(n) == {SnapshotOrder[i] : i \in 1 .. n}

SnapInv ==
  /\ \E n \in 0 .. 8 : DOMAIN snap = Loaded(n)
  /\ \A f \in DOMAIN snap : GoodKnob(f, snap[f])

StartInv == ConfigInv /\ SettingsInv /\ KnobInv /\ ListInv /\ SnapInv

\* Loads are in the order of distinct fields: after n of them there are n.
LEMMA LoadedCount == ASSUME NEW n \in 0 .. 8 PROVE Cardinality(Loaded(n)) = n
<1> DEFINE b == [i \in 1 .. n |-> SnapshotOrder[i]]
<1>1. \A i, j \in 1 .. n : SnapshotOrder[i] = SnapshotOrder[j] => i = j
  BY DEF SnapshotOrder
<1>2. b \in Bijection(1 .. n, Loaded(n))
  BY <1>1, Zenon DEF Bijection, Injection, Surjection, IsInjective, Loaded
<1>3. ExistsBijection(1 .. n, Loaded(n))
  BY <1>2, Zenon DEF ExistsBijection
<1>. QED
  BY <1>3, FS_CountingElements

-----------------------------------------------------------------------------
(* Loading.                                                                *)

\* What load_yaml_config makes of a file.
LEMMA YamlLoads ==
  ASSUME NEW f, IsFile(f), NEW y \in load_yaml_config(f)
  PROVE  /\ SoundList(y.forwarders) /\ ListOf(y.forwarders, f.forwarders) /\ EndsAgree(f.forwarders)
         /\ y.settings = FromFile(f.settings)
<1>1. PICK l \in deserialize_forwarders(f.forwarders) :
        /\ validate_no_duplicates(l)
        /\ y = [forwarders |-> l, settings |-> FromFile(f.settings)]
  BY Zenon DEF load_yaml_config
<1>2. /\ Range(l) = UNION {{g \in Wanted(f.forwarders[i]) : InRange(f.forwarders[i], g)} : i \in DOMAIN f.forwarders}
      /\ \A i \in DOMAIN l : {l[i].local_port, l[i].remote_port} \subseteq U16
      /\ \A i \in DOMAIN f.forwarders :
           \A p \in f.forwarders[i].local_port_end, q \in f.forwarders[i].remote_port_end :
             p - f.forwarders[i].local_port = q - f.forwarders[i].remote_port
  BY <1>1, FileForwarders, Zenon DEF IsFile
<1>3. y.forwarders = l /\ y.settings = FromFile(f.settings)
  BY <1>1, Zenon
<1>. QED
  BY <1>1, <1>2, <1>3, Zenon DEF SoundList, ListOf, EndsAgree

\* What load_forwarders_with_source yields, by the source it names.
LEMMA SourceLoads ==
  ASSUME ConfigInv, NEW r \in load_forwarders_with_source(cli, env, file)
  PROVE  /\ SoundList(r.list)
         /\ r.source = "File" => ListOf(r.list, file.forwarders) /\ EndsAgree(file.forwarders)
         /\ load_env_forwarders(env) # {<<>>} => r.source = "Env" /\ load_env_forwarders(env) = {r.list}
         /\ r.source = "Cli" => cli_forwarders(cli.forwarders) = {r.list}
<1>1. PICK conf \in Configured(cli, file), l \in load_env_forwarders(env) :
        /\ r = IF l = <<>> THEN conf ELSE [list |-> l, source |-> "Env"]
        /\ validate_no_duplicates(r.list)
  BY DEF load_forwarders_with_source
<1>2. /\ load_env_forwarders(env) = {l}
      /\ \A i \in DOMAIN l : {l[i].local_port, l[i].remote_port} \subseteq U16
  BY <1>1, EnvForwarders DEF ConfigInv
<1>3. CASE l # <<>>
  <2>1. r.list = l /\ r.source = "Env"
    BY <1>1, <1>3, Zenon
  <2>. QED
    BY <1>1, <1>2, <2>1 DEF SoundList
<1>4. CASE l = <<>>
  <2>0. r = conf /\ load_env_forwarders(env) = {<<>>}
    BY <1>1, <1>2, <1>4, Zenon
  <2>1. CASE cli.forwarders # <<>>
    <3>1. PICK k \in cli_forwarders(cli.forwarders) : conf = [list |-> k, source |-> "Cli"]
      BY <1>1, <2>1, Zenon DEF Configured
    <3>2. /\ cli_forwarders(cli.forwarders) = {k}
          /\ \A i \in DOMAIN k : {k[i].local_port, k[i].remote_port} \subseteq U16
      BY <3>1, CliForwarders DEF ConfigInv, IsCli
    <3>3. r.list = k /\ r.source = "Cli"
      BY <2>0, <3>1, Zenon
    <3>. QED
      BY <1>1, <2>0, <3>2, <3>3, Zenon DEF SoundList
  <2>2. CASE cli.forwarders = <<>> /\ cli.config_file
    <3>1. PICK y \in load_yaml_config(file) : conf = [list |-> y.forwarders, source |-> "File"]
      BY <1>1, <2>2, Zenon DEF Configured
    <3>2. r.list = y.forwarders /\ r.source = "File"
      BY <2>0, <3>1, Zenon
    <3>3. SoundList(y.forwarders) /\ ListOf(y.forwarders, file.forwarders) /\ EndsAgree(file.forwarders)
      BY <3>1, YamlLoads, Zenon DEF ConfigInv
    <3>. QED
      BY <2>0, <3>2, <3>3, Zenon
  <2>3. CASE cli.forwarders = <<>> /\ ~cli.config_file
    <3>1. conf = [list |-> <<>>, source |-> "None"]
      BY <1>1, <2>3, Zenon DEF Configured
    <3>2. r.list = <<>> /\ r.source = "None"
      BY <2>0, <3>1, Zenon
    <3>. QED
      BY <1>1, <2>0, <3>2 DEF SoundList
  <2>. QED
    BY <2>1, <2>2, <2>3, Zenon
<1>. QED
  BY <1>3, <1>4, Zenon

\* What load_settings yields passed the check with the flags in it.
LEMMA SettingsLoad ==
  ASSUME ConfigInv, NEW s \in load_settings(cli, file)
  PROVE  NumbersValid(s) /\ Carries(s)
<1>1. PICK p : /\ s = apply_cli_overrides(p, cli.flags)
               /\ p = Default \/ p = FromFile(file.settings)
               /\ validate(s)
  BY Zenon DEF load_settings
<1>2. IsSettings(p) /\ Written(cli.flags)
  BY <1>1, DefaultTyped, FileTyped, Zenon DEF ConfigInv, IsFile, IsCli
<1>3. IsSettings(s) /\ \A f \in DOMAIN cli.flags \ {"webhook_url"} : s[f] = cli.flags[f]
  BY <1>1, <1>2, CliTyped
<1>4. "webhook_url" \notin KnobFields
  BY Zenon DEF KnobFields
<1>. QED
  BY <1>1, <1>3, <1>4, Zenon DEF Carries, validate

\* Flags that are carried by settings that passed the check are valid themselves.
LEMMA FlagsChecked == ASSUME NEW s, NumbersValid(s), Carries(s), IsCli(cli) PROVE FlagsValid
<1> SUFFICES ASSUME NEW f \in DOMAIN cli.flags \cap KnobFields
             PROVE  /\ f \in Floored => cli.flags[f] # 0
                    /\ f = "buffer_bytes" => cli.flags[f] \in MIN_BUFFER_BYTES .. MAX_BUFFER_BYTES
                    /\ f = "socket_buffer_bytes" => cli.flags[f] # {0}
  BY Zenon DEF FlagsValid
<1>1. s[f] = cli.flags[f]
  BY Zenon DEF Carries
<1>. QED
  BY <1>1, Zenon DEF NumbersValid

-----------------------------------------------------------------------------
(* The invariant, an action at a time.                                     *)

\* A step that leaves alone what a part of the invariant is about keeps that part.
LEMMA SameConfig ==
  ConfigInv /\ UNCHANGED <<cli, env, file, rl, rl0>> /\ (stage' = "serving" \/ stage # "serving") => ConfigInv'
BY Zenon DEF ConfigInv

\* The same for the settings.
LEMMA SameSettings == SettingsInv /\ UNCHANGED <<cli, settings, stage>> => SettingsInv'
BY Zenon DEF SettingsInv, Carries

\* The same for the knobs and the reload in progress.
LEMMA SameKnobs == KnobInv /\ UNCHANGED <<cli, knobs, update, stage>> => KnobInv'
BY DEF KnobInv, Pinned, PinnedTo

\* The same for the lists of forwarders.
LEMMA SameList == ListInv /\ UNCHANGED <<cli, env, stage, forwarders, source, entries, update>> => ListInv'
BY Zenon DEF ListInv

\* The same for the snapshot.
LEMMA SameSnap == SnapInv /\ UNCHANGED snap => SnapInv'
BY Zenon DEF SnapInv

\* While main is still loading no reload is in progress.
LEMMA NoReloadYet == KnobInv /\ stage # "serving" => ~update.busy
BY Zenon DEF KnobInv

\* Defaults are good knobs, and nothing has been loaded.
LEMMA InitStart == Init => StartInv
<1> SUFFICES ASSUME Init PROVE StartInv
  BY Zenon
<1>1. PICK s \in Starts : cli = s.cli /\ env = s.env /\ file = s.file /\ rl = s.rl /\ rl0 = s.rl
  BY Zenon DEF Init
<1>2. /\ stage = "boot" /\ settings = Default /\ knobs = Stored(Default) /\ update = Nothing /\ snap = <<>>
  BY Zenon DEF Init
<1>3. ConfigInv
  BY <1>1, StartupAssumption, Zenon DEF ConfigInv, Limit
<1>4. SettingsInv
  BY <1>2, DefaultTyped, Zenon DEF SettingsInv
<1>5. KnobInv
  BY <1>2, DefaultTyped, StoredGood, Zenon DEF KnobInv, Nothing
<1>6. ListInv
  BY <1>2, Zenon DEF ListInv, Nothing
<1>7. SnapInv
  <2>1. DOMAIN snap = {} /\ Loaded(0) = {}
    BY <1>2 DEF Loaded
  <2>. QED
    BY <2>1 DEF SnapInv
<1>. QED
  BY <1>3, <1>4, <1>5, <1>6, <1>7, Zenon DEF StartInv

\* main loads the forwarders: they are sound and from the source that prevails.
LEMMA LoadForwardersKeeps == StartInv /\ LoadForwarders => StartInv'
<1> SUFFICES ASSUME StartInv, LoadForwarders PROVE StartInv'
  BY Zenon
<1>0. /\ stage = "boot" /\ stage' \in {"refused", "settings"}
      /\ UNCHANGED <<cli, env, file, settings, rl, rl0, knobs, update, snap>>
  BY Zenon DEF LoadForwarders, cfgVars, bootVars, fdVars, knobVars
<1>1. ConfigInv' /\ SnapInv'
  BY <1>0, SameConfig, SameSnap, Zenon DEF StartInv
<1>2. SettingsInv'
  BY <1>0, Zenon DEF StartInv, SettingsInv
<1>3. ~update.busy
  BY <1>0, NoReloadYet, Zenon DEF StartInv
<1>4. KnobInv'
  BY <1>0, <1>3, Zenon DEF StartInv, KnobInv
<1>5. ListInv'
  <2>1. CASE stage' = "refused"
    BY <2>1, <1>0, <1>3, Zenon DEF ListInv
  <2>2. CASE stage' # "refused"
    <3>1. PICK l \in load_forwarders_with_source(cli, env, file) :
            /\ forwarders' = l.list /\ source' = l.source
            /\ entries' = IF l.source = "File" THEN file.forwarders ELSE <<>>
      BY <2>2, Zenon DEF LoadForwarders
    <3>2. /\ SoundList(l.list)
          /\ l.source = "File" => ListOf(l.list, file.forwarders) /\ EndsAgree(file.forwarders)
          /\ load_env_forwarders(env) # {<<>>} => l.source = "Env" /\ load_env_forwarders(env) = {l.list}
          /\ l.source = "Cli" => cli_forwarders(cli.forwarders) = {l.list}
      BY <3>1, SourceLoads, Zenon DEF StartInv
    <3>3. EndsAgree(<<>>)
      BY DEF EndsAgree
    <3>4. EndsAgree(entries') /\ (source' = "File" => ListOf(forwarders', entries'))
      BY <3>1, <3>2, <3>3, Zenon
    <3>. QED
      BY <1>0, <1>3, <3>1, <3>2, <3>4, Zenon DEF ListInv
  <2>. QED
    BY <2>1, <2>2, Zenon
<1>. QED
  BY <1>1, <1>2, <1>4, <1>5, Zenon DEF StartInv

\* main loads the settings: they passed validate with the flags in them.
LEMMA LoadSettingsKeeps == StartInv /\ LoadSettings => StartInv'
<1> SUFFICES ASSUME StartInv, LoadSettings PROVE StartInv'
  BY Zenon
<1>0. /\ stage = "settings" /\ stage' \in {"refused", "limits"}
      /\ UNCHANGED <<cli, env, file, forwarders, source, entries, rl, rl0, knobs, update, snap>>
  BY Zenon DEF LoadSettings, cfgVars, fdVars, knobVars
<1>1. ConfigInv' /\ SnapInv'
  BY <1>0, SameConfig, SameSnap, Zenon DEF StartInv
<1>2. SettingsInv'
  <2>1. CASE stage' = "refused"
    <3>1. settings' = settings
      BY <2>1, Zenon DEF LoadSettings
    <3>. QED
      BY <2>1, <3>1, Zenon DEF StartInv, SettingsInv
  <2>2. CASE stage' = "limits"
    <3>1. settings' \in load_settings(cli, file)
      BY <2>2, Zenon DEF LoadSettings
    <3>2. NumbersValid(settings') /\ Carries(settings')
      BY <3>1, SettingsLoad, Zenon DEF StartInv
    <3>. QED
      BY <1>0, <3>2, Zenon DEF SettingsInv, Carries
  <2>. QED
    BY <1>0, <2>1, <2>2, Zenon
<1>3. ~update.busy
  BY <1>0, NoReloadYet, Zenon DEF StartInv
<1>4. KnobInv'
  BY <1>0, <1>3, Zenon DEF StartInv, KnobInv
<1>5. ListInv'
  BY <1>0, <1>3, Zenon DEF StartInv, ListInv
<1>. QED
  BY <1>1, <1>2, <1>4, <1>5, Zenon DEF StartInv

\* What main leaves as limit, before a reload can happen.
LEMMA ServeLimit ==
  ASSUME StartInv, Serve
  PROVE  /\ rl' \in Limit /\ rl'.hard = rl0.hard /\ rl'.soft >= rl0.soft
         /\ rl'.soft > rl0.soft => rl'.soft <= rl'.hard
         /\ warned' = {} =>
              /\ \A max \in settings.max_connections :
                   rl'.soft >= BASE_FDS + (IF settings.use_splice THEN 6 ELSE 2) * Least(max, MaxU64 \div 8)
              /\ "udp" \in {f.protocol : f \in Range(forwarders)} =>
                   rl'.soft >= settings.udp_max_sessions + FD_HEADROOM
<1> DEFINE has == \E i \in DOMAIN forwarders : forwarders[i].protocol = "udp"
           oses == {"unreadable", "refused", "granted"}
<1> DEFINE tcp(os) == raise_soft_limit(rl, os, settings.max_connections, settings.use_splice)
           udp(os, os2) == IF has THEN ensure_fd_budget(tcp(os).rl, os2, settings.udp_max_sessions)
                           ELSE [rl |-> tcp(os).rl, warn |-> FALSE]
           warns(t, u, os, os2) ==
             (IF t.warn THEN {"tcp"} ELSE {}) \cup (IF u.warn THEN {"udp"} ELSE {})
               \cup (IF "unreadable" \in {os, os2} THEN {"unreadable"} ELSE {})
<1>0. PICK os \in oses, os2 \in oses :
        rl' = udp(os, os2).rl /\ warned' = warns(tcp(os), udp(os, os2), os, os2)
  BY Zenon DEF Serve
<1> HIDE DEF warns
<1>1. PICK t, u :
        /\ t = raise_soft_limit(rl, os, settings.max_connections, settings.use_splice)
        /\ u = IF has THEN ensure_fd_budget(t.rl, os2, settings.udp_max_sessions)
               ELSE [rl |-> t.rl, warn |-> FALSE]
        /\ rl' = u.rl /\ warned' = warns(t, u, os, os2)
  BY <1>0, Zenon
<1> HIDE DEF tcp, udp
<1>2. rl = rl0 /\ rl \in Limit
  <2>1. stage = "limits"
    BY Zenon DEF Serve
  <2>. QED
    BY <2>1, Zenon DEF StartInv, ConfigInv
<1>3. (\A max \in settings.max_connections : max \in Nat) /\ settings.udp_max_sessions \in Nat
  <2>1. IsSettings(settings)
    BY Zenon DEF StartInv, SettingsInv
  <2>2. "udp_max_sessions" \in Numbers /\ "max_connections" \in Options
    BY Zenon DEF Numbers, Fields, Options, TextFields, Switches
  <2>. QED
    BY <2>1, <2>2, SettingsKinds, Zenon
<1>4. warned' = {} => ~t.warn /\ ~u.warn /\ os # "unreadable" /\ os2 # "unreadable"
  BY <1>1, Zenon DEF warns
<1>5. /\ t.rl \in Limit /\ t.rl.hard = rl.hard /\ t.rl.soft >= rl.soft
      /\ t.rl.soft > rl.soft => t.rl.soft <= rl.hard
      /\ os # "unreadable" /\ ~t.warn =>
           \A max \in settings.max_connections :
             t.rl.soft >= BASE_FDS + (IF settings.use_splice THEN 6 ELSE 2) * Least(max, MaxU64 \div 8)
  BY <1>1, <1>2, <1>3, RaiseSound
<1>6. /\ u.rl \in Limit /\ u.rl.hard = t.rl.hard /\ u.rl.soft >= t.rl.soft
      /\ u.rl.soft > t.rl.soft => u.rl.soft <= t.rl.hard
      /\ os2 # "unreadable" /\ ~u.warn /\ has => u.rl.soft >= settings.udp_max_sessions + FD_HEADROOM
  <2>1. CASE has
    <3>1. u = ensure_fd_budget(t.rl, os2, settings.udp_max_sessions)
      BY <1>1, <2>1, Zenon
    <3>. QED
      BY <3>1, <1>3, <1>5, BudgetSound, Zenon
  <2>2. CASE ~has
    <3>1. u.rl = t.rl
      BY <1>1, <2>2, Zenon
    <3>2. t.rl.soft \in Nat
      BY <1>5, Zenon DEF Limit
    <3>. QED
      BY <2>2, <3>1, <3>2, <1>5
  <2>. QED
    BY <2>1, <2>2, Zenon
<1>7. /\ rl' = u.rl /\ u.rl.soft \in Nat /\ t.rl.soft \in Nat /\ rl.soft \in Nat /\ rl.hard \in Nat
  <2>1. rl' = u.rl /\ rl \in Limit /\ t.rl \in Limit /\ u.rl \in Limit
    BY <1>1, <1>2, <1>5, <1>6, Zenon
  <2>. QED
    BY <2>1, Zenon DEF Limit
<1>8. /\ rl' \in Limit /\ rl'.hard = rl0.hard /\ rl'.soft >= rl0.soft
      /\ rl'.soft > rl0.soft => rl'.soft <= rl'.hard
  BY <1>2, <1>5, <1>6, <1>7
<1>9. ASSUME warned' = {}, NEW max \in settings.max_connections
      PROVE  rl'.soft >= BASE_FDS + (IF settings.use_splice THEN 6 ELSE 2) * Least(max, MaxU64 \div 8)
  <2> DEFINE need == BASE_FDS + (IF settings.use_splice THEN 6 ELSE 2) * Least(max, MaxU64 \div 8)
  <2>1. t.rl.soft >= need
    BY <1>4, <1>5, <1>9, Zenon
  <2>2. need \in Int
    <3>1. MaxU64 \in Nat /\ MaxU64 \div 8 \in Nat
      BY WidthAssumption
    <3>2. Least(max, MaxU64 \div 8) \in Nat
      BY <1>3, <1>9, <3>1, Zenon DEF Least
    <3>. QED
      BY <3>2 DEF BASE_FDS
  <2> HIDE DEF need
  <2>3. rl'.soft >= need
    BY <1>6, <1>7, <2>1, <2>2
  <2>. QED
    BY <2>3, Zenon DEF need
<1>10. ASSUME warned' = {}, "udp" \in {f.protocol : f \in Range(forwarders)}
       PROVE  rl'.soft >= settings.udp_max_sessions + FD_HEADROOM
  <2>1. has
    BY <1>10, Zenon DEF Range
  <2>. QED
    BY <1>4, <1>6, <1>7, <1>10, <2>1, Zenon
<1>. QED
  BY <1>8, <1>9, <1>10, Zenon

\* main adjusts the limit and builds the knobs from settings that passed validate.
LEMMA ServeKeeps == StartInv /\ Serve => StartInv'
<1> SUFFICES ASSUME StartInv, Serve PROVE StartInv'
  BY Zenon
<1>0. /\ stage = "limits" /\ stage' = "serving" /\ knobs' = Stored(settings)
      /\ UNCHANGED <<cli, env, file, forwarders, source, entries, settings, rl0, update, snap>>
  BY Zenon DEF Serve, cfgVars, bootVars
<1>1. ConfigInv'
  BY <1>0, ServeLimit, Zenon DEF StartInv, ConfigInv
<1>2. NumbersValid(settings) /\ Carries(settings) /\ IsCli(cli)
  BY <1>0, Zenon DEF StartInv, SettingsInv, ConfigInv
<1>3. SettingsInv'
  BY <1>0, <1>2, Zenon DEF SettingsInv, Carries
<1>4. ~update.busy
  BY <1>0, NoReloadYet, Zenon DEF StartInv
<1>5. KnobInv'
  <2>1. GoodKnobs(Stored(settings)) /\ Pinned(Stored(settings))
    BY <1>2, StoredGood, FlagsChecked, StoredPinned, Zenon DEF Carries
  <2>2. GoodKnobs(knobs') /\ Pinned(knobs')
    BY <1>0, <2>1, Zenon
  <2>3. Pinned(knobs)' 
    BY <1>0, <2>2, Zenon DEF Pinned, PinnedTo
  <2>. QED
    BY <1>0, <1>4, <2>2, <2>3, Zenon DEF StartInv, KnobInv
<1>6. ListInv'
  BY <1>0, <1>4, Zenon DEF StartInv, ListInv
<1>7. SnapInv'
  BY <1>0, SameSnap, Zenon DEF StartInv
<1>. QED
  BY <1>1, <1>3, <1>5, <1>6, <1>7, Zenon DEF StartInv

\* An edit changes only the file.
LEMMA EditKeeps == StartInv /\ Edit => StartInv'
<1> SUFFICES ASSUME StartInv, Edit PROVE StartInv'
  BY Zenon
<1>0. /\ file' \in Edits
      /\ UNCHANGED <<cli, env, forwarders, source, entries, settings, stage, rl, rl0, knobs, update, snap>>
  BY Zenon DEF Edit, bootVars, fdVars, knobVars
<1>1. ConfigInv'
  BY <1>0, StartupAssumption, Zenon DEF StartInv, ConfigInv
<1>. QED
  BY <1>0, <1>1, SameSettings, SameKnobs, SameList, SameSnap, Zenon DEF StartInv

\* What a reload is about to store is good and keeps the flags, and what it is about
\* to run is what the file asks for.
LEMMA ReloadSound ==
  ASSUME StartInv, stage = "serving", NEW y \in load_yaml_config(file)
  PROVE  /\ GoodKnobs(Stored(ReloadSettings(y))) /\ Pinned(Stored(ReloadSettings(y)))
         /\ SoundList(y.forwarders) /\ ListOf(y.forwarders, file.forwarders) /\ EndsAgree(file.forwarders)
<1>1. IsFile(file) /\ IsCli(cli) /\ NumbersValid(settings) /\ Carries(settings)
  BY Zenon DEF StartInv, ConfigInv, SettingsInv
<1>2. /\ SoundList(y.forwarders) /\ ListOf(y.forwarders, file.forwarders) /\ EndsAgree(file.forwarders)
      /\ y.settings = FromFile(file.settings)
  BY <1>1, YamlLoads, Zenon
<1>3. IsSettings(y.settings) /\ Written(cli.flags)
  BY <1>1, <1>2, FileTyped, Zenon DEF IsFile, IsCli
<1> DEFINE s == ReloadSettings(y)
<1>4. IsSettings(s) /\ \A f \in DOMAIN cli.flags \ {"webhook_url"} : s[f] = cli.flags[f]
  BY <1>3, CliTyped DEF ReloadSettings
<1> HIDE DEF s
<1>5. "webhook_url" \notin KnobFields
  BY Zenon DEF KnobFields
<1>6. Carries(s)
  BY <1>4, <1>5, Zenon DEF Carries
<1>7. GoodKnobs(Stored(s)) /\ Pinned(Stored(s))
  BY <1>1, <1>4, <1>6, StoredGood, FlagsChecked, StoredPinned, Zenon
<1>. QED
  BY <1>2, <1>7, Zenon DEF s

\* The watcher loads the file again, or keeps everything on an error.
LEMMA ReloadLoadsKeeps == StartInv /\ ReloadLoads => StartInv'
<1> SUFFICES ASSUME StartInv, ReloadLoads PROVE StartInv'
  BY Zenon
<1>0. /\ stage = "serving" /\ ~update.busy
      /\ UNCHANGED <<cli, env, file, forwarders, source, entries, settings, stage, rl, rl0, knobs, snap>>
  BY Zenon DEF ReloadLoads, bootVars, fdVars
<1>1. ConfigInv' /\ SettingsInv' /\ SnapInv'
  BY <1>0, SameConfig, SameSettings, SameSnap, Zenon DEF StartInv
<1>2. CASE update' = update
  BY <1>0, <1>1, <1>2, SameKnobs, SameList, Zenon DEF StartInv
<1>3. CASE update' # update
  <2>1. PICK y \in load_yaml_config(file) :
          update' = [busy |-> TRUE, to |-> Stored(ReloadSettings(y)),
                     left |-> {f \in KnobFields : Stored(ReloadSettings(y))[f] # knobs[f]},
                     loaded |-> [list |-> y.forwarders, entries |-> file.forwarders]]
    BY <1>3, Zenon DEF ReloadLoads
  <2>2. /\ GoodKnobs(Stored(ReloadSettings(y))) /\ Pinned(Stored(ReloadSettings(y)))
        /\ SoundList(y.forwarders) /\ ListOf(y.forwarders, file.forwarders) /\ EndsAgree(file.forwarders)
    BY <1>0, ReloadSound, Zenon
  <2>3. /\ update'.busy /\ update'.to = Stored(ReloadSettings(y)) /\ update'.left \subseteq KnobFields
        /\ update'.loaded.list = y.forwarders /\ update'.loaded.entries = file.forwarders
        /\ update' = [busy |-> update'.busy, to |-> update'.to, left |-> update'.left, loaded |-> update'.loaded]
    BY <2>1, Zenon
  <2>4. KnobInv'
    <3>1. GoodKnobs(update'.to) /\ Pinned(update'.to)
      BY <2>2, <2>3, Zenon
    <3>2. Pinned(update.to)' /\ Pinned(knobs)'
      BY <1>0, <3>1, Zenon DEF Pinned, PinnedTo, StartInv, KnobInv
    <3>. QED
      BY <1>0, <2>3, <3>1, <3>2, Zenon DEF StartInv, KnobInv
  <2>5. ListInv'
    BY <1>0, <2>2, <2>3, Zenon DEF StartInv, ListInv
  <2>. QED
    BY <1>1, <2>4, <2>5, Zenon DEF StartInv
<1>. QED
  BY <1>2, <1>3, Zenon

\* A store moves one knob to a value that is good and keeps the flags.
LEMMA StoreKnobKeeps == ASSUME NEW f \in KnobFields, StartInv, StoreKnob(f) PROVE StartInv'
<1>0. /\ f \in update.left /\ knobs' = [knobs EXCEPT ![f] = update.to[f]]
      /\ update' = [update EXCEPT !.left = update.left \ {f}]
      /\ UNCHANGED <<cli, env, file, forwarders, source, entries, settings, stage, rl, rl0, snap>>
  BY Zenon DEF StoreKnob, cfgVars, bootVars, fdVars
<1>1. ConfigInv' /\ SettingsInv' /\ SnapInv'
  BY <1>0, SameConfig, SameSettings, SameSnap, Zenon DEF StartInv
<1>2. /\ update.busy /\ GoodKnobs(update.to) /\ Pinned(update.to) /\ GoodKnobs(knobs) /\ Pinned(knobs)
      /\ stage = "serving" /\ update.left \subseteq KnobFields
      /\ update = [busy |-> update.busy, to |-> update.to, left |-> update.left, loaded |-> update.loaded]
  BY <1>0, Zenon DEF StartInv, KnobInv
<1>3. /\ update' = [busy |-> update.busy, to |-> update.to, left |-> update.left \ {f}, loaded |-> update.loaded]
  BY <1>0, <1>2, Zenon
<1>4. /\ update'.busy = update.busy /\ update'.to = update.to /\ update'.left = update.left \ {f}
      /\ update'.loaded = update.loaded
      /\ update' = [busy |-> update'.busy, to |-> update'.to, left |-> update'.left, loaded |-> update'.loaded]
  BY <1>3, Zenon
<1>5. KnobInv'
  <2>1. DOMAIN knobs = KnobFields /\ DOMAIN update.to = KnobFields
    BY <1>2, Zenon DEF GoodKnobs
  <2>2. DOMAIN knobs' = KnobFields /\ \A g \in KnobFields : knobs'[g] = IF g = f THEN update.to[f] ELSE knobs[g]
    BY <1>0, <2>1, Zenon
  <2>3. GoodKnobs(knobs')
    BY <1>2, <2>2, Zenon DEF GoodKnobs
  <2>4. Pinned(knobs)' /\ Pinned(update.to)'
    BY <1>0, <1>2, <1>4, <2>2 DEF Pinned, PinnedTo
  <2>. QED
    BY <1>0, <1>2, <1>4, <2>3, <2>4, Zenon DEF KnobInv
<1>6. ListInv'
  BY <1>0, <1>4, Zenon DEF StartInv, ListInv
<1>. QED
  BY <1>1, <1>5, <1>6, Zenon DEF StartInv

\* sync replaces the forwarders when they came from the file, and only then.
LEMMA ReloadSyncsKeeps == StartInv /\ ReloadSyncs => StartInv'
<1> SUFFICES ASSUME StartInv, ReloadSyncs PROVE StartInv'
  BY Zenon
<1>0. /\ update.busy /\ update' = Nothing
      /\ source = "File" => forwarders' = update.loaded.list /\ entries' = update.loaded.entries
      /\ source # "File" => UNCHANGED <<forwarders, entries>>
      /\ UNCHANGED <<cli, env, file, source, settings, stage, rl, rl0, knobs, snap>>
  BY Zenon DEF ReloadSyncs, cfgVars, fdVars
<1>1. ConfigInv' /\ SettingsInv' /\ SnapInv'
  BY <1>0, SameConfig, SameSettings, SameSnap, Zenon DEF StartInv
<1>2. ~update'.busy /\ update'.left = {}
  BY <1>0, Zenon DEF Nothing
<1>3. KnobInv'
  <2>1. update' = [busy |-> update'.busy, to |-> update'.to, left |-> update'.left, loaded |-> update'.loaded]
    BY <1>0, Zenon DEF Nothing
  <2>2. stage = "serving" => Pinned(knobs)'
    BY <1>0, Zenon DEF StartInv, KnobInv, Pinned, PinnedTo
  <2>. QED
    BY <1>0, <1>2, <2>1, <2>2, Zenon DEF StartInv, KnobInv
<1>4. ListInv'
  <2>1. CASE source = "File"
    <3>1. /\ SoundList(forwarders') /\ EndsAgree(entries') /\ ListOf(forwarders', entries')
      BY <1>0, <2>1, Zenon DEF StartInv, ListInv
    <3>2. stage = "serving" /\ load_env_forwarders(env) = {<<>>}
      BY <1>0, <2>1, Zenon DEF StartInv, ListInv, KnobInv
    <3>. QED
      BY <1>0, <1>2, <2>1, <3>1, <3>2, Zenon DEF ListInv
  <2>2. CASE source # "File"
    BY <1>0, <1>2, <2>2, Zenon DEF StartInv, ListInv
  <2>. QED
    BY <2>1, <2>2, Zenon
<1>. QED
  BY <1>1, <1>3, <1>4, Zenon DEF StartInv

\* An accept starts a snapshot with nothing loaded.
LEMMA AcceptKeeps == StartInv /\ Accept => StartInv'
<1> SUFFICES ASSUME StartInv, Accept PROVE StartInv'
  BY Zenon
<1>0. /\ snap' = <<>>
      /\ UNCHANGED <<cli, env, file, forwarders, source, entries, settings, stage, rl, rl0, knobs, update>>
  BY Zenon DEF Accept, cfgVars, bootVars, fdVars, knobVars
<1>1. SnapInv'
  <2>1. DOMAIN snap' = {} /\ Loaded(0) = {}
    BY <1>0 DEF Loaded
  <2>. QED
    BY <2>1 DEF SnapInv
<1>. QED
  BY <1>0, <1>1, SameConfig, SameSettings, SameKnobs, SameList, Zenon DEF StartInv

\* A load adds the next field of the order with the value the knob has now.
LEMMA LoadKnobKeeps == StartInv /\ LoadKnob => StartInv'
<1> SUFFICES ASSUME StartInv, LoadKnob PROVE StartInv'
  BY Zenon
<1> DEFINE f == SnapshotOrder[Cardinality(DOMAIN snap) + 1]
<1>0. /\ ~Built /\ snap' = Over([g \in {f} |-> knobs[g]], snap)
      /\ UNCHANGED <<cli, env, file, forwarders, source, entries, settings, stage, rl, rl0, knobs, update>>
  BY Zenon DEF LoadKnob, cfgVars, bootVars, fdVars, knobVars
<1>1. SnapInv'
  <2>1. PICK n \in 0 .. 8 : DOMAIN snap = Loaded(n)
    BY Zenon DEF StartInv, SnapInv
  <2>2. n # 8
    BY <1>0, <2>1 DEF Built, Loaded, SnapshotOrder
  <2>3. n + 1 \in 1 .. 8 /\ f = SnapshotOrder[n + 1]
    BY <2>1, <2>2, LoadedCount
  <2>4. f \in KnobFields
    BY <2>3 DEF SnapshotOrder, KnobFields
  <2>5. /\ DOMAIN snap' = {f} \cup DOMAIN snap
        /\ \A g \in DOMAIN snap' : snap'[g] = IF g = f THEN knobs[f] ELSE snap[g]
    BY <1>0, Zenon DEF Over
  <2>6. DOMAIN snap' = Loaded(n + 1)
    BY <2>1, <2>3, <2>5 DEF Loaded
  <2>7. GoodKnob(f, knobs[f])
    BY <2>4, Zenon DEF StartInv, KnobInv, GoodKnobs
  <2>8. \A g \in DOMAIN snap' : GoodKnob(g, snap'[g])
    BY <2>5, <2>7, Zenon DEF StartInv, SnapInv
  <2>. QED
    BY <2>3, <2>6, <2>8 DEF SnapInv
<1>. QED
  BY <1>0, <1>1, SameConfig, SameSettings, SameKnobs, SameList, Zenon DEF StartInv

\* A step that changes nothing keeps the invariant.
LEMMA StutterKeeps == StartInv /\ UNCHANGED vars => StartInv'
<1> SUFFICES ASSUME StartInv, UNCHANGED vars PROVE StartInv'
  BY Zenon
<1>1. UNCHANGED <<cli, env, file, forwarders, source, entries, settings, stage, rl, rl0, knobs, update, snap>>
  BY Zenon DEF vars, cfgVars, bootVars, fdVars, knobVars
<1>. QED
  BY <1>1, SameConfig, SameSettings, SameKnobs, SameList, SameSnap, Zenon DEF StartInv

-----------------------------------------------------------------------------
(* The theorems.                                                           *)

\* StartInv is inductive: it holds after every step of main, of the watcher and of
\* an accept.
THEOREM StartInvariance == Spec => []StartInv
<1>1. StartInv /\ [Next]_vars => StartInv'
  BY LoadForwardersKeeps, LoadSettingsKeeps, ServeKeeps, EditKeeps, ReloadLoadsKeeps, StoreKnobKeeps,
     ReloadSyncsKeeps, AcceptKeeps, LoadKnobKeeps, StutterKeeps, Zenon DEF Next
<1>. QED
  BY InitStart, <1>1, PTL DEF Spec

\* Whatever the file is edited to and however many entries and ports it lists, a
\* serving process runs exactly the forwarders of the entries last applied, on ports
\* that are u16 and on no local address twice.
THEOREM ListedRuns == Spec => []RunsWhatIsListed
<1>1. StartInv => RunsWhatIsListed
  <2> SUFFICES ASSUME StartInv, stage = "serving" PROVE RunsWhatIsListed
    BY Zenon DEF RunsWhatIsListed
  <2>1. /\ SoundList(forwarders) /\ EndsAgree(entries)
        /\ source = "File" => ListOf(forwarders, entries)
    BY Zenon DEF StartInv, ListInv
  <2>2. \A i, j \in DOMAIN forwarders : Endpoint(forwarders[i]) = Endpoint(forwarders[j]) => i = j
    BY <2>1, Zenon DEF SoundList, validate_no_duplicates, Endpoint
  <2>. QED
    BY <2>1, <2>2, Zenon DEF RunsWhatIsListed, SoundList, EndsAgree, ListOf
<1>. QED
  BY StartInvariance, <1>1, PTL

\* A flag of the command line decides its knob at every moment of every reload, and
\* forwarders of the environment or the command line are never replaced.
THEOREM FlagsPrevail == Spec => []OverridesSurvive
<1>1. StartInv => OverridesSurvive
  BY Zenon DEF StartInv, KnobInv, ListInv, Pinned, OverridesSurvive
<1>. QED
  BY StartInvariance, <1>1, PTL

\* A snapshot can be worked with even when its loads fall between the stores of any
\* number of reloads.
THEOREM SnapshotsUsable == Spec => []SnapshotUsable
<1>1. StartInv => SnapshotUsable
  <2> SUFFICES ASSUME StartInv, Built PROVE SnapshotUsable
    BY Zenon DEF SnapshotUsable
  <2>1. /\ snap.buffer_bytes \in MIN_BUFFER_BYTES .. MAX_BUFFER_BYTES
        /\ snap.connect_timeout_secs \in Nat /\ snap.dns_timeout_secs \in Nat
        /\ snap.keepalive_idle_secs \in Nat /\ snap.keepalive_interval_secs \in Nat
        /\ snap.keepalive_retries \in Nat
    <3>1. {"buffer_bytes", "connect_timeout_secs", "dns_timeout_secs", "keepalive_idle_secs",
           "keepalive_interval_secs", "keepalive_retries"} \subseteq DOMAIN snap
      BY DEF Built, SnapshotOrder
    <3>2. \A f \in DOMAIN snap : GoodKnob(f, snap[f])
      BY Zenon DEF StartInv, SnapInv
    <3>. QED
      BY <3>1, <3>2, Zenon DEF GoodKnob, Switches
  <2>2. \A v \in Nat : floor(v) >= 1
    BY DEF floor
  <2>3. KnobSnapshot(snap).buffer_bytes \in MIN_BUFFER_BYTES .. MAX_BUFFER_BYTES
    BY <2>1 DEF KnobSnapshot
  <2>4. 0 \notin {KnobSnapshot(snap).connect_timeout, KnobSnapshot(snap).dns_timeout}
                   \cup KnobSnapshot(snap).socket_buffer_bytes
    BY <2>1, <2>2 DEF KnobSnapshot
  <2>5. \A ka \in KnobSnapshot(snap).keepalive : ka.idle >= 1 /\ ka.interval >= 1 /\ ka.retries >= 1
    BY <2>1, <2>2 DEF KnobSnapshot
  <2>. QED
    BY <2>3, <2>4, <2>5, Zenon DEF SnapshotUsable
<1>. QED
  BY StartInvariance, <1>1, PTL

\* On every file and every set of flags, clamp_in_place repairs all that validate
\* refuses but the metrics address and the webhook URL, and leaves what it accepts alone.
THEOREM ClampMatchesValidate == Spec => []ClampAgrees
<1>1. StartInv => ClampAgrees
  <2> SUFFICES ASSUME StartInv PROVE ClampAgrees
    OBVIOUS
  <2> DEFINE s == apply_cli_overrides(FromFile(file.settings), cli.flags)
  <2>1. IsSettings(s)
    BY FileTyped, CliTyped DEF StartInv, ConfigInv, IsFile, IsCli
  <2>2. s = [f \in DOMAIN s |-> s[f]]
    BY DEF apply_cli_overrides, Over
  <2> HIDE DEF s
  <2>3. validate(s) => clamp_in_place(s) = s
    BY <2>1, <2>2, ClampKeepsValid, Zenon DEF validate
  <2>4. NumbersValid(clamp_in_place(s))
    BY <2>1, ClampValid, Zenon
  <2>5. EndpointsValid(clamp_in_place(s)) <=> EndpointsValid(s)
    BY <2>1, ClampEndpoints, Zenon
  <2>. QED
    BY <2>3, <2>4, <2>5, Zenon DEF ClampAgrees, validate, s
<1>. QED
  BY StartInvariance, <1>1, PTL

\* Main never lowers the open-file limit nor passes the hard one, and serves without
\* a warning only with room for what the settings allow.
THEOREM LimitsAreSound == Spec => LimitsSound
<1> DEFINE Sound ==
      stage # "serving" /\ stage' = "serving" =>
        /\ rl'.hard = rl0.hard /\ rl'.soft >= rl0.soft
        /\ rl'.soft > rl0.soft => rl'.soft <= rl'.hard
        /\ warned' = {} =>
             /\ \A max \in settings.max_connections :
                  rl'.soft >= BASE_FDS + (IF settings.use_splice THEN 6 ELSE 2) * Least(max, MaxU64 \div 8)
             /\ "udp" \in {f.protocol : f \in Range(forwarders)} =>
                  rl'.soft >= settings.udp_max_sessions + FD_HEADROOM
<1>1. StartInv /\ [Next]_vars => [Sound]_vars
  <2> SUFFICES ASSUME StartInv, Next, stage # "serving", stage' = "serving" PROVE Sound
    OBVIOUS
  <2>1. Serve
    BY DEF Next, LoadForwarders, LoadSettings, Edit, ReloadLoads, StoreKnob, ReloadSyncs, Accept, LoadKnob, vars
  <2>. QED
    BY <2>1, ServeLimit
<1>. QED
  BY StartInvariance, <1>1, PTL DEF Spec, LimitsSound

=============================================================================
