---------------------------- MODULE CodecProofs ----------------------------
(***************************************************************************)
(* The escapes of JSON strings give UTF-8, and base64 is undone by reading *)
(* it, for every escape and every number of bytes.                         *)
(***************************************************************************)
EXTENDS Codecs, FiniteSetTheorems, SequenceTheorems, WellFoundedInduction, TLAPS

(***************************************************************************)
(* Escapes.                                                                *)
(***************************************************************************)

\* A byte that continues a sequence.
Cont(b) == b \in Nat /\ 128 <= b /\ b < 192

\* IS_CONT and the mask 0x3F on such a byte.
LEMMA ContBits ==
  ASSUME NEW b, Cont(b)
  PROVE  b % 64 = b - 128 /\ IS_CONT(b)
BY DEF Cont, IS_CONT

\* verify_utf8_sequence reads back sequences of one to four bytes, unless they
\* are longer than needed or stand for a surrogate.
LEMMA OneByte ==
  ASSUME NEW a \in Nat, a < 128
  PROVE  num_bytes_in_utf8_sequence(a) = 1 /\ verify_utf8_sequence(<<a>>) = a
<1>1. num_bytes_in_utf8_sequence(a) = 1
  BY DEF num_bytes_in_utf8_sequence, IS_CONT
<1>2. ~IsLead(a) /\ ~IsTrail(a)
  BY DEF IsLead, IsTrail
<1> QED BY <1>1, <1>2 DEF verify_utf8_sequence

\* Two bytes.
LEMMA TwoBytes ==
  ASSUME NEW a \in Nat, 194 <= a, a < 224, NEW b, Cont(b), NEW cp,
         cp = (a - 192) * 64 + (b - 128)
  PROVE  num_bytes_in_utf8_sequence(a) = 2 /\ verify_utf8_sequence(<<a, b>>) = cp
<1>1. num_bytes_in_utf8_sequence(a) = 2
  BY DEF num_bytes_in_utf8_sequence, IS_CONT
<1>2. a % 32 = a - 192 /\ b % 64 = b - 128 /\ IS_CONT(b)
  BY ContBits
<1>3. cp \in Nat /\ cp >= 128 /\ cp < 2048 /\ ~IsLead(cp) /\ ~IsTrail(cp)
  BY DEF Cont, IsLead, IsTrail
<1> QED BY <1>1, <1>2, <1>3 DEF verify_utf8_sequence

\* Three bytes.
LEMMA ThreeBytes ==
  ASSUME NEW a \in Nat, 224 <= a, a < 240, NEW b, Cont(b), NEW c, Cont(c), NEW cp,
         cp = ((a - 224) * 64 + (b - 128)) * 64 + (c - 128),
         cp >= 2048, ~IsLead(cp), ~IsTrail(cp)
  PROVE  num_bytes_in_utf8_sequence(a) = 3 /\ verify_utf8_sequence(<<a, b, c>>) = cp
<1>1. num_bytes_in_utf8_sequence(a) = 3
  BY DEF num_bytes_in_utf8_sequence, IS_CONT
<1>2. a % 16 = a - 224 /\ b % 64 = b - 128 /\ c % 64 = c - 128 /\ IS_CONT(b) /\ IS_CONT(c)
  BY ContBits
<1>3. cp \in Nat /\ cp < 65536
  BY DEF Cont
<1> QED BY <1>1, <1>2, <1>3 DEF verify_utf8_sequence

\* Four bytes.
LEMMA FourBytes ==
  ASSUME NEW a \in Nat, 240 <= a, a < 245, NEW b, Cont(b), NEW c, Cont(c), NEW d, Cont(d),
         NEW cp, cp = (((a - 240) * 64 + (b - 128)) * 64 + (c - 128)) * 64 + (d - 128),
         cp >= 65536, cp <= 1114111
  PROVE  num_bytes_in_utf8_sequence(a) = 4 /\ verify_utf8_sequence(<<a, b, c, d>>) = cp
<1>1. num_bytes_in_utf8_sequence(a) = 4
  BY DEF num_bytes_in_utf8_sequence, IS_CONT
<1>2. /\ a % 8 = a - 240 /\ b % 64 = b - 128 /\ c % 64 = c - 128 /\ d % 64 = d - 128
      /\ IS_CONT(b) /\ IS_CONT(c) /\ IS_CONT(d)
  BY ContBits
<1>3. cp \in Nat /\ ~IsLead(cp) /\ ~IsTrail(cp)
  BY DEF Cont, IsLead, IsTrail
<1> QED BY <1>1, <1>2, <1>3 DEF verify_utf8_sequence

Unit == {u \in Nat : u < 65536}
UnitsType == {<<u>> : u \in Unit} \cup (Unit \X Unit)

\* The code point that an escape means.
Meant(us) ==
  IF Len(us) > 1 /\ IsLead(us[1]) /\ IsTrail(us[2])
  THEN 65536 + (us[1] - 55296) * 1024 + (us[2] - 56320)
  ELSE us[1]

\* What EscapesGiveUtf8 says of some units.
Faithful(us) ==
  LET r == parse_utf16(us)
  IN  IF r.ok
      THEN /\ verify_utf8_sequence(r.value) = Meant(us)
           /\ num_bytes_in_utf8_sequence(r.value[1]) = Len(r.value)
      ELSE IsLead(Meant(us)) \/ IsTrail(Meant(us))

\* It is enough that parse_utf16 gives bytes that are read as what was meant.
LEMMA GoodIsFaithful ==
  ASSUME NEW us, NEW v, parse_utf16(us) = Good(v, 1) \/ parse_utf16(us) = Good(v, 2), NEW n,
         verify_utf8_sequence(v) = Meant(us), num_bytes_in_utf8_sequence(v[1]) = n, Len(v) = n
  PROVE  Faithful(us)
<1>1. parse_utf16(us).ok /\ parse_utf16(us).value = v
  BY DEF Good
<1> QED BY <1>1 DEF Faithful

\* parse_utf16 writes one to three bytes for a unit that is no surrogate.
LEMMA WritesOne ==
  ASSUME NEW us, NEW n \in Nat, us[1] = n, n < 128
  PROVE  Faithful(us)
<1>1. parse_utf16(us) = Good(<<n>>, 1)
  BY SMT DEF parse_utf16, IsLead, IsTrail, Good
<1>2. Meant(us) = n
  BY DEF Meant, IsLead
<1>3. num_bytes_in_utf8_sequence(n) = 1 /\ verify_utf8_sequence(<<n>>) = n
  BY OneByte
<1>4. Len(<<n>>) = 1 /\ <<n>>[1] = n
  OBVIOUS
<1> QED BY ONLY <1>1, <1>2, <1>3, <1>4, GoodIsFaithful, Zenon

\* Two bytes.
LEMMA WritesTwo ==
  ASSUME NEW us, NEW n \in Nat, us[1] = n, 128 <= n, n < 2048
  PROVE  Faithful(us)
<1> DEFINE a == 192 + Bits(n, 64, 32)
           b == Continuation(n, 1)
<1>1. parse_utf16(us) = Good(<<a, b>>, 1)
  BY SMT DEF parse_utf16, IsLead, IsTrail, Good
<1>2. Meant(us) = n
  BY DEF Meant, IsLead
<1>3. a \in Nat /\ 194 <= a /\ a < 224 /\ Cont(b) /\ n = (a - 192) * 64 + (b - 128)
  BY DEF Bits, Continuation, Cont
<1> HIDE DEF a, b
<1>4. num_bytes_in_utf8_sequence(a) = 2 /\ verify_utf8_sequence(<<a, b>>) = n
  BY <1>3, TwoBytes
<1>5. Len(<<a, b>>) = 2 /\ <<a, b>>[1] = a
  OBVIOUS
<1> QED BY ONLY <1>1, <1>2, <1>4, <1>5, GoodIsFaithful, Zenon

\* Three bytes.
LEMMA WritesThree ==
  ASSUME NEW us, NEW n \in Nat, us[1] = n, 2048 <= n, n < 65536, ~IsLead(n), ~IsTrail(n)
  PROVE  Faithful(us)
<1> DEFINE a == 224 + Bits(n, 4096, 16)
           b == Continuation(n, 64)
           c == Continuation(n, 1)
<1>1. parse_utf16(us) = Good(<<a, b, c>>, 1)
  BY SMT DEF parse_utf16, IsLead, IsTrail, Good
<1>2. Meant(us) = n
  BY DEF Meant
<1>3. /\ a \in Nat /\ 224 <= a /\ a < 240 /\ Cont(b) /\ Cont(c)
      /\ n = ((a - 224) * 64 + (b - 128)) * 64 + (c - 128)
  BY DEF Bits, Continuation, Cont
<1> HIDE DEF a, b, c
<1>4. num_bytes_in_utf8_sequence(a) = 3 /\ verify_utf8_sequence(<<a, b, c>>) = n
  BY <1>3, ThreeBytes
<1>5. Len(<<a, b, c>>) = 3 /\ <<a, b, c>>[1] = a
  OBVIOUS
<1> QED BY ONLY <1>1, <1>2, <1>4, <1>5, GoodIsFaithful, Zenon

\* A pair of surrogates comes out as four bytes.
LEMMA WritesFour ==
  ASSUME NEW us, NEW n \in Nat, us[1] = n, NEW m \in Nat, us[2] = m,
         IsLead(n), Len(us) = 2, IsTrail(m)
  PROVE  Faithful(us)
<1> DEFINE s == Surrogate(n, m)
           a == 240 + Bits(s, 262144, 8)
           b == Continuation(s, 4096)
           c == Continuation(s, 64)
           d == Continuation(s, 1)
<1>1. parse_utf16(us) = Good(<<a, b, c, d>>, 2)
  BY SMT DEF parse_utf16, IsLead, IsTrail, Good
<1>2. Meant(us) = s
  BY DEF Meant, Surrogate
<1>3. s \in Nat /\ 65536 <= s /\ s <= 1114111
  BY DEF Surrogate, IsLead, IsTrail
<1> HIDE DEF s
<1>4. /\ a \in Nat /\ 240 <= a /\ a < 245 /\ Cont(b) /\ Cont(c) /\ Cont(d)
      /\ s = (((a - 240) * 64 + (b - 128)) * 64 + (c - 128)) * 64 + (d - 128)
  BY <1>3 DEF Bits, Continuation, Cont
<1> HIDE DEF a, b, c, d
<1>5. num_bytes_in_utf8_sequence(a) = 4 /\ verify_utf8_sequence(<<a, b, c, d>>) = s
  BY <1>3, <1>4, FourBytes
<1>6. Len(<<a, b, c, d>>) = 4 /\ <<a, b, c, d>>[1] = a
  OBVIOUS
<1> QED BY ONLY <1>1, <1>2, <1>5, <1>6, GoodIsFaithful, Zenon

\* A surrogate without its other half is refused.
LEMMA RefusesTheRest ==
  ASSUME NEW us, NEW n \in Nat, us[1] = n, IsLead(n) \/ IsTrail(n),
         ~(IsLead(n) /\ Len(us) > 1 /\ IsTrail(us[2]))
  PROVE  Faithful(us)
<1>1. parse_utf16(us) = Bad
  BY SMT DEF parse_utf16, IsLead, IsTrail
<1>2. ~parse_utf16(us).ok
  BY <1>1 DEF Bad
<1>3. Meant(us) = n
  BY DEF Meant
<1> QED BY <1>2, <1>3 DEF Faithful

\* Every escape is written as the character it means, or refused.
LEMMA EscapeFaithful ==
  ASSUME NEW us \in UnitsType
  PROVE  Faithful(us)
<1>1. PICK n : us[1] = n /\ n \in Nat /\ n < 65536
  BY DEF UnitsType, Unit
<1>2. Len(us) = 1 \/ (Len(us) = 2 /\ us[2] \in Nat)
  BY DEF UnitsType, Unit
<1>3. CASE IsLead(n) /\ Len(us) > 1 /\ IsTrail(us[2])
  BY <1>1, <1>2, <1>3, WritesFour
<1>4. CASE (IsLead(n) \/ IsTrail(n)) /\ ~(IsLead(n) /\ Len(us) > 1 /\ IsTrail(us[2]))
  BY <1>1, <1>4, RefusesTheRest
<1>5. CASE ~IsLead(n) /\ ~IsTrail(n)
  BY <1>1, <1>5, WritesOne, WritesTwo, WritesThree
<1> QED BY <1>3, <1>4, <1>5

----------------------------------------------------------------------------
(***************************************************************************)
(* The groups that the loops of base64.cpp append.                         *)
(***************************************************************************)

\* The smaller of two naturals, as a relation.
Smaller == {p \in Nat \X Nat : p[1] < p[2]}

\* Every set of naturals has a least element.
LEMMA SmallerWF == IsWellFoundedOn(Smaller, Nat)
BY NatLessThanWellFounded DEF OpToRel, Smaller, IsWellFoundedOn

\* A set that holds 0 and with every number its successor holds them all: what
\* each group appended keeps holds after any number of them.
LEMMA NatSets ==
  ASSUME NEW S, 0 \in S, \A n \in Nat : n \in S => n + 1 \in S
  PROVE  Nat \subseteq S
<1> DEFINE T == Nat \ S
<1>1. SUFFICES ASSUME T # {} PROVE FALSE
  OBVIOUS
<1>2. PICK x \in T : \A y \in T : ~ (<<y, x>> \in Smaller)
  BY <1>1, WFMin, SmallerWF, Zenon
<1>3. x - 1 \in Nat /\ x - 1 \in T
  BY <1>2
<1>4. <<x - 1, x>> \in Smaller
  BY <1>2, <1>3 DEF Smaller
<1> QED BY <1>2, <1>3, <1>4

\* The elements in the first n of groups of size L, when there are T in all.
Size(L, T, n) == IF L * n < T THEN L * n ELSE T

\* The first n groups, put together.
Joined(gs, L, T, n) ==
  [k \in 1..Size(L, T, n) |-> gs[(k - 1) \div L + 1][((k - 1) % L) + 1]]

\* gs are groups of size L, of which the last may be smaller, with T elements.
AreGroups(gs, L, T) ==
  /\ L \in {3, 4} /\ T \in Nat
  /\ Len(gs) \in Nat /\ T <= L * Len(gs)
  /\ \A g \in 1..Len(gs) : \E X : /\ gs[g] \in Seq(X)
                                  /\ Len(gs[g]) = Size(L, T, g) - Size(L, T, g - 1)

\* With more groups there are more elements.
LEMMA SizeGrows ==
  ASSUME NEW L \in {3, 4}, NEW T \in Nat, NEW n \in Nat, n # 0
  PROVE  /\ Size(L, T, n) \in Nat /\ Size(L, T, n - 1) \in Nat
         /\ Size(L, T, n - 1) <= Size(L, T, n)
<1>1. CASE L = 3
  BY <1>1 DEF Size
<1>2. CASE L = 4
  BY <1>2 DEF Size
<1> QED BY <1>1, <1>2

\* One more group goes after those before it.
LEMMA JoinsOne ==
  ASSUME NEW gs, NEW L, NEW T, AreGroups(gs, L, T), NEW n \in 1..Len(gs)
  PROVE  Joined(gs, L, T, n) = Joined(gs, L, T, n - 1) \o gs[n]
<1> DEFINE s == Size(L, T, n - 1)
           t == Size(L, T, n)
           J == Joined(gs, L, T, n)
           K == Joined(gs, L, T, n - 1)
<1>1. L \in {3, 4} /\ T \in Nat /\ n \in Nat /\ n # 0
  BY DEF AreGroups
<1>2. s \in Nat /\ t \in Nat /\ s <= t
  BY <1>1, SizeGrows, Zenon
<1>3. PICK X : gs[n] \in Seq(X) /\ Len(gs[n]) = t - s
  BY DEF AreGroups
<1>4. \A k \in 1..t : k > s => (k - 1) \div L + 1 = n /\ ((k - 1) % L) + 1 = k - s
  <2>1. PICK u, v : u = s /\ v = t
    OBVIOUS
  <2>2. ASSUME NEW k \in Nat, k > u, k <= v
        PROVE  (k - 1) \div L + 1 = n /\ ((k - 1) % L) + 1 = k - u
    <3>1. CASE L = 3
      BY <1>1, <2>1, <2>2, <3>1 DEF Size
    <3>2. CASE L = 4
      BY <1>1, <2>1, <2>2, <3>2 DEF Size
    <3> QED BY <1>1, <3>1, <3>2
  <2> QED BY <1>2, <2>1, <2>2
<1>5. /\ J = [k \in 1..t |-> gs[(k - 1) \div L + 1][((k - 1) % L) + 1]]
      /\ K = [k \in 1..s |-> gs[(k - 1) \div L + 1][((k - 1) % L) + 1]]
  BY DEF Joined
<1> HIDE DEF s, t, J, K
<1>6. J = [k \in 1..t |-> IF k <= s THEN K[k] ELSE gs[n][k - s]]
  BY <1>2, <1>4, <1>5
<1>7. DOMAIN K = 1..s /\ Len(K) = s
  BY <1>2, <1>5
<1>8. K \o gs[n] = [k \in 1..(s + (t - s)) |-> IF k <= s THEN K[k] ELSE gs[n][k - s]]
  <2> DEFINE Y == X \cup {K[k] : k \in 1..s}
             C == K \o gs[n]
  <2>0. K \in [1..s -> Y]
    BY <1>5
  <2>1. K \in Seq(Y) /\ gs[n] \in Seq(Y)
    BY <1>2, <1>3, <2>0
  <2>2. /\ C \in Seq(Y) /\ Len(C) = s + (t - s)
        /\ \A k \in 1..(s + (t - s)) : C[k] = IF k <= s THEN K[k] ELSE gs[n][k - s]
    <3>1. /\ C \in Seq(Y) /\ Len(C) = Len(K) + Len(gs[n])
          /\ \A k \in 1..(Len(K) + Len(gs[n])) :
                C[k] = IF k <= Len(K) THEN K[k] ELSE gs[n][k - Len(K)]
      BY <2>1, ConcatProperties, Zenon
    <3> QED BY <1>3, <1>7, <3>1, Zenon
  <2> HIDE DEF C, Y
  <2> QED BY <2>2 DEF C
<1>9. s + (t - s) = t
  BY <1>2
<1>10. J = K \o gs[n]
  BY <1>6, <1>8, <1>9, Zenon
<1> QED BY <1>10 DEF J, K

\* T elements, each found at its place in its group of size L.
Flat(gs, L, T) == [k \in 1..T |-> gs[(k - 1) \div L + 1][((k - 1) % L) + 1]]

\* The loops append groups that lie one after the other: an element is found
\* at its place in its group.
LEMMA AppendedIs ==
  ASSUME NEW gs, NEW L, NEW T, AreGroups(gs, L, T)
  PROVE  Appended(gs) = Flat(gs, L, T)
<1> DEFINE N == Len(gs)
           Full(f) == f = [n \in 0..N |-> IF n = 0 THEN <<>> ELSE f[n-1] \o gs[n]]
           U == [n \in 0..N |-> Joined(gs, L, T, n)]
           ret == CHOOSE f : Full(f)
<1>1. L \in {3, 4} /\ T \in Nat /\ N \in Nat /\ T <= L * N
  BY DEF AreGroups
<1>2. Joined(gs, L, T, 0) = <<>>
  <2>1. Size(L, T, 0) = 0
    BY <1>1 DEF Size
  <2> QED BY <2>1 DEF Joined
<1>3. Joined(gs, L, T, N) = Flat(gs, L, T)
  <2>1. Size(L, T, N) = T
    BY <1>1 DEF Size
  <2> QED BY <2>1 DEF Joined, Flat
<1>4. \A n \in 1..N : Joined(gs, L, T, n) = Joined(gs, L, T, n - 1) \o gs[n]
  BY JoinsOne, Zenon
<1>5. Full(U)
  <2>1. ASSUME NEW n \in 0..N
        PROVE  Joined(gs, L, T, n) = IF n = 0 THEN <<>> ELSE U[n-1] \o gs[n]
    <3>1. CASE n = 0
      BY <1>2, <3>1
    <3>2. CASE n # 0
      <4>1. n \in 1..N /\ n - 1 \in 0..N
        BY <1>1, <3>2
      <4>2. U[n-1] = Joined(gs, L, T, n - 1)
        BY <4>1, Zenon
      <4> QED BY <1>4, <3>2, <4>1, <4>2, Zenon
    <3> QED BY <3>1, <3>2
  <2> QED BY <2>1, Zenon
<1>6. Full(ret)
  BY <1>5, Zenon
<1>7. Appended(gs) = ret[N]
  BY DEF Appended
<1> HIDE DEF ret
<1> DEFINE Same == {n \in Nat : n <= N => ret[n] = Joined(gs, L, T, n)}
<1>8. 0 \in Same
  BY <1>1, <1>2, <1>6
<1>9. ASSUME NEW n \in Nat, n \in Same
      PROVE  n + 1 \in Same
  <2> SUFFICES ASSUME n + 1 <= N
               PROVE  ret[n+1] = Joined(gs, L, T, n + 1)
    OBVIOUS
  <2>1. n + 1 \in 1..N /\ n + 1 \in 0..N /\ n + 1 # 0 /\ (n + 1) - 1 = n
    BY <1>1
  <2>2. ret[n] = Joined(gs, L, T, n)
    BY <1>1, <1>9
  <2>3. ret[n+1] = ret[(n+1)-1] \o gs[n+1]
    BY <1>6, <2>1, Zenon
  <2>4. Joined(gs, L, T, n + 1) = Joined(gs, L, T, (n + 1) - 1) \o gs[n+1]
    BY <1>4, <2>1, Zenon
  <2> QED BY <2>1, <2>2, <2>3, <2>4, Zenon
<1> HIDE DEF Same
<1>10. Nat \subseteq Same
  BY <1>8, <1>9, NatSets, Zenon
<1>11. ret[N] = Joined(gs, L, T, N)
  BY <1>1, <1>10 DEF Same
<1> QED BY <1>3, <1>7, <1>11, Zenon

\* The g-th group of size L of n elements starts after L * (g - 1) of them and
\* is full, or the last.
GroupLen(L, n, g) == IF L * g < n THEN L ELSE n - L * (g - 1)
NumGroups(L, n) == (n + L - 1) \div L

\* Each group has an element, and the groups before it are full.
LEMMA GroupArith ==
  ASSUME NEW L \in {3, 4}, NEW n \in Nat, NEW g \in 1..NumGroups(L, n)
  PROVE  /\ GroupLen(L, n, g) \in 1..L
         /\ GroupLen(L, n, g) = Size(L, n, g) - Size(L, n, g - 1)
         /\ L * (g - 1) \in Nat
         /\ L * (g - 1) + GroupLen(L, n, g) <= n
         /\ L * (g - 1) + GroupLen(L, n, g) = IF L * g < n THEN L * g ELSE n
<1>1. CASE L = 3
  BY <1>1 DEF GroupLen, NumGroups, Size
<1>2. CASE L = 4
  BY <1>2 DEF GroupLen, NumGroups, Size
<1> QED BY <1>1, <1>2

\* The groups hold all elements.
LEMMA NumGroupsCover ==
  ASSUME NEW L \in {3, 4}, NEW n \in Nat
  PROVE  NumGroups(L, n) \in Nat /\ n <= L * NumGroups(L, n)
<1>1. CASE L = 3
  BY <1>1 DEF NumGroups
<1>2. CASE L = 4
  BY <1>2 DEF NumGroups
<1> QED BY <1>1, <1>2

\* The l elements of s after the first o.
Stretch(s, o, l) == [r \in 1..l |-> s[o + r]]

\* Groups cuts a sequence into groups, each of a stretch of it.
LEMMA GroupsCut ==
  ASSUME NEW X, NEW s \in Seq(X), NEW L \in {3, 4}
  PROVE  /\ DOMAIN Groups(s, L) = 1..NumGroups(L, Len(s))
         /\ Len(Groups(s, L)) = NumGroups(L, Len(s))
         /\ \A g \in 1..NumGroups(L, Len(s)) :
              Groups(s, L)[g] = Stretch(s, L * (g - 1), GroupLen(L, Len(s), g))
<1> DEFINE n == Len(s)
           N == NumGroups(L, n)
<1>0. n \in Nat
  OBVIOUS
<1>1. n \in Nat /\ N \in Nat
  BY <1>0, NumGroupsCover, Zenon
<1>2. Groups(s, L) = [g \in 1..N |->
        SubSeq(s, L * (g - 1) + 1, IF L * g < n THEN L * g ELSE n)]
  BY DEF Groups, NumGroups
<1>3. ASSUME NEW g \in 1..N
      PROVE  SubSeq(s, L * (g - 1) + 1, IF L * g < n THEN L * g ELSE n)
               = Stretch(s, L * (g - 1), GroupLen(L, n, g))
  <2>1. PICK o, l, e : /\ o = L * (g - 1) /\ l = GroupLen(L, n, g)
                       /\ e = IF L * g < n THEN L * g ELSE n
    OBVIOUS
  <2>2. l \in 1..L /\ o \in Nat /\ o + l = e
    BY <1>0, <2>1, GroupArith, Zenon
  <2>3. SubSeq(s, o + 1, o + l) = Stretch(s, o, l)
    <3>1. l \in Nat
      BY <2>2
    <3> QED BY <2>2, <3>1 DEF Stretch
  <2> QED BY <2>1, <2>2, <2>3, Zenon
<1> HIDE DEF N
<1>4. DOMAIN Groups(s, L) = 1..N /\ Len(Groups(s, L)) = N
  BY <1>1, <1>2
<1> QED BY <1>2, <1>3, <1>4, Zenon DEF N

----------------------------------------------------------------------------
(***************************************************************************)
(* One group: three bytes and four letters.                                *)
(***************************************************************************)

Byte == {b \in Nat : b < 256}
Letter == {c \in Nat : c < 64}
Symbol == {c \in Nat : c < 66}

\* The bytes or letters of a group, and 0 where there is none.
At(s, j) == IF j <= Len(s) THEN s[j] ELSE 0

\* The letters of a group, padding aside.
LettersOf(b) ==
  <<At(b, 1) \div 4, (At(b, 1) % 4) * 16 + At(b, 2) \div 16,
    (At(b, 2) % 16) * 4 + At(b, 3) \div 64, At(b, 3) % 64>>

\* The bytes of a group of letters.
BytesOf(c) ==
  <<((At(c, 1) * 4) % 256) + At(c, 2) \div 16, (At(c, 2) % 16) * 16 + At(c, 3) \div 4,
    (At(c, 3) % 4) * 64 + At(c, 4)>>

\* A group of i bytes is i + 1 letters and padding.
LEMMA EncodeGroupIs ==
  ASSUME NEW b, Len(b) \in 1..3
  PROVE  EncodeGroup(b) = [r \in 1..4 |-> IF r <= Len(b) + 1 THEN LettersOf(b)[r] ELSE Pad]
<1>0. PICK i : i = Len(b) /\ i \in 1..3
  BY Zenon
<1> DEFINE V == LettersOf(b)
           X == {V[1], V[2], V[3], V[4], Pad}
           P == [j \in 1..(3 - i) |-> Pad]
           S == SubSeq(V, 1, i + 1)
<1>1. EncodeGroup(b) = S \o P
  BY <1>0 DEF EncodeGroup, LettersOf, At
<1>2. V \in Seq(X) /\ Len(V) = 4
  BY DEF LettersOf
<1> HIDE DEF V, X
<1>3. S = [r \in 1..(i + 1) |-> V[r]] /\ S \in Seq(X) /\ Len(S) = i + 1
  <2>1. PICK m : m = i + 1 /\ m \in Nat /\ m <= 4
    BY <1>0
  <2>2. SubSeq(V, 1, m) = [r \in 1..m |-> V[r]]
    BY <1>2, <2>1
  <2>3. SubSeq(V, 1, m) \in Seq(X) /\ Len(SubSeq(V, 1, m)) = m
    <3>1. PICK f : f = SubSeq(V, 1, m)
      BY Zenon
    <3>2. f \in [1..m -> X]
      <4>1. \A r \in 1..4 : V[r] \in X
        BY <1>2, ElementOfSeq, Zenon
      <4>2. \A r \in 1..m : r \in 1..4
        BY <2>1
      <4> QED BY <2>2, <3>1, <4>1, <4>2, Zenon
    <3>3. f \in Seq(X) /\ Len(f) = m
      BY <2>1, <3>2
    <3> QED BY <3>1, <3>3, Zenon
  <2> QED BY <2>1, <2>2, <2>3, Zenon
<1>4. P \in Seq(X) /\ Len(P) = 3 - i
  <2>0. Pad \in X
    BY Zenon DEF X
  <2>1. 3 - i \in Nat /\ Pad \in X
    BY <1>0, <2>0
  <2>2. P \in [1..(3 - i) -> X]
    BY <2>1
  <2> QED BY <2>1, <2>2
<1>5. /\ S \o P \in Seq(X) /\ Len(S \o P) = Len(S) + Len(P)
      /\ \A r \in 1..(Len(S) + Len(P)) :
            (S \o P)[r] = IF r <= Len(S) THEN S[r] ELSE P[r - Len(S)]
  BY <1>3, <1>4, ConcatProperties, Zenon
<1>6. Len(S) + Len(P) = 4
  <2>1. (i + 1) + (3 - i) = 4
    BY <1>0
  <2> QED BY <1>3, <1>4, <2>1, Zenon
<1>7. \A r \in 1..4 : (S \o P)[r] = IF r <= i + 1 THEN V[r] ELSE Pad
  <2> SUFFICES ASSUME NEW r \in 1..4
               PROVE  (S \o P)[r] = IF r <= i + 1 THEN V[r] ELSE Pad
    BY Zenon
  <2>1. (S \o P)[r] = IF r <= i + 1 THEN S[r] ELSE P[r - (i + 1)]
    BY <1>3, <1>5, <1>6, Zenon
  <2>2. r <= i + 1 => S[r] = V[r]
    BY <1>0, <1>3
  <2>3. ~(r <= i + 1) => P[r - (i + 1)] = Pad
    <3>1. ~(r <= i + 1) => r - (i + 1) \in 1..(3 - i)
      BY <1>0
    <3> QED BY <3>1, Zenon
  <2> QED BY <2>1, <2>2, <2>3, Zenon
<1>8. PICK C : C = S \o P
  BY Zenon
<1>9. C = [r \in 1..4 |-> IF r <= i + 1 THEN V[r] ELSE Pad]
  <2>1. C \in Seq(X) /\ Len(C) = 4 /\ \A r \in 1..4 : C[r] = IF r <= i + 1 THEN V[r] ELSE Pad
    BY <1>5, <1>6, <1>7, <1>8, Zenon
  <2> QED BY <2>1
<1> QED BY <1>0, <1>1, <1>8, <1>9, Zenon DEF V

\* A group of i letters is i - 1 bytes.
LEMMA DecodeGroupIs ==
  ASSUME NEW c, Len(c) \in 1..4
  PROVE  DecodeGroup(c) = [r \in 1..(Len(c) - 1) |-> BytesOf(c)[r]]
<1> DEFINE V == BytesOf(c)
<1>1. DecodeGroup(c) = SubSeq(V, 1, Len(c) - 1)
  BY DEF DecodeGroup, BytesOf, At
<1>2. V \in Seq({V[1], V[2], V[3]}) /\ Len(V) = 3
  BY DEF BytesOf
<1> HIDE DEF V
<1>3. SubSeq(V, 1, Len(c) - 1) = [r \in 1..(Len(c) - 1) |-> V[r]]
  BY <1>2
<1> QED BY <1>1, <1>3 DEF V

\* Bits move from bytes to letters and back: the arithmetic of the shifts.
LEMMA ShiftsBack ==
  ASSUME NEW x \in Byte, NEW y \in Byte, NEW z \in Byte,
         NEW a, a = x \div 4, NEW b, b = (x % 4) * 16 + y \div 16,
         NEW c, c = (y % 16) * 4 + z \div 64, NEW d, d = z % 64
  PROVE  /\ a \in Letter /\ b \in Letter /\ c \in Letter /\ d \in Letter
         /\ ((a * 4) % 256) + b \div 16 = x
         /\ (b % 16) * 16 + c \div 4 = y
         /\ (c % 4) * 64 + d = z
<1>1. PICK xh, xl : x = xh * 4 + xl /\ xh \in Letter /\ xl \in Nat /\ xl < 4
                    /\ xh = x \div 4 /\ xl = x % 4
  BY DEF Byte, Letter
<1>2. PICK yh, yl : y = yh * 16 + yl /\ yh \in Nat /\ yh < 16 /\ yl \in Nat /\ yl < 16
                    /\ yh = y \div 16 /\ yl = y % 16
  BY DEF Byte
<1>3. PICK zh, zl : z = zh * 64 + zl /\ zh \in Nat /\ zh < 4 /\ zl \in Letter
                    /\ zh = z \div 64 /\ zl = z % 64
  BY DEF Byte, Letter
<1>4. b = xl * 16 + yh /\ c = yl * 4 + zh
  BY <1>1, <1>2, <1>3
<1>5. b \in Letter /\ b \div 16 = xl /\ b % 16 = yh
  BY <1>1, <1>2, <1>4 DEF Letter
<1>6. c \in Letter /\ c \div 4 = yl /\ c % 4 = zh
  BY <1>2, <1>3, <1>4 DEF Letter
<1>7. a \in Letter /\ (a * 4) % 256 = xh * 4
  BY <1>1 DEF Letter
<1> QED BY <1>1, <1>2, <1>3, <1>5, <1>6, <1>7

\* A group of bytes is read back from its letters.
LEMMA GroupRoundTrip ==
  ASSUME NEW b, NEW i \in 1..3, b \in [1..i -> Byte],
         NEW c, c = [r \in 1..(i + 1) |-> LettersOf(b)[r]]
  PROVE  DecodeGroup(c) = b /\ \A r \in 1..(i + 1) : LettersOf(b)[r] \in Letter
<1>1. Len(b) = i /\ \A j \in 1..i : b[j] \in Nat /\ b[j] < 256
  BY DEF Byte
<1>2. Len(c) = i + 1
  OBVIOUS
<1>3. PICK x, y, z : /\ x = At(b, 1) /\ y = At(b, 2) /\ z = At(b, 3)
                     /\ x \in Byte /\ y \in Byte /\ z \in Byte
                     /\ b[1] = x /\ (i > 1 => b[2] = y) /\ (i > 2 => b[3] = z)
                     /\ (i < 2 => y = 0) /\ (i < 3 => z = 0)
  BY <1>1 DEF At, Byte
<1>4. PICK v : v = LettersOf(b)
  BY Zenon
<1>5. PICK h, k, l, m : /\ h = x \div 4 /\ k = (x % 4) * 16 + y \div 16
                        /\ l = (y % 16) * 4 + z \div 64 /\ m = z % 64
                        /\ v[1] = h /\ v[2] = k /\ v[3] = l /\ v[4] = m
  BY <1>3, <1>4 DEF LettersOf
<1>0. /\ h \in Letter /\ k \in Letter /\ l \in Letter /\ m \in Letter
      /\ ((h * 4) % 256) + k \div 16 = x
      /\ (k % 16) * 16 + l \div 4 = y
      /\ (l % 4) * 64 + m = z
  BY <1>3, <1>5, ShiftsBack
<1>6. \A r \in 1..(i + 1) : v[r] \in Letter
  <2>1. \A r \in 1..(i + 1) : r = 1 \/ r = 2 \/ r = 3 \/ r = 4
    OBVIOUS
  <2> QED BY <1>0, <1>5, <2>1, Zenon
<1>7. DecodeGroup(c) = [r \in 1..i |-> BytesOf(c)[r]]
  <2>1. Len(c) \in 1..4 /\ Len(c) - 1 = i
    BY <1>2
  <2> QED BY <2>1, DecodeGroupIs, Zenon
<1>8. PICK w : w = BytesOf(c)
  BY Zenon
<1>9. At(c, 1) = h /\ At(c, 2) = k /\ (i > 1 => At(c, 3) = l) /\ (i > 2 => At(c, 4) = m)
  BY <1>2, <1>4, <1>5 DEF At
<1>10. /\ w[1] = ((h * 4) % 256) + k \div 16
       /\ i > 1 => w[2] = (k % 16) * 16 + l \div 4
       /\ i > 2 => w[3] = (l % 4) * 64 + m
  BY <1>8, <1>9 DEF BytesOf
<1>11. w[1] = x /\ (i > 1 => w[2] = y) /\ (i > 2 => w[3] = z)
  BY ONLY <1>0, <1>10
<1>12. \A r \in 1..i : w[r] = b[r]
  BY <1>3, <1>11
<1>13. b = [r \in 1..i |-> b[r]]
  OBVIOUS
<1> QED BY <1>4, <1>6, <1>7, <1>8, <1>12, <1>13, Zenon

----------------------------------------------------------------------------
(***************************************************************************)
(* Whole texts.                                                            *)
(***************************************************************************)

\* base64_encode writes four symbols for every three bytes, and for a rest.
LEMMA EncodeIs ==
  ASSUME NEW bs \in Seq(Byte), NEW N, N = NumGroups(3, Len(bs))
  PROVE  /\ N \in Nat
         /\ base64_encode(bs) = [k \in 1..(4 * N) |->
              EncodeGroup(Groups(bs, 3)[(k - 1) \div 4 + 1])[((k - 1) % 4) + 1]]
<1> DEFINE in == Groups(bs, 3)
           E == [g \in 1..N |-> EncodeGroup(in[g])]
<1>1. Len(bs) \in Nat
  OBVIOUS
<1>2. N \in Nat
  BY <1>1, NumGroupsCover
<1>3. /\ DOMAIN in = 1..N
      /\ \A g \in 1..N : in[g] = Stretch(bs, 3 * (g - 1), GroupLen(3, Len(bs), g))
  <2>1. 3 \in {3, 4}
    OBVIOUS
  <2> QED BY <2>1, GroupsCut, Zenon
<1> HIDE DEF in
<1>4. base64_encode(bs) = Appended(E)
  BY <1>3, Zenon DEF base64_encode, in
<1>5. Len(E) = N
  BY <1>2
<1>6. \A g \in 1..N : E[g] \in Seq({E[g][1], E[g][2], E[g][3], E[g][4]}) /\ Len(E[g]) = 4
  <2> SUFFICES ASSUME NEW g \in 1..N
               PROVE  E[g] \in Seq({E[g][1], E[g][2], E[g][3], E[g][4]}) /\ Len(E[g]) = 4
    BY Zenon
  <2>1. PICK l : l = GroupLen(3, Len(bs), g) /\ l \in 1..3
    BY <1>1, GroupArith, Zenon
  <2>2. Len(in[g]) \in 1..3
    <3>1. PICK f : f = in[g] /\ f = Stretch(bs, 3 * (g - 1), l)
      BY <1>3, <2>1, Zenon
    <3>2. Len(f) = l
      BY <2>1, <3>1 DEF Stretch
    <3> QED BY <2>1, <3>1, <3>2, Zenon
  <2>3. PICK e : e = E[g]
    BY Zenon
  <2>4. PICK f : f = [r \in 1..4 |-> f[r]] /\ f = e
    BY <2>2, <2>3, EncodeGroupIs
  <2>5. f \in Seq({f[1], f[2], f[3], f[4]}) /\ Len(f) = 4
    <3>1. f \in [1..4 -> {f[1], f[2], f[3], f[4]}]
      BY <2>4
    <3>2. PICK Y : Y = {f[1], f[2], f[3], f[4]}
      BY Zenon
    <3>3. PICK m \in Nat : m = 4
      OBVIOUS
    <3>4. f \in [1..m -> Y]
      BY <3>1, <3>2, <3>3, Zenon
    <3>5. f \in Seq(Y) /\ Len(f) = m
      BY ONLY <3>4, m \in Nat
    <3> QED BY <3>2, <3>3, <3>5, Zenon
  <2> QED BY <2>3, <2>4, <2>5, Zenon
<1>7. AreGroups(E, 4, 4 * N)
  <2>1. \A g \in 1..N : Size(4, 4 * N, g) - Size(4, 4 * N, g - 1) = 4
    BY <1>2 DEF Size
  <2>2. 4 * N \in Nat /\ 4 * N <= 4 * N
    BY <1>2
  <2> HIDE DEF E
  <2>3. \A g \in 1..Len(E) : \E X : /\ E[g] \in Seq(X)
                                    /\ Len(E[g]) = Size(4, 4 * N, g) - Size(4, 4 * N, g - 1)
    BY <1>5, <1>6, <2>1, Zenon
  <2> QED BY <1>2, <1>5, <2>2, <2>3, Zenon DEF AreGroups
<1>8. Appended(E) = Flat(E, 4, 4 * N)
  <2> HIDE DEF E
  <2> QED BY <1>7, AppendedIs, Zenon
<1>9. \A k \in 1..(4 * N) : (k - 1) \div 4 + 1 \in 1..N
  BY <1>2
<1> QED BY <1>2, <1>4, <1>8, <1>9, Zenon DEF in, Flat

\* The first n symbols of cs are letters, and the next, if any, is none.
Leads(cs, n) ==
  /\ n \in Nat /\ n <= Len(cs)
  /\ \A i \in 1..n : cs[i] \in Letter
  /\ n < Len(cs) => cs[n+1] \notin Letter

\* is_base64 accepts the letters.
LEMMA IsLetter ==
  ASSUME NEW c \in Symbol
  PROVE  is_base64(c) <=> c \in Letter
BY DEF Symbol, Letter, is_base64, Pad

\* base64_decode reads the letters before the first other character.
LEMMA DecodeIs ==
  ASSUME NEW cs \in Seq(Symbol), NEW n, Leads(cs, n), NEW N, N = NumGroups(4, n)
  PROVE  /\ N \in Nat
         /\ \A g \in 1..N : GroupLen(4, n, g) \in 1..4
         /\ base64_decode(cs) =
              Appended([g \in 1..N |-> DecodeGroup(Stretch(cs, 4 * (g - 1), GroupLen(4, n, g)))])
<1> DEFINE stops == {i \in DOMAIN cs : ~is_base64(cs[i])}
           lead == {i \in DOMAIN cs : \A j \in stops : i < j}
           S == [i \in lead |-> cs[i]]
           F == [i \in 1..n |-> cs[i]]
<1>1. n \in Nat /\ n <= Len(cs) /\ Len(cs) \in Nat /\ DOMAIN cs = 1..Len(cs)
  BY DEF Leads
<1>2. \A i \in 1..Len(cs) : is_base64(cs[i]) <=> cs[i] \in Letter
  <2>1. \A i \in 1..Len(cs) : cs[i] \in Symbol
    OBVIOUS
  <2> QED BY <2>1, IsLetter, Zenon
<1>3. lead = 1..n
  <2>1. ASSUME NEW i \in 1..n
        PROVE  i \in lead
    <3>1. i \in DOMAIN cs
      BY <1>1
    <3>2. ASSUME NEW j \in stops PROVE i < j
      <4>1. j \in 1..Len(cs) /\ cs[j] \notin Letter
        BY <1>1, <1>2
      <4>2. j \notin 1..n
        BY <4>1 DEF Leads
      <4> QED BY <1>1, <4>1, <4>2
    <3> QED BY <3>1, <3>2
  <2>2. ASSUME NEW i \in lead
        PROVE  i \in 1..n
    <3>1. SUFFICES ASSUME i > n PROVE FALSE
      BY <1>1
    <3>2. n < Len(cs) /\ n + 1 \in 1..Len(cs)
      BY <1>1, <3>1
    <3>3. n + 1 \in stops
      BY <1>1, <1>2, <3>2 DEF Leads
    <3> QED BY <1>1, <3>1, <3>3
  <2> QED BY <2>1, <2>2
<1> HIDE DEF lead
<1>4. S = F
  BY <1>3, Zenon
<1>5. F \in Seq(Symbol) /\ Len(F) = n
  <2>1. F \in [1..n -> Symbol]
    BY <1>1
  <2> HIDE DEF F
  <2> QED BY <1>1, <2>1
<1>6. /\ N \in Nat
      /\ \A g \in 1..N : /\ GroupLen(4, n, g) \in 1..4 /\ 4 * (g - 1) \in Nat
                         /\ 4 * (g - 1) + GroupLen(4, n, g) <= n
  <2>1. 4 \in {3, 4}
    OBVIOUS
  <2> QED BY <1>1, <2>1, NumGroupsCover, GroupArith, Zenon
<1> HIDE DEF F
<1>7. /\ DOMAIN Groups(F, 4) = 1..N
      /\ \A g \in 1..N : Groups(F, 4)[g] = Stretch(F, 4 * (g - 1), GroupLen(4, n, g))
  <2>1. 4 \in {3, 4}
    OBVIOUS
  <2> QED BY <1>5, <2>1, GroupsCut, Zenon
<1>8. \A g \in 1..N :
        Stretch(F, 4 * (g - 1), GroupLen(4, n, g)) = Stretch(cs, 4 * (g - 1), GroupLen(4, n, g))
  <2> SUFFICES ASSUME NEW g \in 1..N
               PROVE  Stretch(F, 4 * (g - 1), GroupLen(4, n, g))
                        = Stretch(cs, 4 * (g - 1), GroupLen(4, n, g))
    BY Zenon
  <2>1. PICK o, l : /\ o = 4 * (g - 1) /\ l = GroupLen(4, n, g)
                    /\ o \in Nat /\ l \in 1..4 /\ o + l <= n
    BY <1>6, Zenon
  <2>2. \A r \in 1..l : o + r \in 1..n
    BY <1>1, <2>1
  <2>3. Stretch(F, o, l) = Stretch(cs, o, l)
    BY <2>2, Zenon DEF Stretch, F
  <2> QED BY <2>1, <2>3, Zenon
<1>9. base64_decode(cs) = Appended([g \in DOMAIN Groups(S, 4) |-> DecodeGroup(Groups(S, 4)[g])])
  BY Zenon DEF base64_decode, lead
<1> HIDE DEF S
<1>10. [g \in DOMAIN Groups(S, 4) |-> DecodeGroup(Groups(S, 4)[g])]
        = [g \in 1..N |-> DecodeGroup(Stretch(cs, 4 * (g - 1), GroupLen(4, n, g)))]
  BY <1>4, <1>7, <1>8, Zenon
<1> QED BY <1>6, <1>9, <1>10, Zenon

\* The numbers of bytes and letters in the groups of M bytes.
Tallies(M, N, n) ==
  /\ N \in Nat /\ n \in Nat /\ n <= 4 * N /\ NumGroups(4, n) = N
  /\ \A g \in 1..N : /\ GroupLen(3, M, g) \in 1..3
                     /\ GroupLen(4, n, g) = GroupLen(3, M, g) + 1
                     /\ 3 * (g - 1) \in Nat /\ 3 * (g - 1) + GroupLen(3, M, g) <= M
  /\ \A k \in 1..(4 * N) :
       /\ (k - 1) \div 4 + 1 \in 1..N /\ ((k - 1) % 4) + 1 \in 1..4
       /\ k <= n <=> ((k - 1) % 4) + 1 <= GroupLen(3, M, (k - 1) \div 4 + 1) + 1

\* M bytes are written as M letters and one more for each group.
LEMMA TalliesOfGroups ==
  ASSUME NEW M \in Nat, NEW N, N = NumGroups(3, M), NEW n, n = M + N
  PROVE  Tallies(M, N, n)
BY DEF NumGroups, GroupLen, Tallies

\* What is read of the groups of s is s.
LEMMA FlatGroups ==
  ASSUME NEW X, NEW s \in Seq(X)
  PROVE  Appended(Groups(s, 3)) = s
<1> DEFINE n == Len(s)
           N == NumGroups(3, n)
<1>1. n \in Nat /\ 3 \in {3, 4}
  OBVIOUS
<1>2. N \in Nat /\ n <= 3 * N
  BY <1>1, NumGroupsCover, Zenon
<1>3. PICK G : G = Groups(s, 3)
  BY Zenon
<1>4. /\ Len(G) = N
      /\ \A g \in 1..N : G[g] = Stretch(s, 3 * (g - 1), GroupLen(3, n, g))
  BY <1>1, <1>3, GroupsCut, Zenon
<1>5. \A g \in 1..N : /\ GroupLen(3, n, g) \in 1..3 /\ 3 * (g - 1) \in Nat
                      /\ GroupLen(3, n, g) = Size(3, n, g) - Size(3, n, g - 1)
                      /\ 3 * (g - 1) + GroupLen(3, n, g) <= n
  BY <1>1, GroupArith, Zenon
<1>6. \A g \in 1..N : G[g] \in Seq(X) /\ Len(G[g]) = GroupLen(3, n, g)
  <2> SUFFICES ASSUME NEW g \in 1..N
               PROVE  G[g] \in Seq(X) /\ Len(G[g]) = GroupLen(3, n, g)
    BY Zenon
  <2>1. PICK o, l : /\ o = 3 * (g - 1) /\ l = GroupLen(3, n, g)
                    /\ o \in Nat /\ l \in 1..3 /\ o + l <= n
    BY <1>5, Zenon
  <2>2. PICK f : f = G[g] /\ f = Stretch(s, o, l)
    BY <1>4, <2>1, Zenon
  <2>3. \A r \in 1..l : o + r \in 1..n
    BY <1>1, <2>1
  <2>4. \A j \in 1..n : s[j] \in X
    BY ElementOfSeq, Zenon
  <2>5. f \in [1..l -> X]
    BY <2>2, <2>3, <2>4, Zenon DEF Stretch
  <2>6. l \in Nat
    BY <2>1
  <2>7. f \in Seq(X) /\ Len(f) = l
    BY <2>5, <2>6
  <2> QED BY <2>1, <2>2, <2>7, Zenon
<1>7. AreGroups(G, 3, n)
  BY <1>1, <1>2, <1>4, <1>5, <1>6, Zenon DEF AreGroups
<1>8. Appended(G) = Flat(G, 3, n)
  BY <1>7, AppendedIs, Zenon
<1>9. \A k \in 1..n : G[(k - 1) \div 3 + 1][((k - 1) % 3) + 1] = s[k]
  <2> SUFFICES ASSUME NEW k \in 1..n
               PROVE  G[(k - 1) \div 3 + 1][((k - 1) % 3) + 1] = s[k]
    BY Zenon
  <2>1. PICK g, r : g = (k - 1) \div 3 + 1 /\ r = ((k - 1) % 3) + 1
    BY Zenon
  <2>2. /\ g \in 1..N /\ r \in 1..GroupLen(3, n, g) /\ 3 * (g - 1) + r = k
    BY <1>1, <2>1 DEF NumGroups, GroupLen
  <2>3. G[g] = Stretch(s, 3 * (g - 1), GroupLen(3, n, g))
    BY <1>4, <2>2, Zenon
  <2>4. G[g][r] = s[3 * (g - 1) + r]
    BY <2>2, <2>3, Zenon DEF Stretch
  <2> QED BY <2>1, <2>2, <2>4, Zenon
<1>10. s = [k \in 1..n |-> s[k]]
  OBVIOUS
<1> QED BY <1>3, <1>8, <1>9, <1>10, Zenon DEF Flat

\* What base64_encode writes: four symbols a group, padded, and
\* base64_decode gives the bytes back.
LEMMA RoundTrip ==
  ASSUME NEW bs \in Seq(Byte)
  PROVE  /\ base64_encode(bs) \in Seq(Symbol)
         /\ Len(base64_encode(bs)) % 4 = 0
         /\ base64_decode(base64_encode(bs)) = bs
<1> DEFINE M == Len(bs)
           N == NumGroups(3, M)
           n == M + N
           in == Groups(bs, 3)
           L(g) == GroupLen(3, M, g)
<1>1. M \in Nat /\ 3 \in {3, 4} /\ 4 \in {3, 4}
  OBVIOUS
<1>2. /\ N \in Nat /\ n \in Nat /\ n <= 4 * N /\ NumGroups(4, n) = N
      /\ \A g \in 1..N : /\ L(g) \in 1..3 /\ GroupLen(4, n, g) = L(g) + 1
                         /\ 3 * (g - 1) \in Nat /\ 3 * (g - 1) + L(g) <= M
      /\ \A k \in 1..(4 * N) :
           /\ (k - 1) \div 4 + 1 \in 1..N /\ ((k - 1) % 4) + 1 \in 1..4
           /\ k <= n <=> ((k - 1) % 4) + 1 <= L((k - 1) \div 4 + 1) + 1
  <2>1. Tallies(M, N, n)
    BY <1>1, TalliesOfGroups, Zenon
  <2> QED BY <2>1, Zenon DEF Tallies
<1>3. PICK cs : cs = base64_encode(bs)
  BY Zenon
<1>4. cs = [k \in 1..(4 * N) |-> EncodeGroup(in[(k - 1) \div 4 + 1])[((k - 1) % 4) + 1]]
  BY <1>3, EncodeIs, Zenon
<1>5. /\ DOMAIN in = 1..N
      /\ \A g \in 1..N : in[g] = Stretch(bs, 3 * (g - 1), L(g))
  BY <1>1, GroupsCut, Zenon
<1> HIDE DEF in, N, n, L
<1>6. \A g \in 1..N : /\ in[g] \in [1..L(g) -> Byte] /\ Len(in[g]) = L(g)
                      /\ \A r \in 1..(L(g) + 1) : LettersOf(in[g])[r] \in Letter
                      /\ DecodeGroup([r \in 1..(L(g) + 1) |-> LettersOf(in[g])[r]]) = in[g]
                      /\ EncodeGroup(in[g]) = [r \in 1..4 |-> IF r <= L(g) + 1
                                                              THEN LettersOf(in[g])[r] ELSE Pad]
  <2> SUFFICES ASSUME NEW g \in 1..N
               PROVE  /\ in[g] \in [1..L(g) -> Byte] /\ Len(in[g]) = L(g)
                      /\ \A r \in 1..(L(g) + 1) : LettersOf(in[g])[r] \in Letter
                      /\ DecodeGroup([r \in 1..(L(g) + 1) |-> LettersOf(in[g])[r]]) = in[g]
                      /\ EncodeGroup(in[g]) = [r \in 1..4 |-> IF r <= L(g) + 1
                                                              THEN LettersOf(in[g])[r] ELSE Pad]
    BY Zenon
  <2>1. PICK o, l : /\ o = 3 * (g - 1) /\ l = L(g)
                    /\ o \in Nat /\ l \in 1..3 /\ o + l <= M
    BY <1>2, Zenon
  <2>2. PICK f : f = in[g] /\ f = Stretch(bs, o, l)
    BY <1>5, <2>1, Zenon
  <2>3. \A r \in 1..l : o + r \in 1..M
    BY <1>1, <2>1
  <2>4. \A j \in 1..M : bs[j] \in Byte
    BY ElementOfSeq, Zenon
  <2>5. f \in [1..l -> Byte]
    BY <2>2, <2>3, <2>4, Zenon DEF Stretch
  <2>6. Len(f) = l
    <3>1. l \in Nat
      BY <2>1
    <3> QED BY <2>5, <3>1
  <2>7. /\ \A r \in 1..(l + 1) : LettersOf(f)[r] \in Letter
        /\ DecodeGroup([r \in 1..(l + 1) |-> LettersOf(f)[r]]) = f
    BY <2>1, <2>5, GroupRoundTrip, Zenon
  <2>8. EncodeGroup(f) = [r \in 1..4 |-> IF r <= l + 1 THEN LettersOf(f)[r] ELSE Pad]
    BY <2>1, <2>6, EncodeGroupIs, Zenon
  <2> QED BY <2>1, <2>2, <2>5, <2>6, <2>7, <2>8, Zenon
<1>7. \A k \in 1..(4 * N) :
        IF k <= n THEN cs[k] \in Letter ELSE cs[k] = Pad
  <2> SUFFICES ASSUME NEW k \in 1..(4 * N)
               PROVE  IF k <= n THEN cs[k] \in Letter ELSE cs[k] = Pad
    BY Zenon
  <2>1. PICK g, r : /\ g = (k - 1) \div 4 + 1 /\ r = ((k - 1) % 4) + 1
                    /\ g \in 1..N /\ r \in 1..4 /\ (k <= n <=> r <= L(g) + 1)
    BY <1>2, Zenon
  <2>2. cs[k] = IF r <= L(g) + 1 THEN LettersOf(in[g])[r] ELSE Pad
    <3>1. cs[k] = EncodeGroup(in[g])[r]
      BY <1>4, <2>1, Zenon
    <3>2. EncodeGroup(in[g])[r] = IF r <= L(g) + 1 THEN LettersOf(in[g])[r] ELSE Pad
      BY <1>6, <2>1, Zenon
    <3> QED BY ONLY <3>1, <3>2, Zenon
  <2>3. r <= L(g) + 1 => r \in 1..(L(g) + 1)
    <3>1. PICK l : l = L(g) /\ l \in 1..3
      BY <1>2, <2>1, Zenon
    <3>2. r <= l + 1 => r \in 1..(l + 1)
      BY <2>1, <3>1
    <3> QED BY <3>1, <3>2, Zenon
  <2> QED BY <1>6, <2>1, <2>2, <2>3, Zenon
<1>8. Pad \in Symbol /\ Pad \notin Letter /\ Letter \subseteq Symbol
  BY DEF Pad, Symbol, Letter
<1>9. cs \in Seq(Symbol) /\ Len(cs) = 4 * N /\ 4 * N \in Nat
  <2>1. 4 * N \in Nat
    BY <1>2
  <2>2. cs \in [1..(4 * N) -> Symbol]
    BY <1>4, <1>7, <1>8, Zenon
  <2>3. PICK m \in Nat : m = 4 * N
    BY <2>1
  <2>4. cs \in [1..m -> Symbol]
    BY <2>2, <2>3, Zenon
  <2>5. cs \in Seq(Symbol) /\ Len(cs) = m
    BY <2>4
  <2> QED BY <2>1, <2>3, <2>5, Zenon
<1>10. Leads(cs, n)
  <2>1. \A i \in 1..n : i \in 1..(4 * N) /\ i <= n
    BY <1>2, <1>9
  <2>2. n < 4 * N => n + 1 \in 1..(4 * N) /\ ~(n + 1 <= n)
    BY <1>2, <1>9
  <2> QED BY <1>2, <1>7, <1>8, <1>9, <2>1, <2>2, Zenon DEF Leads
<1>11. base64_decode(cs) =
         Appended([g \in 1..N |-> DecodeGroup(Stretch(cs, 4 * (g - 1), GroupLen(4, n, g)))])
  BY <1>2, <1>9, <1>10, DecodeIs, Zenon
<1>12. \A g \in 1..N : DecodeGroup(Stretch(cs, 4 * (g - 1), GroupLen(4, n, g))) = in[g]
  <2> SUFFICES ASSUME NEW g \in 1..N
               PROVE  DecodeGroup(Stretch(cs, 4 * (g - 1), GroupLen(4, n, g))) = in[g]
    BY Zenon
  <2>1. PICK o, l : o = 4 * (g - 1) /\ l = L(g) /\ l \in 1..3 /\ GroupLen(4, n, g) = l + 1
    BY <1>2, Zenon
  <2>2. \A r \in 1..(l + 1) : /\ o + r \in 1..(4 * N) /\ r \in 1..4 /\ r <= l + 1
                              /\ ((o + r) - 1) \div 4 + 1 = g /\ (((o + r) - 1) % 4) + 1 = r
    <3>1. N \in Nat /\ g \in 1..N
      BY <1>2, Zenon
    <3> QED BY ONLY <2>1, <3>1, SMTT(30)
  <2>3. \A r \in 1..(l + 1) : cs[o + r] = LettersOf(in[g])[r]
    <3> SUFFICES ASSUME NEW r \in 1..(l + 1)
                 PROVE  cs[o + r] = LettersOf(in[g])[r]
      BY Zenon
    <3>1. cs[o + r] = EncodeGroup(in[g])[r]
      BY <1>4, <2>2, Zenon
    <3> QED BY <1>6, <2>1, <2>2, <3>1, Zenon
  <2>4. Stretch(cs, o, l + 1) = [r \in 1..(l + 1) |-> LettersOf(in[g])[r]]
    BY <2>3, Zenon DEF Stretch
  <2> QED BY <1>6, <2>1, <2>4, Zenon
<1>13. in = [g \in 1..N |-> in[g]]
  BY <1>5, Zenon DEF in, Groups
<1>14. base64_decode(cs) = Appended(in)
  BY <1>11, <1>12, <1>13, Zenon
<1>15. Appended(in) = bs
  BY FlatGroups, Zenon DEF in
<1>16. Len(cs) % 4 = 0
  BY <1>2, <1>9
<1> QED BY <1>3, <1>9, <1>14, <1>15, <1>16, Zenon

----------------------------------------------------------------------------
(***************************************************************************)
(* Bits.                                                                   *)
(***************************************************************************)

\* The bits of the first byte of a group are those of its first letter, then
\* of its second.
LEMMA FirstByte ==
  ASSUME NEW a \in Letter, NEW b \in Letter, NEW w, w = ((a * 4) % 256) + b \div 16
  PROVE  /\ (w \div 128) % 2 = (a \div 32) % 2
         /\ (w \div 64) % 2 = (a \div 16) % 2
         /\ (w \div 32) % 2 = (a \div 8) % 2
         /\ (w \div 16) % 2 = (a \div 4) % 2
         /\ (w \div 8) % 2 = (a \div 2) % 2
         /\ (w \div 4) % 2 = (a \div 1) % 2
         /\ (w \div 2) % 2 = (b \div 32) % 2
         /\ (w \div 1) % 2 = (b \div 16) % 2
<1>0. PICK h, l : /\ h = b \div 16 /\ l = b % 16 /\ b = h * 16 + l /\ h \in Nat /\ h < 4 /\ l \in Nat /\ l < 16
                  /\ w = a * 4 + h /\ a \in Nat /\ a < 64
  BY DEF Letter
<1>1. (w \div 128) % 2 = (a \div 32) % 2
  BY <1>0
<1>2. (w \div 64) % 2 = (a \div 16) % 2
  BY <1>0
<1>3. (w \div 32) % 2 = (a \div 8) % 2
  BY <1>0
<1>4. (w \div 16) % 2 = (a \div 4) % 2
  BY <1>0
<1>5. (w \div 8) % 2 = (a \div 2) % 2
  BY <1>0
<1>6. (w \div 4) % 2 = (a \div 1) % 2
  BY <1>0
<1>7. (w \div 2) % 2 = (b \div 32) % 2
  BY <1>0
<1>8. (w \div 1) % 2 = (b \div 16) % 2
  BY <1>0
<1> QED BY <1>1, <1>2, <1>3, <1>4, <1>5, <1>6, <1>7, <1>8

\* Those of the second byte are in its second letter, then in its third.
LEMMA SecondByte ==
  ASSUME NEW b \in Letter, NEW d \in Letter, NEW w, w = (b % 16) * 16 + d \div 4
  PROVE  /\ (w \div 128) % 2 = (b \div 8) % 2
         /\ (w \div 64) % 2 = (b \div 4) % 2
         /\ (w \div 32) % 2 = (b \div 2) % 2
         /\ (w \div 16) % 2 = (b \div 1) % 2
         /\ (w \div 8) % 2 = (d \div 32) % 2
         /\ (w \div 4) % 2 = (d \div 16) % 2
         /\ (w \div 2) % 2 = (d \div 8) % 2
         /\ (w \div 1) % 2 = (d \div 4) % 2
<1>0. PICK h, l, m, n : /\ h = b \div 16 /\ l = b % 16 /\ m = d \div 4 /\ n = d % 4
                        /\ b = h * 16 + l /\ h \in Nat /\ h < 4 /\ l \in Nat /\ l < 16
                        /\ d = m * 4 + n /\ m \in Nat /\ m < 16 /\ n \in Nat /\ n < 4
                        /\ w = l * 16 + m
  BY DEF Letter
<1>1. (w \div 128) % 2 = (b \div 8) % 2
  BY <1>0
<1>2. (w \div 64) % 2 = (b \div 4) % 2
  BY <1>0
<1>3. (w \div 32) % 2 = (b \div 2) % 2
  BY <1>0
<1>4. (w \div 16) % 2 = (b \div 1) % 2
  BY <1>0
<1>5. (w \div 8) % 2 = (d \div 32) % 2
  BY <1>0
<1>6. (w \div 4) % 2 = (d \div 16) % 2
  BY <1>0
<1>7. (w \div 2) % 2 = (d \div 8) % 2
  BY <1>0
<1>8. (w \div 1) % 2 = (d \div 4) % 2
  BY <1>0
<1> QED BY <1>1, <1>2, <1>3, <1>4, <1>5, <1>6, <1>7, <1>8

\* Those of the third byte are in its third letter, then in its fourth.
LEMMA ThirdByte ==
  ASSUME NEW d \in Letter, NEW e \in Letter, NEW w, w = (d % 4) * 64 + e
  PROVE  /\ (w \div 128) % 2 = (d \div 2) % 2
         /\ (w \div 64) % 2 = (d \div 1) % 2
         /\ (w \div 32) % 2 = (e \div 32) % 2
         /\ (w \div 16) % 2 = (e \div 16) % 2
         /\ (w \div 8) % 2 = (e \div 8) % 2
         /\ (w \div 4) % 2 = (e \div 4) % 2
         /\ (w \div 2) % 2 = (e \div 2) % 2
         /\ (w \div 1) % 2 = (e \div 1) % 2
<1>0. PICK m, n : /\ m = d \div 4 /\ n = d % 4 /\ d = m * 4 + n /\ m \in Nat /\ m < 16 /\ n \in Nat /\ n < 4
                  /\ w = n * 64 + e /\ e \in Nat /\ e < 64
  BY DEF Letter
<1>1. (w \div 128) % 2 = (d \div 2) % 2
  BY <1>0
<1>2. (w \div 64) % 2 = (d \div 1) % 2
  BY <1>0
<1>3. (w \div 32) % 2 = (e \div 32) % 2
  BY <1>0
<1>4. (w \div 16) % 2 = (e \div 16) % 2
  BY <1>0
<1>5. (w \div 8) % 2 = (e \div 8) % 2
  BY <1>0
<1>6. (w \div 4) % 2 = (e \div 4) % 2
  BY <1>0
<1>7. (w \div 2) % 2 = (e \div 2) % 2
  BY <1>0
<1>8. (w \div 1) % 2 = (e \div 1) % 2
  BY <1>0
<1> QED BY <1>1, <1>2, <1>3, <1>4, <1>5, <1>6, <1>7, <1>8

\* The bits of a group of bytes are those of its letters, in order.
LEMMA GroupBits ==
  ASSUME NEW c, NEW v, \A j \in 1..4 : v[j] = At(c, j) /\ v[j] \in Letter,
         NEW s \in Nat, s < 24
  PROVE  BitAt(BytesOf(c), 8, s) = BitAt(v, 6, s)
<1>1. PICK a, b, d, e : /\ a = v[1] /\ b = v[2] /\ d = v[3] /\ e = v[4]
                        /\ a \in Letter /\ b \in Letter /\ d \in Letter /\ e \in Letter
                        /\ a = At(c, 1) /\ b = At(c, 2) /\ d = At(c, 3) /\ e = At(c, 4)
  OBVIOUS
<1>2. PICK w : w = BytesOf(c)
  BY Zenon
<1>3. PICK x, y, z : /\ x = w[1] /\ y = w[2] /\ z = w[3]
                     /\ x = ((a * 4) % 256) + b \div 16
                     /\ y = (b % 16) * 16 + d \div 4
                     /\ z = (d % 4) * 64 + e
  BY <1>1, <1>2 DEF BytesOf
<1>4. CASE s < 8
  <2>1. s \in {0, 1, 2, 3, 4, 5, 6, 7}
    BY <1>4
  <2>2. BitAt(w, 8, s) = (x \div Powers[8 - s]) % 2
    <3>1. s \div 8 + 1 = 1 /\ 8 - (s % 8) = 8 - s
      BY <1>4
    <3> QED BY <1>3, <3>1, Zenon DEF BitAt
  <2>3. BitAt(v, 6, s) = IF s < 6 THEN (a \div Powers[6 - s]) % 2 ELSE (b \div Powers[12 - s]) % 2
    BY <1>1, <1>4 DEF BitAt
  <2>4. (x \div Powers[8 - s]) % 2
          = IF s < 6 THEN (a \div Powers[6 - s]) % 2 ELSE (b \div Powers[12 - s]) % 2
    <3>1. /\ Powers[1] = 1 /\ Powers[2] = 2 /\ Powers[3] = 4 /\ Powers[4] = 8
          /\ Powers[5] = 16 /\ Powers[6] = 32 /\ Powers[7] = 64 /\ Powers[8] = 128
      BY DEF Powers
    <3>2. /\ (x \div 128) % 2 = (a \div 32) % 2
          /\ (x \div 64) % 2 = (a \div 16) % 2
          /\ (x \div 32) % 2 = (a \div 8) % 2
          /\ (x \div 16) % 2 = (a \div 4) % 2
          /\ (x \div 8) % 2 = (a \div 2) % 2
          /\ (x \div 4) % 2 = (a \div 1) % 2
          /\ (x \div 2) % 2 = (b \div 32) % 2
          /\ (x \div 1) % 2 = (b \div 16) % 2
      BY <1>1, <1>3, FirstByte
    <3> QED BY ONLY <2>1, <3>1, <3>2
  <2> QED BY <1>2, <2>2, <2>3, <2>4, Zenon
<1>5. CASE 8 <= s /\ s < 16
  <2>1. s \in {8, 9, 10, 11, 12, 13, 14, 15}
    BY <1>5
  <2>2. BitAt(w, 8, s) = (y \div Powers[16 - s]) % 2
    <3>1. s \div 8 + 1 = 2 /\ 8 - (s % 8) = 16 - s
      BY <1>5
    <3> QED BY <1>3, <3>1, Zenon DEF BitAt
  <2>3. BitAt(v, 6, s) = IF s < 12 THEN (b \div Powers[12 - s]) % 2 ELSE (d \div Powers[18 - s]) % 2
    BY <1>1, <1>5 DEF BitAt
  <2>4. (y \div Powers[16 - s]) % 2
          = IF s < 12 THEN (b \div Powers[12 - s]) % 2 ELSE (d \div Powers[18 - s]) % 2
    <3>1. /\ Powers[1] = 1 /\ Powers[2] = 2 /\ Powers[3] = 4 /\ Powers[4] = 8
          /\ Powers[5] = 16 /\ Powers[6] = 32 /\ Powers[7] = 64 /\ Powers[8] = 128
      BY DEF Powers
    <3>2. /\ (y \div 128) % 2 = (b \div 8) % 2
          /\ (y \div 64) % 2 = (b \div 4) % 2
          /\ (y \div 32) % 2 = (b \div 2) % 2
          /\ (y \div 16) % 2 = (b \div 1) % 2
          /\ (y \div 8) % 2 = (d \div 32) % 2
          /\ (y \div 4) % 2 = (d \div 16) % 2
          /\ (y \div 2) % 2 = (d \div 8) % 2
          /\ (y \div 1) % 2 = (d \div 4) % 2
      BY <1>1, <1>3, SecondByte
    <3> QED BY ONLY <2>1, <3>1, <3>2
  <2> QED BY <1>2, <2>2, <2>3, <2>4, Zenon
<1>6. CASE 16 <= s
  <2>1. s \in {16, 17, 18, 19, 20, 21, 22, 23}
    BY <1>6
  <2>2. BitAt(w, 8, s) = (z \div Powers[24 - s]) % 2
    <3>1. s \div 8 + 1 = 3 /\ 8 - (s % 8) = 24 - s
      BY <1>6
    <3> QED BY <1>3, <3>1, Zenon DEF BitAt
  <2>3. BitAt(v, 6, s) = IF s < 18 THEN (d \div Powers[18 - s]) % 2 ELSE (e \div Powers[24 - s]) % 2
    BY <1>1, <1>6 DEF BitAt
  <2>4. (z \div Powers[24 - s]) % 2
          = IF s < 18 THEN (d \div Powers[18 - s]) % 2 ELSE (e \div Powers[24 - s]) % 2
    <3>1. /\ Powers[1] = 1 /\ Powers[2] = 2 /\ Powers[3] = 4 /\ Powers[4] = 8
          /\ Powers[5] = 16 /\ Powers[6] = 32 /\ Powers[7] = 64 /\ Powers[8] = 128
      BY DEF Powers
    <3>2. /\ (z \div 128) % 2 = (d \div 2) % 2
          /\ (z \div 64) % 2 = (d \div 1) % 2
          /\ (z \div 32) % 2 = (e \div 32) % 2
          /\ (z \div 16) % 2 = (e \div 16) % 2
          /\ (z \div 8) % 2 = (e \div 8) % 2
          /\ (z \div 4) % 2 = (e \div 4) % 2
          /\ (z \div 2) % 2 = (e \div 2) % 2
          /\ (z \div 1) % 2 = (e \div 1) % 2
      BY <1>1, <1>3, ThirdByte
    <3> QED BY ONLY <2>1, <3>1, <3>2
  <2> QED BY <1>2, <2>2, <2>3, <2>4, Zenon
<1> QED BY <1>4, <1>5, <1>6

\* The groups of n letters hold (6 * n) \div 8 bytes.
ByteTallies(n, N, T) ==
  /\ N \in Nat /\ T \in Nat /\ T <= 3 * N
  /\ \A g \in 1..N : /\ GroupLen(4, n, g) \in 1..4
                     /\ 4 * (g - 1) \in Nat /\ 4 * (g - 1) + GroupLen(4, n, g) <= n
                     /\ GroupLen(4, n, g) - 1 = Size(3, T, g) - Size(3, T, g - 1)

\* A group of i letters holds i - 1 bytes, of one letter none.
LEMMA ByteTalliesOfLetters ==
  ASSUME NEW n \in Nat, NEW N, N = NumGroups(4, n), NEW T, T = (6 * n) \div 8
  PROVE  ByteTallies(n, N, T)
<1>1. N \in Nat /\ T \in Nat /\ T <= 3 * N
  BY DEF NumGroups
<1>2. ASSUME NEW g \in 1..N
      PROVE  /\ GroupLen(4, n, g) \in 1..4
             /\ 4 * (g - 1) \in Nat /\ 4 * (g - 1) + GroupLen(4, n, g) <= n
  BY DEF NumGroups, GroupLen
<1>3. ASSUME NEW g \in 1..N
      PROVE  GroupLen(4, n, g) - 1 = Size(3, T, g) - Size(3, T, g - 1)
  BY DEF NumGroups, GroupLen, Size
<1> QED BY <1>1, <1>2, <1>3 DEF ByteTallies

\* Where bit k of T bytes lies: in group g, as bit s of it, in byte r and in
\* letter j of that group.
BitPlace(n, N, k, g, s, r, j) ==
  /\ g \in 1..N /\ s \in Nat /\ s < 24
  /\ ((k \div 8 + 1) - 1) \div 3 + 1 = g /\ (((k \div 8 + 1) - 1) % 3) + 1 = r
  /\ r = s \div 8 + 1 /\ 8 - (k % 8) = 8 - (s % 8) /\ r \in 1..(GroupLen(4, n, g) - 1)
  /\ j = s \div 6 + 1 /\ 6 - (k % 6) = 6 - (s % 6) /\ j \in 1..GroupLen(4, n, g)
  /\ k \div 6 + 1 = 4 * (g - 1) + j /\ j \in 1..4

\* Every bit has such a place.
LEMMA BitPlaces ==
  ASSUME NEW n \in Nat, NEW N, N = NumGroups(4, n), NEW k \in Nat, k < 8 * ((6 * n) \div 8)
  PROVE  \E g, s, r, j : BitPlace(n, N, k, g, s, r, j)
<1>1. PICK g, s, r, j : /\ g = k \div 24 + 1 /\ s = k % 24
                        /\ r = s \div 8 + 1 /\ j = s \div 6 + 1
  BY Zenon
<1>2. k = 24 * (g - 1) + s /\ g - 1 \in Nat /\ g \in Nat /\ s \in Nat /\ s < 24
  BY <1>1
<1>3. k \div 8 = 3 * (g - 1) + (s \div 8) /\ k % 8 = s % 8 /\ s \div 8 \in 0..2
  BY <1>2
<1>4. k \div 6 = 4 * (g - 1) + (s \div 6) /\ k % 6 = s % 6 /\ s \div 6 \in 0..3
  BY <1>2
<1>5. ((k \div 8 + 1) - 1) \div 3 + 1 = g /\ (((k \div 8 + 1) - 1) % 3) + 1 = r
  BY <1>1, <1>2, <1>3
<1>6. g \in 1..N
  BY <1>2 DEF NumGroups
<1>7. r \in 1..(GroupLen(4, n, g) - 1) /\ j \in 1..GroupLen(4, n, g) /\ j \in 1..4
  BY <1>1, <1>2, <1>3, <1>4 DEF GroupLen
<1>8. k \div 6 + 1 = 4 * (g - 1) + j
  BY <1>1, <1>2, <1>4
<1>9. BitPlace(n, N, k, g, s, r, j)
  BY <1>1, <1>2, <1>3, <1>4, <1>5, <1>6, <1>7, <1>8, Zenon DEF BitPlace
<1> QED BY <1>9, Zenon

\* base64_decode gives the whole bytes that the leading letters hold.
LEMMA DecodeBits ==
  ASSUME NEW cs \in Seq(Symbol), NEW n, Leads(cs, n), NEW T, T = (6 * n) \div 8
  PROVE  /\ T \in Nat /\ Len(base64_decode(cs)) = T
         /\ \A k \in 0..(8 * T - 1) : BitAt(base64_decode(cs), 8, k) = BitAt(cs, 6, k)
<1> DEFINE l(g) == GroupLen(4, n, g)
           c(g) == Stretch(cs, 4 * (g - 1), l(g))
<1>0. PICK N : N = NumGroups(4, n)
  BY Zenon
<1>1. n \in Nat /\ n <= Len(cs) /\ \A i \in 1..n : cs[i] \in Letter
  BY Zenon DEF Leads
<1>2. /\ N \in Nat /\ T \in Nat /\ T <= 3 * N
      /\ \A g \in 1..N : /\ l(g) \in 1..4
                         /\ 4 * (g - 1) \in Nat /\ 4 * (g - 1) + l(g) <= n
                         /\ l(g) - 1 = Size(3, T, g) - Size(3, T, g - 1)
  <2>1. ByteTallies(n, N, T)
    BY <1>0, <1>1, ByteTalliesOfLetters, Zenon
  <2> QED BY <2>1, Zenon DEF ByteTallies
<1>3. PICK D : D = [g \in 1..N |-> DecodeGroup(c(g))] /\ base64_decode(cs) = Appended(D)
  BY <1>0, DecodeIs, Zenon
<1> HIDE DEF l
<1>4. \A g \in 1..N : /\ Len(c(g)) = l(g)
                      /\ \A j \in 1..l(g) : c(g)[j] = cs[4 * (g - 1) + j] /\ c(g)[j] \in Letter
  <2> SUFFICES ASSUME NEW g \in 1..N
               PROVE  /\ Len(c(g)) = l(g)
                      /\ \A j \in 1..l(g) : c(g)[j] = cs[4 * (g - 1) + j] /\ c(g)[j] \in Letter
    BY Zenon
  <2>1. PICK o, m : /\ o = 4 * (g - 1) /\ m = l(g) /\ o \in Nat /\ m \in 1..4 /\ o + m <= n
    BY <1>2, Zenon
  <2>2. PICK f : f = c(g) /\ f = [j \in 1..m |-> cs[o + j]]
    BY <2>1, Zenon DEF Stretch
  <2>3. m \in Nat /\ \A j \in 1..m : o + j \in 1..n
    BY <1>1, <2>1
  <2>4. Len(f) = m
    BY <2>2, <2>3
  <2>5. \A j \in 1..m : f[j] = cs[o + j] /\ f[j] \in Letter
    BY <1>1, <2>2, <2>3, Zenon
  <2> QED BY <2>1, <2>2, <2>4, <2>5, Zenon
<1> HIDE DEF c
<1>5. \A g \in 1..N : D[g] = [r \in 1..(l(g) - 1) |-> BytesOf(c(g))[r]]
  BY <1>2, <1>3, <1>4, DecodeGroupIs, Zenon
<1>6. \A g \in 1..N : \E X : D[g] \in Seq(X) /\ Len(D[g]) = l(g) - 1
  <2> SUFFICES ASSUME NEW g \in 1..N
               PROVE  \E X : D[g] \in Seq(X) /\ Len(D[g]) = l(g) - 1
    BY Zenon
  <2>1. PICK m : m = l(g) - 1 /\ m \in Nat
    <3>1. PICK q : q = l(g) /\ q \in 1..4
      BY <1>2, Zenon
    <3>2. q - 1 \in Nat
      BY <3>1
    <3> QED BY <3>1, <3>2, Zenon
  <2>2. PICK w, f : w = BytesOf(c(g)) /\ f = D[g] /\ f = [r \in 1..m |-> w[r]]
    BY <1>5, <2>1, Zenon
  <2>3. PICK X : f \in [1..m -> X]
    <3>1. f \in [1..m -> {w[r] : r \in 1..m}]
      BY <2>2, Zenon
    <3> QED BY <3>1, Zenon
  <2>4. f \in Seq(X) /\ Len(f) = m
    BY <2>1, <2>3
  <2> QED BY <2>1, <2>2, <2>4, Zenon
<1>7. AreGroups(D, 3, T)
  <2>1. Len(D) = N
    BY <1>2, <1>3
  <2>2. 3 \in {3, 4}
    OBVIOUS
  <2> QED BY <1>2, <1>6, <2>1, <2>2, Zenon DEF AreGroups
<1>8. PICK out : out = base64_decode(cs) /\ out = Flat(D, 3, T)
  BY <1>3, <1>7, AppendedIs, Zenon
<1>9. Len(out) = T /\ \A b \in 1..T : out[b] = D[(b - 1) \div 3 + 1][((b - 1) % 3) + 1]
  BY <1>2, <1>8 DEF Flat
<1>10. ASSUME NEW k \in 0..(8 * T - 1)
       PROVE  BitAt(out, 8, k) = BitAt(cs, 6, k)
  <2>1. k \in Nat /\ k < 8 * T /\ k \div 8 + 1 \in 1..T
    BY <1>2
  <2>2. PICK g, s, r, j : BitPlace(n, N, k, g, s, r, j)
    BY <1>0, <1>1, <2>1, BitPlaces, Zenon
  <2>3. /\ g \in 1..N /\ s \in Nat /\ s < 24
        /\ ((k \div 8 + 1) - 1) \div 3 + 1 = g /\ (((k \div 8 + 1) - 1) % 3) + 1 = r
        /\ r = s \div 8 + 1 /\ 8 - (k % 8) = 8 - (s % 8) /\ r \in 1..(l(g) - 1)
        /\ j = s \div 6 + 1 /\ 6 - (k % 6) = 6 - (s % 6) /\ j \in 1..l(g)
        /\ k \div 6 + 1 = 4 * (g - 1) + j /\ j \in 1..4
    BY <2>2, Zenon DEF BitPlace, l
  <2>4. PICK v : v = [i \in 1..4 |-> At(c(g), i)]
    BY Zenon
  <2>5. \A i \in 1..4 : v[i] = At(c(g), i) /\ v[i] \in Letter
    <3>1. \A i \in 1..4 : v[i] = At(c(g), i)
      BY <2>4, Zenon
    <3>2. PICK m : m = l(g) /\ m \in 1..4 /\ Len(c(g)) = m
      BY <1>2, <1>4, <2>3, Zenon
    <3>3. \A i \in 1..4 : i <= m => i \in 1..m
      BY <3>2
    <3>4. 0 \in Letter
      BY DEF Letter
    <3> QED BY <1>4, <2>3, <3>1, <3>2, <3>3, <3>4, Zenon DEF At
  <2>6. BitAt(BytesOf(c(g)), 8, s) = BitAt(v, 6, s)
    BY <2>3, <2>5, GroupBits, Zenon
  <2>7. out[k \div 8 + 1] = BytesOf(c(g))[r]
    <3>1. out[k \div 8 + 1] = D[g][r]
      <4>1. PICK b : b = k \div 8 + 1
        BY Zenon
      <4>2. b \in 1..T /\ (b - 1) \div 3 + 1 = g /\ ((b - 1) % 3) + 1 = r
        BY ONLY <2>1, <2>3, <4>1, Zenon
      <4> QED BY ONLY <1>9, <4>1, <4>2, Zenon
    <3> QED BY <1>5, <2>3, <3>1, Zenon
  <2>8. BitAt(out, 8, k) = BitAt(BytesOf(c(g)), 8, s)
    BY <2>3, <2>7, Zenon DEF BitAt
  <2>9. v[j] = cs[k \div 6 + 1]
    <3>1. PICK m : m = l(g) /\ m \in 1..4 /\ Len(c(g)) = m /\ j \in 1..m
      BY <1>2, <1>4, <2>3, Zenon
    <3>2. j <= m
      BY <3>1
    <3>3. v[j] = c(g)[j]
      <4>1. v[j] = At(c(g), j)
        BY <2>3, <2>5, Zenon
      <4>2. j <= Len(c(g))
        BY <3>1, <3>2, Zenon
      <4> QED BY ONLY <4>1, <4>2, Zenon DEF At
    <3> QED BY <1>4, <2>3, <3>3, Zenon
  <2>10. BitAt(v, 6, s) = BitAt(cs, 6, k)
    BY <2>3, <2>9, Zenon DEF BitAt
  <2> QED BY <2>6, <2>8, <2>10, Zenon
<1> QED BY <1>2, <1>8, <1>9, <1>10, Zenon

\* Every text has leading letters, perhaps none.
LEMMA LeadExists ==
  ASSUME NEW cs \in Seq(Symbol)
  PROVE  \E n : Leads(cs, n)
<1> DEFINE Q == {i \in 1..Len(cs) : cs[i] \notin Letter}
<1>0. Len(cs) \in Nat
  OBVIOUS
<1>1. CASE Q = {}
  <2>1. Leads(cs, Len(cs))
    BY <1>0, <1>1 DEF Leads
  <2> QED BY <2>1, Zenon
<1>2. CASE Q # {}
  <2>1. Q \subseteq Nat
    BY <1>0
  <2>2. PICK x \in Q : \A y \in Q : ~ (<<y, x>> \in Smaller)
    BY <1>2, <2>1, WFMin, SmallerWF, Zenon
  <2>3. \A y \in Q : x <= y
    <3>1. \A y \in Q : y \in Nat /\ x \in Nat
      BY <2>1, Zenon
    <3>2. \A y \in Q : y \in Nat /\ y < x => <<y, x>> \in Smaller
      BY <3>1 DEF Smaller
    <3>3. \A y \in Q : ~(y < x)
      BY <2>2, <3>1, <3>2, Zenon
    <3> HIDE DEF Q
    <3> QED BY <3>1, <3>3
  <2>4. x - 1 \in Nat /\ x - 1 <= Len(cs) /\ (x - 1) + 1 = x /\ cs[x] \notin Letter
    BY <1>0
  <2>5. \A i \in 1..(x - 1) : cs[i] \in Letter
    BY <1>0, <2>3, <2>4
  <2>6. Leads(cs, x - 1)
    BY <2>4, <2>5, Zenon DEF Leads
  <2> QED BY <2>6, Zenon
<1> QED BY <1>1, <1>2

\* The leading letters as DecodesLeadingLetters counts them.
LEMMA LeadCount ==
  ASSUME NEW cs \in Seq(Symbol), NEW n, Leads(cs, n)
  PROVE  Cardinality({i \in DOMAIN cs : \A j \in 1..i : is_base64(cs[j])}) = n
<1> DEFINE S == {i \in DOMAIN cs : \A j \in 1..i : is_base64(cs[j])}
<1>1. n \in Nat /\ n <= Len(cs) /\ Len(cs) \in Nat /\ DOMAIN cs = 1..Len(cs)
  BY DEF Leads
<1>2. \A i \in 1..Len(cs) : is_base64(cs[i]) <=> cs[i] \in Letter
  <2>1. \A i \in 1..Len(cs) : cs[i] \in Symbol
    OBVIOUS
  <2> QED BY <2>1, IsLetter, Zenon
<1>3. ASSUME NEW i \in 1..n PROVE i \in S
  <2>1. i \in 1..Len(cs) /\ \A j \in 1..i : j \in 1..n /\ j \in 1..Len(cs)
    BY <1>1
  <2>2. \A j \in 1..i : is_base64(cs[j])
    BY <1>2, <2>1, Zenon DEF Leads
  <2> QED BY <1>1, <2>1, <2>2, Zenon
<1>4. ASSUME NEW i \in S PROVE i \in 1..n
  <2> SUFFICES ASSUME i > n PROVE FALSE
    BY <1>1
  <2>1. n + 1 \in 1..i /\ n + 1 \in 1..Len(cs) /\ n < Len(cs)
    BY <1>1
  <2> QED BY <1>2, <2>1, Zenon DEF Leads
<1>5. S = 1..n
  BY <1>3, <1>4
<1>6. Cardinality(1..n) = n
  <2>1. 1 \in Int /\ n \in Int
    BY <1>1
  <2>2. Cardinality(1..n) = IF 1 > n THEN 0 ELSE n - 1 + 1
    BY <2>1, FS_Interval
  <2> QED BY <1>1, <2>2
<1> QED BY <1>5, <1>6, Zenon

----------------------------------------------------------------------------
(***************************************************************************)
(* The codecs.                                                             *)
(***************************************************************************)

\* Damaged text is still text, and text that was not damaged is that of the
\* bytes.
CodecInv ==
  /\ units \in UnitsType /\ bytes \in Seq(Byte) /\ letters \in Seq(Symbol) /\ edits \in Nat
  /\ edits = 0 => letters = base64_encode(bytes)

\* Texts of the encoder, and the empty one, satisfy it.
LEMMA CodecInitInv ==
  ASSUME CodecInit
  PROVE  CodecInv
<1>1. Units \subseteq Unit /\ Bytes \subseteq Byte
  BY CodecAssumption DEF Unit, Byte
<1>2. CASE /\ bytes \in UNION {[1..n -> Bytes] : n \in 0..MaxBytes}
           /\ letters = base64_encode(bytes) /\ units = <<0>>
  <2>1. PICK n \in 0..MaxBytes : bytes \in [1..n -> Bytes]
    BY <1>2, Zenon
  <2>2. n \in Nat
    BY CodecAssumption
  <2>3. bytes \in [1..n -> Byte]
    BY <1>1, <2>1
  <2>4. bytes \in Seq(Byte)
    BY <2>2, <2>3
  <2>5. letters \in Seq(Symbol)
    BY <1>2, <2>4, RoundTrip, Zenon
  <2>6. units \in UnitsType
    BY <1>2 DEF UnitsType, Unit
  <2>7. edits \in Nat
    BY DEF CodecInit
  <2> QED BY <1>2, <2>4, <2>5, <2>6, <2>7, Zenon DEF CodecInv
<1>3. CASE /\ units \in {<<u>> : u \in Units} \cup (Units \X Units)
           /\ bytes = <<>> /\ letters = <<>>
  <2>1. units \in UnitsType
    BY <1>1, <1>3 DEF UnitsType
  <2>2. bytes \in Seq(Byte) /\ letters \in Seq(Symbol) /\ edits \in Nat
    BY <1>3 DEF CodecInit
  <2>3. PICK N : N = NumGroups(3, Len(bytes))
    BY Zenon
  <2>4. N = 0
    BY <1>3, <2>3 DEF NumGroups
  <2>5. base64_encode(bytes) = [k \in 1..(4 * N) |->
          EncodeGroup(Groups(bytes, 3)[(k - 1) \div 4 + 1])[((k - 1) % 4) + 1]]
    BY <2>2, <2>3, EncodeIs, Zenon
  <2>6. base64_encode(bytes) = <<>>
    <3>1. 1..(4 * N) = {}
      BY <2>4
    <3> QED BY <2>5, <3>1
  <2> QED BY <1>3, <2>1, <2>2, <2>6, Zenon DEF CodecInv
<1> QED BY <1>2, <1>3, Zenon DEF CodecInit

\* An edit leaves text.
LEMMA CodecNextInv ==
  ASSUME CodecInv, [EditLetters]_codecVars
  PROVE  CodecInv'
<1>1. CASE EditLetters
  <2>1. PICK i \in DOMAIN letters, c \in {0, Pad, Foreign} : letters' \in Edited(letters, i, c)
    BY <1>1, Zenon DEF EditLetters
  <2>2. c \in Symbol
    BY <2>1 DEF Symbol, Pad, Foreign
  <2>3. letters \in Seq(Symbol) /\ i \in 1..Len(letters) /\ letters[i] \in Symbol
    BY <2>1 DEF CodecInv
  <2>4. PICK before, after : /\ before = SubSeq(letters, 1, i - 1)
                             /\ after = SubSeq(letters, i + 1, Len(letters))
    BY Zenon
  <2>5. before \in Seq(Symbol) /\ after \in Seq(Symbol)
    BY <2>3, <2>4
  <2>6. <<c, letters[i]>> \in Seq(Symbol) /\ <<c>> \in Seq(Symbol)
    BY <2>2, <2>3
  <2>7. /\ before \o <<c, letters[i]>> \o after \in Seq(Symbol)
        /\ before \o <<c>> \o after \in Seq(Symbol) /\ before \o after \in Seq(Symbol)
    BY <2>5, <2>6, ConcatProperties, Zenon
  <2>8. letters' \in {before \o <<c, letters[i]>> \o after, before \o <<c>> \o after,
                      before \o after}
    BY <2>1, <2>4, Zenon DEF Edited
  <2>9. letters' \in Seq(Symbol)
    BY <2>7, <2>8, Zenon
  <2>10. edits' \in Nat /\ edits' # 0
    BY <1>1 DEF EditLetters, CodecInv
  <2>11. UNCHANGED <<bytes, units>>
    BY <1>1, Zenon DEF EditLetters
  <2> QED BY <2>9, <2>10, <2>11, Zenon DEF CodecInv
<1>2. CASE UNCHANGED codecVars
  BY <1>2, Zenon DEF CodecInv, codecVars
<1> QED BY <1>1, <1>2

\* Text stays text.
LEMMA CodecTexts == CodecSpec => []CodecInv
BY CodecInitInv, CodecNextInv, PTL DEF CodecSpec

\* parse_utf16, in parson, turns every \u escape of one or two units into the
\* UTF-8 of the character it means, which verify_utf8_sequence accepts, or
\* refuses it because it names none: for all units, not only those at the edges.
THEOREM EscapesAreUtf8 == CodecSpec => []EscapesGiveUtf8
<1>1. CodecInv => EscapesGiveUtf8
  <2> SUFFICES ASSUME CodecInv PROVE EscapesGiveUtf8
    OBVIOUS
  <2>1. Faithful(units)
    BY EscapeFaithful, Zenon DEF CodecInv
  <2> QED BY <2>1, SMT DEF Faithful, Meant, EscapesGiveUtf8
<1> QED BY <1>1, CodecTexts, PTL

\* base64_encode pads to groups of four and base64_decode undoes it, for any
\* bytes of any number.
THEOREM EncodingIsUndone == CodecSpec => []EncodesWhole
<1>1. CodecInv => EncodesWhole
  BY RoundTrip, Zenon DEF CodecInv, EncodesWhole
<1> QED BY <1>1, CodecTexts, PTL

\* Whatever happened to a text, base64_decode gives the whole bytes that its
\* letters before the first other character hold, bit for bit.
THEOREM DecodingIsLeadingLetters == CodecSpec => []DecodesLeadingLetters
<1>1. CodecInv => DecodesLeadingLetters
  <2> SUFFICES ASSUME CodecInv PROVE DecodesLeadingLetters
    OBVIOUS
  <2>1. letters \in Seq(Symbol)
    BY Zenon DEF CodecInv
  <2>2. PICK n : Leads(letters, n)
    BY <2>1, LeadExists, Zenon
  <2>3. Cardinality({i \in DOMAIN letters : \A j \in 1..i : is_base64(letters[j])}) = n
    BY <2>1, <2>2, LeadCount, Zenon
  <2>4. PICK T : T = (6 * n) \div 8
    BY Zenon
  <2>5. /\ Len(base64_decode(letters)) = T
        /\ \A k \in 0..(8 * T - 1) :
             BitAt(base64_decode(letters), 8, k) = BitAt(letters, 6, k)
    BY <2>1, <2>2, <2>4, DecodeBits, Zenon
  <2> QED BY <2>3, <2>4, <2>5, Zenon DEF DecodesLeadingLetters
<1> QED BY <1>1, CodecTexts, PTL
=============================================================================
