--------------------------- MODULE RpcServerProofs ---------------------------
(***************************************************************************)
(* Proofs about WireFormat and RpcServer, for every set of vaults,          *)
(* passwords, texts, names and calls.                                       *)
(***************************************************************************)
EXTENDS RpcServer, SequenceTheorems, TLAPS

-----------------------------------------------------------------------------
\* Bytes.

\* Two byte strings, one after the other.
LEMMA JoinFacts ==
  ASSUME NEW S, NEW a \in Seq(S), NEW b \in Seq(S)
  PROVE  /\ a \o b \in Seq(S)
         /\ Len(a \o b) = Len(a) + Len(b)
         /\ \A i \in 1..Len(a) : (a \o b)[i] = a[i]
         /\ \A i \in 1..Len(b) : (a \o b)[Len(a) + i] = b[i]
<1>1. Len(a) \in Nat /\ Len(b) \in Nat
  BY LenProperties
<1>2. QED BY <1>1, ConcatProperties

\* A slice within a byte string.
LEMMA SliceFacts ==
  ASSUME NEW S, NEW b \in Seq(S), NEW from \in Nat, NEW to \in Nat,
         from <= to, to <= Len(b)
  PROVE  /\ Slice(b, from, to) \in Seq(S)
         /\ Len(Slice(b, from, to)) = to - from
         /\ \A i \in 1..(to - from) : Slice(b, from, to)[i] = b[from + i]
<1>1. Len(b) \in Nat
  BY LenProperties
<1>2. Slice(b, from, to) = SubSeq(b, from + 1, to)
  BY <1>1 DEF Slice
<1>3. \A i \in from + 1 .. to : b[i] \in S
  BY <1>1, ElementOfSeq
<1>4. /\ SubSeq(b, from + 1, to) \in Seq(S)
      /\ Len(SubSeq(b, from + 1, to)) = IF from + 1 <= to THEN to - (from + 1) + 1 ELSE 0
      /\ \A i \in 1 .. to - (from + 1) + 1 : SubSeq(b, from + 1, to)[i] = b[from + 1 + i - 1]
  BY <1>3, SubSeqProperties, from + 1 \in Int, to \in Int
<1>5. QED BY <1>2, <1>4

\* x lies in b behind its first bytes, at of them.
LiesAt(x, b, at) == \A i \in 1..Len(x) : b[at + i] = x[i]

\* A slice of the length of x, where x lies, is x.
LEMMA SliceIs ==
  ASSUME NEW S, NEW b \in Seq(S), NEW x \in Seq(S), NEW from \in Nat, NEW to \in Nat,
         from <= to, to <= Len(b), Len(x) = to - from, LiesAt(x, b, from)
  PROVE  Slice(b, from, to) = x
<1> DEFINE s == Slice(b, from, to)
<1>2. /\ s \in Seq(S) /\ Len(s) = to - from
      /\ \A i \in 1..(to - from) : s[i] = b[from + i]
  BY SliceFacts, Zenon
<1>3. Len(s) = Len(x) /\ \A i \in 1..Len(s) : s[i] = x[i]
  BY <1>2 DEF LiesAt
<1> HIDE DEF s
<1>4. s = x
  BY <1>2, <1>3, SeqEqual
<1>5. QED BY <1>4 DEF s

\* What is left of b behind its first bytes.
LEMMA FromFacts ==
  ASSUME NEW S, NEW b \in Seq(S), NEW at \in Nat, at <= Len(b)
  PROVE  /\ From(b, at) \in Seq(S) /\ Len(From(b, at)) = Len(b) - at
         /\ \A i \in 1..(Len(b) - at) : From(b, at)[i] = b[at + i]
<1> DEFINE n == Len(b)
<1>1. n \in Nat /\ at <= n /\ n <= Len(b)
  BY LenProperties
<1> HIDE DEF n
<1>2. /\ Slice(b, at, n) \in Seq(S) /\ Len(Slice(b, at, n)) = n - at
      /\ \A i \in 1..(n - at) : Slice(b, at, n)[i] = b[at + i]
  BY <1>1, SliceFacts
<1>3. QED BY <1>2 DEF From, n

\* A slice of it of the length of x, where x lies, is x.
LEMMA SliceFromIs ==
  ASSUME NEW S, NEW b \in Seq(S), NEW x \in Seq(S), NEW at \in Nat,
         NEW from \in Nat, NEW to \in Nat,
         from <= to, at + to <= Len(b), Len(x) = to - from, LiesAt(x, b, at + from)
  PROVE  Slice(From(b, at), from, to) = x
<1>1. Len(b) \in Nat /\ Len(x) \in Nat /\ at <= Len(b)
  BY LenProperties
<1> DEFINE f == From(b, at)
<1>2. /\ f \in Seq(S) /\ Len(f) = Len(b) - at
      /\ \A i \in 1..(Len(b) - at) : f[i] = b[at + i]
  BY <1>1, FromFacts
<1> HIDE DEF f
<1>3. to <= Len(f)
  BY <1>1, <1>2
<1>4. LiesAt(x, f, from)
  <2> SUFFICES ASSUME NEW i \in 1..Len(x) PROVE f[from + i] = x[i]
    BY DEF LiesAt
  <2>1. from + i \in 1..(Len(b) - at) /\ at + (from + i) = at + from + i
    BY <1>1
  <2>2. b[at + from + i] = x[i]
    BY DEF LiesAt
  <2>3. QED BY <2>1, <2>2, <1>2
<1>5. Slice(f, from, to) = x
  BY <1>2, <1>3, <1>4, SliceIs
<1>6. QED BY <1>5 DEF f

\* What is read without looking where b ends.
LEMMA FillIs ==
  ASSUME NEW S, NEW b \in Seq(S), NEW x \in Seq(S), NEW at \in Nat,
         at + Len(x) <= Len(b), LiesAt(x, b, at)
  PROVE  Fill(b, at, Len(x)) = x
<1>1. Len(b) \in Nat /\ Len(x) \in Nat
  BY LenProperties
<1>2. x = [k \in 1..Len(x) |-> x[k]]
  BY LenProperties
<1>3. \A k \in 1..Len(x) : (IF at + k <= Len(b) THEN b[at + k] ELSE 0) = x[k]
  BY <1>1 DEF LiesAt
<1>4. QED BY <1>2, <1>3 DEF Fill

\* A signed document, or an encrypted payload: a header of four, and two parts.
LEMMA LayoutFacts ==
  ASSUME NEW S, Nat \subseteq S, NEW x \in Seq(S), NEW y \in Seq(S)
  PROVE  /\ Serialize(x, y) \in Seq(S)
         /\ Len(x) \in Nat /\ Len(y) \in Nat
         /\ Len(Serialize(x, y)) = 4 + Len(x) + Len(y)
         /\ Serialize(x, y)[1] = 0 /\ Serialize(x, y)[2] = 0
         /\ Serialize(x, y)[3] = Len(x) /\ Serialize(x, y)[4] = Len(y)
         /\ LiesAt(x, Serialize(x, y), 4) /\ LiesAt(y, Serialize(x, y), 4 + Len(x))
<1> DEFINE h == <<0, 0, Len(x), Len(y)>>
           hx == h \o x
           b == Serialize(x, y)
<1>1. Len(x) \in Nat /\ Len(y) \in Nat
  BY LenProperties
<1>2. h \in Seq(S) /\ Len(h) = 4 /\ h[1] = 0 /\ h[2] = 0 /\ h[3] = Len(x) /\ h[4] = Len(y)
  BY <1>1
<1> HIDE DEF h
<1>3. /\ hx \in Seq(S) /\ Len(hx) = 4 + Len(x)
      /\ \A i \in 1..4 : hx[i] = h[i]
      /\ \A i \in 1..Len(x) : hx[4 + i] = x[i]
  <2>1. /\ hx \in Seq(S) /\ Len(hx) = Len(h) + Len(x)
        /\ \A i \in 1..Len(h) : hx[i] = h[i]
        /\ \A i \in 1..Len(x) : hx[Len(h) + i] = x[i]
    <3> h \in Seq(S)
      BY <1>2
    <3> QED BY JoinFacts
  <2>2. QED BY <1>2, <2>1
<1> HIDE DEF hx
<1>4. b = hx \o y
  BY Zenon DEF hx, h, b, Serialize
<1> HIDE DEF b
<1>5. /\ b \in Seq(S) /\ Len(b) = Len(hx) + Len(y)
      /\ \A i \in 1..Len(hx) : b[i] = hx[i]
      /\ \A i \in 1..Len(y) : b[Len(hx) + i] = y[i]
  <2> hx \in Seq(S)
    BY <1>3
  <2>1. /\ hx \o y \in Seq(S) /\ Len(hx \o y) = Len(hx) + Len(y)
        /\ \A i \in 1..Len(hx) : (hx \o y)[i] = hx[i]
        /\ \A i \in 1..Len(y) : (hx \o y)[Len(hx) + i] = y[i]
    BY JoinFacts
  <2>2. QED BY <1>4, <2>1
<1>6. /\ \A i \in 1..4 : b[i] = h[i]
      /\ \A i \in 1..Len(x) : b[4 + i] = x[i]
  <2>1. \A i \in 1..4 : i \in 1..Len(hx)
    BY <1>1, <1>3
  <2>2. \A i \in 1..Len(x) : 4 + i \in 1..Len(hx)
    BY <1>1, <1>3
  <2>3. QED BY <2>1, <2>2, <1>3, <1>5
<1>7. LiesAt(x, b, 4) /\ LiesAt(y, b, 4 + Len(x))
  BY <1>3, <1>5, <1>6 DEF LiesAt
<1>8. QED BY <1>1, <1>2, <1>3, <1>5, <1>6, <1>7 DEF b

-----------------------------------------------------------------------------
\* The layers of the format.

\* Either reader finds in the signed document what was put there.
LEMMA DatasetRoundTrip ==
  ASSUME NEW S, Nat \subseteq S, NEW x \in Seq(S), NEW y \in Seq(S)
  PROVE  LET b == Serialize(x, y) IN
         /\ Readable(b)
         /\ Deserialize(b) = [algorithm |-> 0, signature |-> x, payload |-> y]
         /\ CsReadable(b)
         /\ CsDeserialize(b) = [signature |-> x, payload |-> y]
<1> DEFINE b == Serialize(x, y)
           c == From(b, 1)
           f == From(c, 3)
           m == Len(x)
           n == Len(y)
           e == m + n
           g == 4 + m
           h == 4 + m + n
<1>1. m \in Nat /\ n \in Nat
  BY LenProperties
<1>2. /\ b \in Seq(S) /\ Len(b) = 4 + m + n
      /\ b[1] = 0 /\ b[2] = 0 /\ b[3] = m /\ b[4] = n
      /\ LiesAt(x, b, 4) /\ LiesAt(y, b, 4 + m)
  BY LayoutFacts
<1> HIDE DEF b
<1>3. /\ c \in Seq(S) /\ Len(c) = Len(b) - 1
      /\ \A i \in 1..(Len(b) - 1) : c[i] = b[1 + i]
  <2>1. 1 <= Len(b)
    BY <1>1, <1>2
  <2>2. 1 \in Nat
    OBVIOUS
  <2>3. QED BY <1>2, <2>1, <2>2, FromFacts
<1> HIDE DEF c
<1>4. /\ c \in Seq(S) /\ Len(c) = 3 + e
      /\ c[1] = 0 /\ c[2] = m /\ c[3] = n
  BY <1>1, <1>2, <1>3
<1>5. LiesAt(x, c, 3 + 0)
  <2> SUFFICES ASSUME NEW i \in 1..m PROVE c[3 + i] = x[i]
    BY <1>1 DEF LiesAt
  <2>1. 3 + i \in 1..(Len(b) - 1) /\ 1 + (3 + i) = 4 + i
    BY <1>1, <1>2
  <2>2. QED BY <1>2, <1>3, <2>1 DEF LiesAt
<1>6. LiesAt(y, c, 3 + m)
  <2> SUFFICES ASSUME NEW i \in 1..n PROVE c[3 + m + i] = y[i]
    BY DEF LiesAt
  <2>1. 3 + m + i \in 1..(Len(b) - 1) /\ 1 + (3 + m + i) = 4 + m + i
    BY <1>1, <1>2
  <2>2. QED BY <1>2, <1>3, <2>1 DEF LiesAt
<1>7. e \in Nat /\ g \in Nat /\ h \in Nat /\ 3 + m <= Len(c) /\ 3 + e <= Len(c)
      /\ g <= Len(b) /\ h <= Len(b)
  BY <1>1, <1>2, <1>4
<1>8. LiesAt(y, b, g)
  BY <1>2
<1>9. /\ e = m + n /\ g = 4 + m /\ h = 4 + m + n
      /\ 0 <= m /\ m = m - 0 /\ m <= e /\ n = e - m
      /\ 4 <= g /\ m = g - 4 /\ g <= h /\ n = h - g
  BY <1>1
<1> HIDE DEF e, g, h
<1>10. 0 \in Nat /\ 3 \in Nat
  OBVIOUS
<1>11. Slice(f, 0, m) = x /\ Slice(f, m, e) = y
  BY <1>1, <1>4, <1>5, <1>6, <1>7, <1>9, <1>10, SliceFromIs
<1>12. Slice(b, 4, g) = x
  BY <1>1, <1>2, <1>7, <1>9, SliceIs
<1>13. Slice(b, g, h) = y
  BY <1>1, <1>2, <1>7, <1>8, <1>9, SliceIs
<1>14. Readable(b) /\ CsReadable(b)
  <2>1. Len(b) >= 4 /\ Len(c) >= 3
    BY <1>1, <1>2, <1>3
  <2>2. QED BY <1>1, <1>2, <2>1 DEF Readable, CsReadable, HasInt, IntAt, c
<1>15. Deserialize(b) = [algorithm |-> 0, signature |-> x, payload |-> y]
  <2>1. Deserialize(b) = [algorithm |-> c[0 + 1], signature |-> Slice(f, 0, c[1 + 1]),
                          payload |-> Slice(f, c[1 + 1], c[1 + 1] + c[2 + 1])]
    BY Zenon DEF Deserialize, IntAt, c
  <2>2. c[0 + 1] = 0 /\ c[1 + 1] = m /\ c[2 + 1] = n
    BY <1>4
  <2>3. QED BY <2>1, <2>2, <1>9, <1>11
<1>16. CsDeserialize(b) = [signature |-> x, payload |-> y]
  <2>1. CsDeserialize(b) = [signature |-> Slice(b, 4, 4 + b[2 + 1]),
                            payload |-> Slice(b, 4 + b[2 + 1], 4 + b[2 + 1] + b[3 + 1])]
    BY Zenon DEF CsDeserialize, ReadBytes, IntAt
  <2>2. b[2 + 1] = m /\ b[3 + 1] = n
    BY <1>2
  <2>3. QED BY <2>1, <2>2, <1>9, <1>12, <1>13
<1>17. QED BY <1>14, <1>15, <1>16, Zenon DEF b

\* Either reader finds in the encrypted payload what was put there.
LEMMA PayloadRoundTrip ==
  ASSUME NEW S, Nat \subseteq S, NEW x \in Seq(S), NEW y \in Seq(S)
  PROVE  /\ CsPayload(x, y) = WrapPayload(x, y)
         /\ UnwrapPayload(WrapPayload(x, y)) = [seed |-> x, vault |-> y]
         /\ CsUnwrap(WrapPayload(x, y)) = [seed |-> x, vault |-> y]
<1> DEFINE b == Serialize(x, y)
           f == From(b, 4)
           m == Len(x)
           n == Len(y)
           e == 4 + m
<1>1. m \in Nat /\ n \in Nat /\ e \in Nat /\ 4 \in Nat /\ 0 \in Nat
  BY LenProperties
<1>2. /\ b \in Seq(S) /\ Len(b) = 4 + m + n
      /\ b[3] = m /\ b[4] = n
      /\ LiesAt(x, b, 4) /\ LiesAt(y, b, 4 + m)
  BY LayoutFacts
<1>3. WrapPayload(x, y) = b /\ CsPayload(x, y) = b
  BY Zenon DEF WrapPayload, CsPayload, Serialize
<1> HIDE DEF b
<1>4. /\ f \in Seq(S) /\ Len(f) = Len(b) - 4
      /\ \A i \in 1..(Len(b) - 4) : f[i] = b[4 + i]
  <2>1. 4 <= Len(b)
    BY <1>1, <1>2
  <2>2. QED BY <1>1, <1>2, <2>1, FromFacts
<1>5. LiesAt(x, b, 4 + 0) /\ LiesAt(y, f, m + 0)
  <2>1. \A i \in 1..n : m + 0 + i \in 1..(Len(b) - 4) /\ 4 + (m + 0 + i) = 4 + m + i
    BY <1>1, <1>2
  <2>2. QED BY <1>1, <1>2, <1>4, <2>1 DEF LiesAt
<1>6. /\ 0 <= m /\ 4 + m <= Len(b) /\ m = m - 0
      /\ 0 <= n /\ m + n <= Len(f) /\ n = n - 0
      /\ e + n <= Len(b)
  BY <1>1, <1>2, <1>4
<1>7. Slice(f, 0, m) = x
  BY <1>1, <1>2, <1>5, <1>6, SliceFromIs
<1> HIDE DEF f
<1>8. Slice(From(f, m), 0, n) = y
  BY <1>1, <1>4, <1>5, <1>6, SliceFromIs
<1>9. UnwrapPayload(b) = [seed |-> x, vault |-> y]
  <2>1. UnwrapPayload(b) = [seed |-> Slice(f, 0, b[2 + 1]),
                            vault |-> Slice(From(f, b[2 + 1]), 0, b[3 + 1])]
    BY Zenon DEF UnwrapPayload, IntAt, f
  <2>2. b[2 + 1] = m /\ b[3 + 1] = n
    BY <1>2
  <2>3. QED BY <2>1, <2>2, <1>7, <1>8
<1>10. Fill(b, 4, m) = x /\ Fill(b, e, n) = y
  <2>1. LiesAt(y, b, e)
    BY <1>2
  <2> HIDE DEF e
  <2>2. QED BY <1>1, <1>2, <1>6, <2>1, FillIs
<1>11. CsUnwrap(b) = [seed |-> x, vault |-> y]
  <2>1. CsUnwrap(b) = [seed |-> Fill(b, 4, b[2 + 1]), vault |-> Fill(b, 4 + b[2 + 1], b[3 + 1])]
    BY Zenon DEF CsUnwrap, IntAt
  <2>2. b[2 + 1] = m /\ b[3 + 1] = n
    BY <1>2
  <2>3. QED BY <2>1, <2>2, <1>10
<1>12. QED BY <1>3, <1>9, <1>11

\* What C# reads of key and data.
CsSplits(b, key, data) ==
  /\ ReadBytes(b, 1, IntAt(b, 0)) = key
  /\ ReadBytes(b, IntAt(b, 0) + 2, IntAt(b, IntAt(b, 0) + 1)) = data

\* Either reader finds the private key and the entries where they were put.
LEMMA KeyRoundTrip ==
  ASSUME NEW S, Nat \subseteq S, NEW x \in Seq(S), NEW y \in Seq(S)
  PROVE  /\ SplitKey(JoinKey(y, x)) = [key |-> x, data |-> y]
         /\ CsSplits(JoinKey(y, x), x, y)
<1> DEFINE b == JoinKey(y, x)
           f == From(b, 1)
           m == Len(x)
           n == Len(y)
           b1 == <<m>> \o x
           b2 == b1 \o <<n>>
           d == m + 2
           t == 1 + m
           u == m + 2 + n
<1>1. m \in Nat /\ n \in Nat /\ d \in Nat /\ t \in Nat /\ u \in Nat /\ 1 \in Nat /\ 0 \in Nat
  BY LenProperties
<1>2. /\ <<m>> \in Seq(S) /\ Len(<<m>>) = 1 /\ <<m>>[1] = m
      /\ <<n>> \in Seq(S) /\ Len(<<n>>) = 1 /\ <<n>>[1] = n
  BY <1>1
<1>3. /\ b \in Seq(S) /\ Len(b) = u
      /\ b[1] = m /\ LiesAt(x, b, 1)
      /\ b[t + 1] = n /\ LiesAt(y, b, d)
  <2>1. /\ b1 \in Seq(S) /\ Len(b1) = Len(<<m>>) + Len(x)
        /\ \A i \in 1..Len(<<m>>) : b1[i] = <<m>>[i]
        /\ \A i \in 1..Len(x) : b1[Len(<<m>>) + i] = x[i]
    BY <1>2, JoinFacts
  <2>2. /\ b1 \in Seq(S) /\ Len(b1) = 1 + m
        /\ b1[1] = m
        /\ \A i \in 1..m : b1[1 + i] = x[i]
    BY <1>1, <1>2, <2>1
  <2> HIDE DEF b1
  <2>3. /\ b2 \in Seq(S) /\ Len(b2) = Len(b1) + Len(<<n>>)
        /\ \A i \in 1..Len(b1) : b2[i] = b1[i]
        /\ \A i \in 1..Len(<<n>>) : b2[Len(b1) + i] = <<n>>[i]
    BY <1>2, <2>2, JoinFacts
  <2>4. /\ b2 \in Seq(S) /\ Len(b2) = d
        /\ b2[1] = m /\ b2[t + 1] = n
        /\ \A i \in 1..m : b2[1 + i] = x[i]
    <3>1. 1 \in 1..Len(b1) /\ (\A i \in 1..m : 1 + i \in 1..Len(b1))
          /\ 1 \in 1..Len(<<n>>) /\ Len(b1) + 1 = t + 1
      BY <1>1, <1>2, <2>2
    <3>2. QED BY <1>1, <1>2, <2>2, <2>3, <3>1
  <2> HIDE DEF b2
  <2>5. b = b2 \o y
    BY Zenon DEF JoinKey, b, b2, b1
  <2>6. /\ b2 \o y \in Seq(S) /\ Len(b2 \o y) = Len(b2) + Len(y)
        /\ \A i \in 1..Len(b2) : (b2 \o y)[i] = b2[i]
        /\ \A i \in 1..Len(y) : (b2 \o y)[Len(b2) + i] = y[i]
    <3> b2 \in Seq(S)
      BY <2>4
    <3> QED BY JoinFacts
  <2>7. 1 \in 1..Len(b2) /\ t + 1 \in 1..Len(b2) /\ \A i \in 1..m : 1 + i \in 1..Len(b2)
    BY <1>1, <2>4
  <2> HIDE DEF b
  <2>8. QED BY <2>4, <2>5, <2>6, <2>7 DEF LiesAt
<1> HIDE DEF b
<1>4. /\ f \in Seq(S) /\ Len(f) = Len(b) - 1
      /\ \A i \in 1..(Len(b) - 1) : f[i] = b[1 + i]
  <2>1. 1 <= Len(b)
    BY <1>1, <1>3
  <2>2. QED BY <1>1, <1>3, <2>1, FromFacts
<1>5. f[t] = n /\ LiesAt(x, b, 1 + 0) /\ LiesAt(y, f, t + 0)
  <2>1. t \in 1..(Len(b) - 1) /\ 1 + t = t + 1
        /\ \A i \in 1..n : t + 0 + i \in 1..(Len(b) - 1) /\ 1 + (t + 0 + i) = d + i
    BY <1>1, <1>3
  <2>2. QED BY <1>1, <1>3, <1>4, <2>1 DEF LiesAt
<1>6. /\ 0 <= m /\ 1 + m <= Len(b) /\ m = m - 0
      /\ 0 <= n /\ t + n <= Len(f) /\ n = n - 0
      /\ 1 <= t /\ t <= Len(b) /\ m = t - 1
      /\ d <= u /\ u <= Len(b) /\ n = u - d
  BY <1>1, <1>3, <1>4
<1>7. Slice(f, 0, m) = x
  BY <1>1, <1>3, <1>5, <1>6, SliceFromIs
<1>8. Slice(b, 1, t) = x
  <2> HIDE DEF t
  <2>1. QED BY <1>1, <1>3, <1>6, SliceIs
<1>9. Slice(b, d, u) = y
  <2> HIDE DEF d, u
  <2>1. QED BY <1>1, <1>3, <1>6, SliceIs
<1> HIDE DEF f
<1>10. Slice(From(f, t), 0, n) = y
  <2> HIDE DEF t
  <2>1. QED BY <1>1, <1>4, <1>5, <1>6, SliceFromIs
<1>11. SplitKey(b) = [key |-> x, data |-> y]
  <2>1. SplitKey(b) = [key |-> Slice(f, 0, b[0 + 1]),
                       data |-> Slice(From(f, 1 + b[0 + 1]), 0, f[b[0 + 1] + 1])]
    BY Zenon DEF SplitKey, IntAt, f
  <2>2. b[0 + 1] = m /\ m + 1 = t
    BY <1>1, <1>3
  <2>3. QED BY <2>1, <2>2, <1>5, <1>7, <1>10
<1>12. CsSplits(b, x, y)
  <2>1. IntAt(b, 0) = m /\ IntAt(b, m + 1) = n
    BY <1>1, <1>3 DEF IntAt
  <2>2. QED BY <2>1, <1>8, <1>9 DEF ReadBytes, CsSplits
<1>13. QED BY <1>11, <1>12, Zenon DEF b

-----------------------------------------------------------------------------
\* The whole document.

\* A run is a byte string.
LEMMA RunFacts ==
  ASSUME NEW S, NEW x \in S, NEW n \in Nat
  PROVE  /\ Run(x, n) \in Seq(S) /\ Len(Run(x, n)) = n
         /\ \A k \in 1..n : Run(x, n)[k] = x
  BY DEF Run

\* What is sealed, by either side: the entries as data.
PlainOf(v, data) == JoinKey(data, Key(v))
CipherOf(v, p, data) == Enciphered(JsKey(p), Seed, PlainOf(v, data))
PayloadOf(v, p, data) == Serialize(Seed, CipherOf(v, p, data))
Sealed(v, p, data) == Serialize(Signature(v, PayloadOf(v, p, data)), PayloadOf(v, p, data))

\* The two writers differ in how they write the entries.
LEMMA SealsAreSealed ==
  ASSUME NEW v, NEW p, NEW t
  PROVE  /\ JsSeal(v, p, t) = Sealed(v, p, Raw(t))
         /\ CsSeal(v, p, t) = Sealed(v, p, Escaped(t))
<1>1. JsSeal(v, p, t) = Sealed(v, p, Raw(t))
  BY Zenon DEF JsSeal, Sealed, PayloadOf, CipherOf, PlainOf, WrapPayload, Serialize
<1>2. CsSeal(v, p, t) = Sealed(v, p, Escaped(t))
  <2>1. \A x, y : CsDataset(x, y) = Serialize(x, y) /\ CsPayload(x, y) = Serialize(x, y)
    BY Zenon DEF CsDataset, CsPayload, Serialize
  <2>2. CsKey(p) = JsKey(p)
    BY DEF CsKey, JsKey
  <2>3. <<Len(Key(v))>> \o Key(v) \o <<Len(Escaped(t))>> \o Escaped(t) = JoinKey(Escaped(t), Key(v))
    BY Zenon DEF JoinKey
  <2>4. QED BY <2>1, <2>2, <2>3, Zenon DEF CsSeal, Sealed, PayloadOf, CipherOf, PlainOf
<1>3. QED BY <1>1, <1>2

\* What either reader finds in it.
LEMMA SealedFacts ==
  ASSUME NEW v, NEW p, NEW T, NEW data \in Seq(T)
  PROVE  /\ Readable(Sealed(v, p, data)) /\ CsReadable(Sealed(v, p, data))
         /\ Deserialize(Sealed(v, p, data)) =
              [algorithm |-> 0, signature |-> Signature(v, PayloadOf(v, p, data)), payload |-> PayloadOf(v, p, data)]
         /\ CsDeserialize(Sealed(v, p, data)) = [signature |-> Signature(v, PayloadOf(v, p, data)), payload |-> PayloadOf(v, p, data)]
         /\ UnwrapPayload(PayloadOf(v, p, data)) = [seed |-> Seed, vault |-> CipherOf(v, p, data)]
         /\ CsUnwrap(PayloadOf(v, p, data)) = [seed |-> Seed, vault |-> CipherOf(v, p, data)]
         /\ CipherOf(v, p, data) = Enciphered(JsKey(p), Seed, PlainOf(v, data))
         /\ Len(CipherOf(v, p, data)) = 8 /\ Plain(CipherOf(v, p, data)) = PlainOf(v, data)
         /\ SplitKey(PlainOf(v, data)) = [key |-> Key(v), data |-> data]
         /\ CsSplits(PlainOf(v, data), Key(v), data)
<1> DEFINE b == Sealed(v, p, data)
           plain == PlainOf(v, data)
           cipher == CipherOf(v, p, data)
           payload == PayloadOf(v, p, data)
           signature == Signature(v, payload)
           cu == [under |-> JsKey(p), seed |-> Seed, plain |-> plain]
           su == [by |-> v, over |-> payload]
           ku == [key |-> v]
           S == Nat \cup {"seed", cu, su}
           R == Nat \cup {ku} \cup T
<1>1. Nat \subseteq S /\ "seed" \in S /\ cu \in S /\ su \in S /\ Nat \subseteq R /\ ku \in R
  OBVIOUS
<1>2. data \in Seq(R)
  OBVIOUS
<1>3. cipher = Run(cu, 8) /\ signature = Run(su, 7) /\ Seed = Run("seed", 4) /\ Key(v) = Run(ku, 5)
  BY Zenon DEF CipherOf, Enciphered, Signature, Seed, Key
<1>4. /\ b = Serialize(signature, payload) /\ payload = Serialize(Seed, cipher)
      /\ cipher = Enciphered(JsKey(p), Seed, plain)
  BY Zenon DEF Sealed, PayloadOf, CipherOf, PlainOf
<1> HIDE DEF b, plain, cu, su, ku, S, R
<1>5. /\ Seed \in Seq(S) /\ Key(v) \in Seq(R)
      /\ cipher \in Seq(S) /\ Len(cipher) = 8 /\ cipher[1] = cu
      /\ signature \in Seq(S)
  <2>1. 4 \in Nat /\ 5 \in Nat /\ 7 \in Nat /\ 8 \in Nat /\ 1 \in 1..8
    OBVIOUS
  <2> HIDE DEF cipher, signature
  <2>2. Seed \in Seq(S)
    BY <1>1, <1>3, <2>1, RunFacts, Zenon
  <2>3. Key(v) \in Seq(R)
    <3>1. Run(ku, 5) \in Seq(R)
      BY <1>1, <2>1, RunFacts
    <3>2. QED BY <1>3, <3>1, Zenon
  <2>6. cipher \in Seq(S)
    <3>1. Run(cu, 8) \in Seq(S)
      BY <1>1, <2>1, RunFacts
    <3>2. QED BY <1>3, <3>1, Zenon
  <2>7. Len(cipher) = 8 /\ cipher[1] = cu
    <3>1. Len(Run(cu, 8)) = 8 /\ Run(cu, 8)[1] = cu
      BY <2>1 DEF Run
    <3>2. QED BY <1>3, <3>1
  <2>4. signature \in Seq(S)
    BY <1>1, <1>3, <2>1, RunFacts, Zenon
  <2>5. QED BY <2>2, <2>3, <2>4, <2>6, <2>7
<1> HIDE DEF cipher, signature
<1>6. payload \in Seq(S)
  BY <1>1, <1>4, <1>5, LayoutFacts, Zenon
<1>7. UnwrapPayload(payload) = [seed |-> Seed, vault |-> cipher] /\ CsUnwrap(payload) = [seed |-> Seed, vault |-> cipher]
  <2>1. payload = WrapPayload(Seed, cipher)
    BY <1>4, Zenon DEF WrapPayload, Serialize
  <2>2. QED BY <1>1, <1>5, <2>1, PayloadRoundTrip, Zenon
<1> HIDE DEF payload
<1>8. /\ Readable(b) /\ CsReadable(b)
      /\ Deserialize(b) = [algorithm |-> 0, signature |-> signature, payload |-> payload]
      /\ CsDeserialize(b) = [signature |-> signature, payload |-> payload]
  BY <1>1, <1>4, <1>5, <1>6, DatasetRoundTrip, Zenon
<1>9. Plain(cipher) = plain
  BY <1>5 DEF Plain, cu
<1>10. SplitKey(plain) = [key |-> Key(v), data |-> data] /\ CsSplits(plain, Key(v), data)
  <2>1. /\ SplitKey(JoinKey(data, Key(v))) = [key |-> Key(v), data |-> data]
        /\ CsSplits(JoinKey(data, Key(v)), Key(v), data)
    BY <1>1, <1>2, <1>5, KeyRoundTrip
  <2>2. QED BY <2>1, Zenon DEF plain, PlainOf
<1>11. QED BY <1>4, <1>5, <1>7, <1>8, <1>9, <1>10, Zenon DEF b, plain, cipher, payload, signature

\* Entries as data.
LEMMA TextFacts ==
  ASSUME NEW t
  PROVE  /\ Raw(t) \in Seq({[text |-> t, escaped |-> FALSE]})
         /\ Escaped(t) \in Seq({[text |-> t, escaped |-> TRUE]})
  BY DEF Raw, Escaped, Run

\* What opens, and what is in it.
LEMMA SealedOpens ==
  ASSUME NEW v, NEW p, NEW T, NEW data \in Seq(T)
  PROVE  /\ Readable(Sealed(v, p, data))
         /\ \A w : Validate(Deserialize(Sealed(v, p, data)), w) <=> w = v
         /\ \A w : CsValidate(CsDeserialize(Sealed(v, p, data)), w) <=> w = v
         /\ JsOpens(v, p, Sealed(v, p, data)) /\ CsOpens(v, p, Sealed(v, p, data))
         /\ JsContent(Sealed(v, p, data)) = [key |-> Key(v), text |-> data[1].text]
         /\ CsContent(Sealed(v, p, data)) = [key |-> Key(v), text |-> CsText(data)]
<1> DEFINE b == Sealed(v, p, data)
           plain == PlainOf(v, data)
           cipher == CipherOf(v, p, data)
           payload == PayloadOf(v, p, data)
<1>1. /\ Readable(b) /\ CsReadable(b)
      /\ Deserialize(b) = [algorithm |-> 0, signature |-> Signature(v, payload), payload |-> payload]
      /\ CsDeserialize(b) = [signature |-> Signature(v, payload), payload |-> payload]
      /\ UnwrapPayload(payload) = [seed |-> Seed, vault |-> cipher]
      /\ CsUnwrap(payload) = [seed |-> Seed, vault |-> cipher]
      /\ cipher = Enciphered(JsKey(p), Seed, plain)
      /\ Len(cipher) = 8 /\ Plain(cipher) = plain
      /\ SplitKey(plain) = [key |-> Key(v), data |-> data]
      /\ CsSplits(plain, Key(v), data)
  BY SealedFacts, Zenon
<1>2. \A w : Signature(v, payload) = Signature(w, payload) <=> w = v
  <2> HIDE DEF payload
  <2>1. \A w : Signature(w, payload)[1] = [by |-> w, over |-> payload]
    BY DEF Signature, Run
  <2>2. \A w : [by |-> w, over |-> payload] = [by |-> v, over |-> payload] => w = v
    OBVIOUS
  <2>3. QED BY <2>1, <2>2, Zenon
<1>3. Deciphers(JsKey(p), Seed, cipher) /\ Deciphers(CsKey(p), Seed, cipher)
  <2>1. CsKey(p) = JsKey(p)
    BY DEF CsKey, JsKey
  <2>2. Deciphers(JsKey(p), Seed, cipher)
    BY <1>1, Zenon DEF Deciphers
  <2>3. QED BY <2>1, <2>2, Zenon
<1> HIDE DEF b, plain, cipher, payload
<1>4. \A w : (Validate(Deserialize(b), w) <=> w = v) /\ (CsValidate(CsDeserialize(b), w) <=> w = v)
  <2>1. /\ Deserialize(b).algorithm = 0 /\ Deserialize(b).payload = payload
        /\ Deserialize(b).signature = Signature(v, payload)
        /\ CsDeserialize(b).payload = payload /\ CsDeserialize(b).signature = Signature(v, payload)
    BY <1>1
  <2>2. QED BY <1>2, <2>1, Zenon DEF Validate, CsValidate
<1>5. /\ UnwrapPayload(Deserialize(b).payload).seed = Seed
      /\ UnwrapPayload(Deserialize(b).payload).vault = cipher
      /\ CsUnwrap(CsDeserialize(b).payload).seed = Seed
      /\ CsUnwrap(CsDeserialize(b).payload).vault = cipher
  BY <1>1
<1>6. JsOpens(v, p, b) /\ CsOpens(v, p, b)
  BY <1>1, <1>3, <1>4, <1>5, Zenon DEF JsOpens, CsOpens
<1>7. JsContent(b) = [key |-> Key(v), text |-> data[1].text]
  <2>1. SplitKey(plain).key = Key(v) /\ SplitKey(plain).data = data
    BY <1>1
  <2>2. QED BY <1>1, <1>5, <2>1, Zenon DEF JsContent
<1>8. CsContent(b) = [key |-> Key(v), text |-> CsText(data)]
  BY <1>1, <1>5, Zenon DEF CsContent, CsSplits
<1>9. QED BY <1>1, <1>4, <1>6, <1>7, <1>8 DEF b

\* What the shell or a client writes into a vault, for every vault, password
\* and entries: the service takes it for signed by the vault, both sides open
\* it with the password it was written with, and both find the private key of
\* the vault and the entries, but for those that only TypeScript can read.
THEOREM DocumentsOpen ==
  ASSUME NEW v \in Vault, NEW p \in Password, NEW t \in Text
  PROVE  /\ \A b \in {JsSeal(v, p, t), CsSeal(v, p, t)} :
              /\ Valid(b, v)
              /\ JsOpens(v, p, b) /\ CsOpens(v, p, b)
              /\ JsContent(b) = [key |-> Key(v), text |-> t]
         /\ CsContent(CsSeal(v, p, t)) = [key |-> Key(v), text |-> t]
         /\ CsContent(JsSeal(v, p, t)) =
              [key |-> Key(v), text |-> IF t \in Ascii THEN t ELSE Garbled]
<1>1. ASSUME NEW data, \E T : data \in Seq(T)
      PROVE  /\ Valid(Sealed(v, p, data), v)
             /\ JsOpens(v, p, Sealed(v, p, data)) /\ CsOpens(v, p, Sealed(v, p, data))
             /\ JsContent(Sealed(v, p, data)) = [key |-> Key(v), text |-> data[1].text]
             /\ CsContent(Sealed(v, p, data)) = [key |-> Key(v), text |-> CsText(data)]
  <2>1. PICK T : data \in Seq(T)
    BY <1>1
  <2>2. Readable(Sealed(v, p, data)) /\ Validate(Deserialize(Sealed(v, p, data)), v)
    BY <2>1, SealedOpens
  <2>3. /\ JsOpens(v, p, Sealed(v, p, data)) /\ CsOpens(v, p, Sealed(v, p, data))
        /\ JsContent(Sealed(v, p, data)) = [key |-> Key(v), text |-> data[1].text]
        /\ CsContent(Sealed(v, p, data)) = [key |-> Key(v), text |-> CsText(data)]
    BY <2>1, SealedOpens
  <2>4. QED BY <2>2, <2>3 DEF Valid
<1>2. /\ Raw(t)[1].text = t /\ CsText(Raw(t)) = IF t \in Ascii THEN t ELSE Garbled
      /\ Escaped(t)[1].text = t /\ CsText(Escaped(t)) = t
  <2>1. Raw(t)[1].text = t /\ Raw(t)[1].escaped = FALSE
    BY DEF Raw, Run
  <2>2. Escaped(t)[1].text = t /\ Escaped(t)[1].escaped = TRUE
    BY DEF Escaped, Run
  <2>3. QED BY <2>1, <2>2 DEF CsText
<1>3. \A data \in {Raw(t), Escaped(t)} : \E T : data \in Seq(T)
  BY TextFacts, Zenon
<1>4. QED BY <1>1, <1>2, <1>3, SealsAreSealed, Zenon

\* Keys are as different as the passwords they are derived from.
LEMMA DeciphersOnlyWith ==
  ASSUME NEW p, NEW q, NEW plain,
         \/ Deciphers(JsKey(q), Seed, Enciphered(JsKey(p), Seed, plain))
         \/ Deciphers(CsKey(q), Seed, Enciphered(JsKey(p), Seed, plain))
  PROVE  q = p
<1> DEFINE b == Enciphered(JsKey(p), Seed, plain)
           x == [under |-> JsKey(p), seed |-> Seed, plain |-> plain]
           y == [under |-> JsKey(q), seed |-> Seed, plain |-> Plain(b)]
<1>1. CsKey(q) = JsKey(q)
  BY DEF CsKey, JsKey
<1>2. b = Run(x, 8) /\ b = Run(y, 8)
  BY <1>1, Zenon DEF Deciphers, Enciphered
<1> HIDE DEF b
<1>3. x = y
  <2> HIDE DEF x, y
  <2>1. Run(x, 8)[1] = x /\ Run(y, 8)[1] = y
    BY DEF Run
  <2>2. QED BY <1>2, <2>1
<1>4. JsKey(p) = JsKey(q)
  BY <1>3
<1>5. JsKey(p).password = p /\ JsKey(q).password = q
  BY DEF JsKey, DerivedKey
<1>6. QED BY <1>4, <1>5

\* The layers of a sealed document, as either reader meets them.
LEMMA SealedParts ==
  ASSUME NEW v, NEW p, NEW T, NEW data \in Seq(T)
  PROVE  /\ Deserialize(Sealed(v, p, data)).payload = PayloadOf(v, p, data)
         /\ CsDeserialize(Sealed(v, p, data)).payload = PayloadOf(v, p, data)
         /\ UnwrapPayload(PayloadOf(v, p, data)).seed = Seed
         /\ UnwrapPayload(PayloadOf(v, p, data)).vault = CipherOf(v, p, data)
         /\ CsUnwrap(PayloadOf(v, p, data)).seed = Seed
         /\ CsUnwrap(PayloadOf(v, p, data)).vault = CipherOf(v, p, data)
         /\ CipherOf(v, p, data) = Enciphered(JsKey(p), Seed, PlainOf(v, data))
<1> DEFINE b == Sealed(v, p, data)
           plain == PlainOf(v, data)
           cipher == CipherOf(v, p, data)
           payload == PayloadOf(v, p, data)
           signature == Signature(v, payload)
<1>1. /\ Readable(b) /\ CsReadable(b)
      /\ Deserialize(b) = [algorithm |-> 0, signature |-> signature, payload |-> payload]
      /\ CsDeserialize(b) = [signature |-> signature, payload |-> payload]
      /\ UnwrapPayload(payload) = [seed |-> Seed, vault |-> cipher]
      /\ CsUnwrap(payload) = [seed |-> Seed, vault |-> cipher]
      /\ cipher = Enciphered(JsKey(p), Seed, plain)
      /\ Len(cipher) = 8 /\ Plain(cipher) = plain
      /\ SplitKey(plain) = [key |-> Key(v), data |-> data]
      /\ CsSplits(plain, Key(v), data)
  BY SealedFacts, Zenon
<1> HIDE DEF b, plain, cipher, payload, signature
<1>2. QED BY <1>1 DEF b, plain, cipher, payload

\* The other half: whoever reads it, a document validates for no other vault and
\* opens with no other password than those it was written with.  So a document
\* may stand for the vault and the password it was written with, as it does in
\* Shell (Decrypts) and ViewModel (Validates).
THEOREM DocumentsStayShut ==
  ASSUME NEW v \in Vault, NEW p \in Password, NEW t \in Text,
         NEW b \in {JsSeal(v, p, t), CsSeal(v, p, t)}
  PROVE  /\ \A w : Valid(b, w) <=> w = v
         /\ \A w, q : JsOpens(w, q, b) <=> w = v /\ q = p
         /\ \A w, q : CsOpens(w, q, b) <=> w = v /\ q = p
<1>1. PICK data \in {Raw(t), Escaped(t)} : b = Sealed(v, p, data)
  BY SealsAreSealed, Zenon
<1>2. PICK T : data \in Seq(T)
  BY TextFacts, Zenon
<1> DEFINE plain == PlainOf(v, data)
           cipher == CipherOf(v, p, data)
           payload == PayloadOf(v, p, data)
<1>3. /\ Deserialize(b).payload = payload /\ CsDeserialize(b).payload = payload
      /\ UnwrapPayload(payload).seed = Seed /\ UnwrapPayload(payload).vault = cipher
      /\ CsUnwrap(payload).seed = Seed /\ CsUnwrap(payload).vault = cipher
      /\ cipher = Enciphered(JsKey(p), Seed, plain)
  BY <1>1, <1>2, SealedParts, Zenon
<1> HIDE DEF plain, cipher, payload
<1>4. /\ Readable(b)
      /\ \A w : Validate(Deserialize(b), w) <=> w = v
      /\ \A w : CsValidate(CsDeserialize(b), w) <=> w = v
      /\ JsOpens(v, p, b) /\ CsOpens(v, p, b)
  BY <1>1, <1>2, SealedOpens, Zenon
<1>5. \A w : Valid(b, w) <=> w = v
  BY <1>4, Zenon DEF Valid
<1>6. \A w, q : JsOpens(w, q, b) => w = v /\ q = p
  BY <1>3, <1>4, DeciphersOnlyWith, Zenon DEF JsOpens
<1>7. \A w, q : CsOpens(w, q, b) => w = v /\ q = p
  BY <1>3, <1>4, DeciphersOnlyWith, Zenon DEF CsOpens
<1>8. QED BY <1>4, <1>5, <1>6, <1>7, Zenon

\* A document is signed by its vault, for either reader, and by no other.
LEMMA SignedByItsVault ==
  ASSUME NEW d \in Document
  PROVE  /\ \A v : Valid(Bytes(d), v) => v = d.vault
         /\ CsValidate(CsDeserialize(Bytes(d)), d.vault)
<1> DEFINE v == d.vault
           p == PasswordOf[v]
           t == TextOf[v]
<1>1. PICK data \in {Raw(t), Escaped(t)} : Bytes(d) = Sealed(v, p, data)
  BY SealsAreSealed, Zenon DEF Bytes
<1>2. PICK T : data \in Seq(T)
  BY TextFacts, Zenon
<1> HIDE DEF v, p, t
<1>3. /\ \A w : Validate(Deserialize(Bytes(d)), w) => w = v
      /\ CsValidate(CsDeserialize(Bytes(d)), v)
  <2>1. \A w : Validate(Deserialize(Sealed(v, p, data)), w) => w = v
    BY <1>2, SealedOpens
  <2>2. CsValidate(CsDeserialize(Sealed(v, p, data)), v)
    BY <1>2, SealedOpens
  <2>3. QED BY <1>1, <2>1, <2>2, Zenon
<1>4. QED BY <1>3, Zenon DEF Valid, v

-----------------------------------------------------------------------------
\* The inductive invariant.

\* Names lead to vaults that are held, a vault is a tenant of the database it
\* was opened on, and so is whoever signed what a database holds.
StoreInv ==
  /\ names \in [Name -> Vault \cup {None}]
  /\ handles \in [Vault -> Name \cup {Gone, None}]
  /\ stored \in [Name -> Document \cup {Empty, Removed}]
  /\ tenants \in [Name -> SUBSET Vault]
  /\ \A n \in Name : names[n] # None => handles[names[n]] # None
  /\ \A v \in Vault : handles[v] \in Name => v \in tenants[handles[v]]
  /\ \A n \in Name : stored[n] \in Document => stored[n].vault \in tenants[n]

\* What a call holds, given the tenants t: what it is about to write is its
\* vault's own, and that vault is a tenant of its database, if the database is
\* still there.  An answer names tenants, and a link has a name for what it finds.
CallFits(x, t) ==
  /\ x \in CallState
  /\ x.pc \in {"initializes", "fills", "writes"} =>
       x.content \in Document /\ x.content.vault = x.vault
  /\ x.pc \in {"initializes", "fills", "reads", "writes"} /\ x.db \in Name => x.vault \in t[x.db]
  /\ x.answer # None => x.answer.key \in x.answer.from /\ x.answer.content.vault \in x.answer.from
  /\ x.pc = "links" => x.name # None

Phase == {"starting", "serving", "draining", "ended", "cut"}

RpcInv ==
  /\ phase \in Phase
  /\ StoreInv
  /\ call = [c \in Call |-> call[c]]
  /\ \A c \in Call : CallFits(call[c], tenants)

\* What a step does to the vaults.
StoreStep == [Vaults!Next]_<<names, handles, stored, tenants>>

\* What is to be shown of a step.
StepIsOK == RpcInv' /\ StoreStep

-----------------------------------------------------------------------------
\* The vaults.

LEMMA OwnFacts ==
  ASSUME NEW v \in Vault
  PROVE  \A d : d \in OwnContent[v] <=> d \in Document /\ d.vault = v
  BY DEF OwnContent

\* A step that changes what databases hold, but not whose they are.
LEMMA HeldStays ==
  ASSUME StoreInv, UNCHANGED <<names, handles>>,
         NEW n \in Name, NEW d \in Document \cup {Empty, Removed},
         stored' = [stored EXCEPT ![n] = d], tenants' \in [Name -> SUBSET Vault],
         \A m \in Name : tenants[m] \subseteq tenants'[m],
         d \in Document => d.vault \in tenants'[n]
  PROVE  StoreInv'
<1>1. \A m \in Name : stored'[m] \in Document => stored'[m].vault \in tenants'[m]
  BY DEF StoreInv
<1>2. QED BY <1>1 DEF StoreInv

\* Whatever VaultStore allows leaves the vaults in order.
LEMMA StoreStepOK ==
  ASSUME StoreInv, StoreStep
  PROVE  StoreInv'
<1> USE RpcAssumption
<1>1. CASE UNCHANGED <<names, handles, stored, tenants>>
  BY <1>1 DEF StoreInv
<1>2. ASSUME NEW n \in Name, NEW v \in Vault, Vaults!Open(n, v) PROVE StoreInv'
  <2>1. /\ names' = [names EXCEPT ![n] = v] /\ handles' = [handles EXCEPT ![v] = n]
        /\ tenants' = [tenants EXCEPT ![n] = @ \cup {v}] /\ stored' = stored
    BY <1>2 DEF Vaults!Open
  <2>2. /\ names' \in [Name -> Vault \cup {None}] /\ handles' \in [Vault -> Name \cup {Gone, None}]
        /\ tenants' \in [Name -> SUBSET Vault]
        /\ \A m \in Name : tenants[m] \subseteq tenants'[m]
    BY <2>1 DEF StoreInv
  <2>3. \A m \in Name : names'[m] # None => handles'[names'[m]] # None
    BY <2>1 DEF StoreInv
  <2>4. \A w \in Vault : handles'[w] \in Name => w \in tenants'[handles'[w]]
    BY <2>1, <2>2 DEF StoreInv
  <2>5. \A m \in Name : stored'[m] \in Document => stored'[m].vault \in tenants'[m]
    BY <2>1, <2>2 DEF StoreInv
  <2>6. QED BY <2>1, <2>2, <2>3, <2>4, <2>5 DEF StoreInv
<1>3. ASSUME NEW n \in Name, NEW v \in Vault, Vaults!Link(n, v) PROVE StoreInv'
  BY <1>3 DEF Vaults!Link, StoreInv
<1>4. ASSUME NEW n \in Name, NEW v \in Vault, Vaults!Write(n, v) PROVE StoreInv'
  <2>1. PICK d \in OwnContent[v] : stored' = [stored EXCEPT ![n] = d]
    BY <1>4 DEF Vaults!Write
  <2>2. d \in Document /\ d.vault = v
    BY <2>1, OwnFacts
  <2>3. v \in tenants[n] /\ UNCHANGED <<names, handles, tenants>>
    BY <1>4 DEF Vaults!Write
  <2>4. QED BY <2>1, <2>2, <2>3, HeldStays DEF StoreInv
<1>5. ASSUME NEW n \in Name, NEW v \in Vault, Vaults!Arrive(n, v) PROVE StoreInv'
  <2>1. PICK d \in OwnContent[v] : stored' = [stored EXCEPT ![n] = d]
    BY <1>5 DEF Vaults!Arrive
  <2>2. d \in Document /\ d.vault = v
    BY <2>1, OwnFacts
  <2>3. tenants' = [tenants EXCEPT ![n] = @ \cup {v}] /\ UNCHANGED <<names, handles>>
    BY <1>5 DEF Vaults!Arrive
  <2>4. /\ tenants' \in [Name -> SUBSET Vault] /\ v \in tenants'[n]
        /\ \A m \in Name : tenants[m] \subseteq tenants'[m]
    BY <2>3 DEF StoreInv
  <2>5. QED BY <2>1, <2>2, <2>3, <2>4, HeldStays
<1>6. ASSUME NEW v \in Vault, Vaults!Forget(v) PROVE StoreInv'
  BY <1>6 DEF Vaults!Forget, StoreInv
<1>7. ASSUME NEW n \in Name, Vaults!Destroy(n) PROVE StoreInv'
  <2>1. /\ stored' = [stored EXCEPT ![n] = Empty] /\ tenants' = [tenants EXCEPT ![n] = {}]
        /\ handles' = [v \in Vault |-> IF handles[v] = n THEN Gone ELSE handles[v]]
        /\ names' = names
    BY <1>7 DEF Vaults!Destroy
  <2>2. /\ handles' \in [Vault -> Name \cup {Gone, None}]
        /\ stored' \in [Name -> Document \cup {Empty, Removed}]
        /\ tenants' \in [Name -> SUBSET Vault]
    BY <2>1 DEF StoreInv
  <2>3. \A m \in Name : names'[m] # None => handles'[names'[m]] # None
    BY <2>1 DEF StoreInv
  <2>4. \A v \in Vault : handles'[v] \in Name => v \in tenants'[handles'[v]]
    BY <2>1 DEF StoreInv
  <2>5. \A m \in Name : stored'[m] \in Document => stored'[m].vault \in tenants'[m]
    BY <2>1 DEF StoreInv
  <2>6. QED BY <2>1, <2>2, <2>3, <2>4, <2>5 DEF StoreInv
<1>8. ASSUME NEW n \in Name, Vaults!Withdraw(n) PROVE StoreInv'
  <2>1. stored' = [stored EXCEPT ![n] = Removed] /\ UNCHANGED <<names, handles, tenants>>
    BY <1>8 DEF Vaults!Withdraw
  <2>2. QED BY <2>1, HeldStays DEF StoreInv
<1>9. QED BY <1>1, <1>2, <1>3, <1>4, <1>5, <1>6, <1>7, <1>8 DEF StoreStep, Vaults!Next

-----------------------------------------------------------------------------
\* The initial states, and the parts of a step.

LEMMA FreeFacts ==
  ASSUME NEW t
  PROVE  /\ CallFits(Free, t)
         /\ \A pc \in {"finishes", "answered"} : CallFits([Free EXCEPT !.pc = pc], t)
  BY RpcAssumption DEF Free, CallState, CallFits

LEMMA InitInv == Init => RpcInv
<1> SUFFICES ASSUME Init PROVE RpcInv
  OBVIOUS
<1> USE RpcAssumption
<1>1. /\ names \in [Name -> Vault \cup {None}] /\ handles \in [Vault -> Name \cup {None}]
      /\ tenants \in [Name -> SUBSET Vault]
      /\ stored \in [Name -> (UNION {OwnContent[v] : v \in Vault}) \cup {Empty, Removed}]
      /\ \A v \in Vault : handles[v] = None <=> \A n \in Name : names[n] # v
      /\ \A n \in Name :
           /\ names[n] # None => handles[names[n]] = n /\ names[n] \in tenants[n]
           /\ stored[n] \in (UNION {OwnContent[v] : v \in tenants[n]}) \cup {Empty, Removed}
  BY DEF Init, Vaults!Init
<1>2. ASSUME NEW n \in Name
      PROVE  /\ stored[n] \in Document \cup {Empty, Removed}
             /\ stored[n] \in Document => stored[n].vault \in tenants[n]
  <2>1. CASE stored[n] \in {Empty, Removed}
    BY <2>1
  <2>2. CASE stored[n] \notin {Empty, Removed}
    <3>1. stored[n] \in UNION {OwnContent[v] : v \in tenants[n]}
      BY <1>1, <2>2
    <3>2. PICK v \in tenants[n] : stored[n] \in OwnContent[v]
      BY <3>1
    <3>3. v \in Vault
      BY <1>1, <3>2
    <3>4. QED BY <3>2, <3>3, OwnFacts
  <2>3. QED BY <2>1, <2>2
<1>3. stored \in [Name -> Document \cup {Empty, Removed}]
  BY <1>1, <1>2
<1>4. ASSUME NEW v \in Vault, handles[v] \in Name PROVE v \in tenants[handles[v]]
  BY <1>1, <1>4
<1>5. StoreInv
  BY <1>1, <1>2, <1>3, <1>4 DEF StoreInv
<1>6. QED BY <1>5, FreeFacts DEF Init, RpcInv, Phase

\* A step of one call, which databases lose no tenant by.
LEMMA CallStep ==
  ASSUME RpcInv, NEW c \in Call, NEW x, CallFits(x, tenants'), call' = [call EXCEPT ![c] = x],
         phase' = phase, StoreStep, \A n \in Name : tenants[n] \subseteq tenants'[n]
  PROVE  StepIsOK
<1>1. StoreInv'
  BY StoreStepOK DEF RpcInv
<1>2. \A d \in Call : CallFits(call'[d], tenants')
  BY DEF RpcInv, CallFits
<1>3. QED BY <1>1, <1>2 DEF RpcInv, StepIsOK

\* One that leaves the vaults alone.
LEMMA CallOnly ==
  ASSUME RpcInv, NEW c \in Call, NEW x, CallFits(x, tenants), call' = [call EXCEPT ![c] = x],
         UNCHANGED <<phase, storeVars>>
  PROVE  StepIsOK
<1>1. StoreStep /\ tenants' = tenants
  BY DEF StoreStep, storeVars
<1>2. QED BY <1>1, CallStep

\* A step of the process, which may end the calls.
LEMMA ProcessStep ==
  ASSUME RpcInv, phase' \in Phase, UNCHANGED storeVars,
         call' = call \/ call' = [c \in Call |-> Free]
  PROVE  StepIsOK
<1>1. StoreStep /\ tenants' = tenants
  BY DEF StoreStep, storeVars
<1>2. StoreInv'
  BY <1>1, StoreStepOK DEF RpcInv
<1>3. \A c \in Call : CallFits(call'[c], tenants')
  BY <1>1, FreeFacts DEF RpcInv
<1>4. call' = [c \in Call |-> call'[c]]
  BY DEF RpcInv
<1>5. QED BY <1>1, <1>2, <1>3, <1>4 DEF RpcInv, StepIsOK

\* What others do to the vaults, while every call stays as it is.
LEMMA OtherStep ==
  ASSUME RpcInv, StoreStep, \A n \in Name : tenants[n] \subseteq tenants'[n],
         UNCHANGED <<phase, call>>
  PROVE  StepIsOK
<1>1. StoreInv'
  BY StoreStepOK DEF RpcInv
<1>2. \A c \in Call : CallFits(call'[c], tenants')
  BY DEF RpcInv, CallFits
<1>3. QED BY <1>1, <1>2 DEF RpcInv, StepIsOK

-----------------------------------------------------------------------------
\* Calls begin.

\* A vault that is held, and the handle that a call gets of it.
LEMMA HandleFacts ==
  ASSUME RpcInv, NEW n \in Name, names[n] # None
  PROVE  /\ names[n] \in Vault /\ handles[names[n]] \in Name \cup {Gone, None}
         /\ handles[names[n]] \in Name => names[n] \in tenants[handles[names[n]]]
  BY DEF RpcInv, StoreInv

\* A call that sets out to write what its vault has signed.
LEMMA WriterFits ==
  ASSUME NEW v \in Vault, NEW d \in Document, d.vault = v, NEW db \in Name \cup {Gone, None},
         NEW t, db \in Name => v \in t[db], NEW pc \in {"initializes", "writes"}
  PROVE  CallFits([Free EXCEPT !.pc = pc, !.vault = v, !.db = db, !.content = d], t)
  BY RpcAssumption DEF Free, CallState, CallFits

LEMMA BeginOK ==
  ASSUME RpcInv, NEW c \in Call, Begin(c)
  PROVE  StepIsOK
<1> USE RpcAssumption
<1>1. CASE Answered(c)
  BY <1>1, FreeFacts, CallOnly DEF Answered, Respond
<1>2. CASE Taken(c)
  BY <1>2, FreeFacts, CallOnly DEF Taken
<1>3. ASSUME NEW n \in Used, DeleteVault(c, n) PROVE StepIsOK
  <2> DEFINE db == handles[names[n]]
             x == [Free EXCEPT !.pc = "destroys", !.db = db]
  <2>1. names[n] \in Vault /\ db \in Name \cup {Gone, None}
    BY <1>3, HandleFacts DEF DeleteVault
  <2>2. StoreStep /\ tenants' = tenants
    BY <1>3, <2>1 DEF DeleteVault, StoreStep, Vaults!Next, Vaults!Forget
  <2>3. call' = [call EXCEPT ![c] = x] /\ phase' = phase
    BY <1>3 DEF DeleteVault, Enter
  <2> HIDE DEF db
  <2>4. CallFits(x, tenants)
    BY <2>1 DEF Free, CallState, CallFits
  <2> HIDE DEF x
  <2>5. QED BY <2>2, <2>3, <2>4, CallStep
<1>4. ASSUME NEW n \in Used, GetContent(c, n) PROVE StepIsOK
  <2> DEFINE v == names[n]
             db == handles[v]
             x == [Free EXCEPT !.pc = "reads", !.name = n, !.vault = v, !.db = db]
  <2>1. v \in Vault /\ db \in Name \cup {Gone, None} /\ (db \in Name => v \in tenants[db])
    BY <1>4, HandleFacts DEF GetContent
  <2>2. call' = [call EXCEPT ![c] = x] /\ UNCHANGED <<phase, storeVars>>
    BY <1>4 DEF GetContent, Enter
  <2> HIDE DEF v, db
  <2>3. CallFits(x, tenants)
    BY <2>1 DEF Free, CallState, CallFits
  <2> HIDE DEF x
  <2>4. QED BY <2>2, <2>3, CallOnly
<1>5. ASSUME NEW n \in Used, LinkVault(c, n) PROVE StepIsOK
  <2> DEFINE x == [Free EXCEPT !.pc = "links", !.name = n]
  <2>1. CallFits(x, tenants)
    BY DEF Free, CallState, CallFits
  <2>2. QED BY <1>5, <2>1, CallOnly DEF LinkVault, Enter
<1>6. ASSUME NEW n \in Used, NEW d \in Sent, SetContent(c, n, d) PROVE StepIsOK
  <2> DEFINE v == names[n]
             db == handles[v]
             x == [Free EXCEPT !.pc = "writes", !.vault = v, !.db = db, !.content = d]
  <2>1. v \in Vault /\ db \in Name \cup {Gone, None} /\ (db \in Name => v \in tenants[db])
    BY <1>6, HandleFacts DEF SetContent
  <2>2. d \in Document /\ d.vault = v
    BY <1>6, SignedByItsVault DEF SetContent, Sent
  <2>3. call' = [call EXCEPT ![c] = x] /\ UNCHANGED <<phase, storeVars>>
    BY <1>6 DEF SetContent, Enter
  <2> HIDE DEF v, db
  <2>4. CallFits(x, tenants)
    BY <2>1, <2>2, WriterFits
  <2> HIDE DEF x
  <2>5. QED BY <2>3, <2>4, CallOnly
<1>7. ASSUME NEW n \in Used, NEW v \in Vault, NEW d \in Sent, CreateVault(c, n, v, d)
      PROVE  StepIsOK
  <2> DEFINE x == [Free EXCEPT !.pc = "initializes", !.vault = v, !.db = n, !.content = d]
  <2>1. d \in Document /\ d.vault = v
    BY <1>7, SignedByItsVault DEF CreateVault, Sent
  <2>2. /\ n \in Name /\ StoreStep
        /\ v \in tenants'[n] /\ \A m \in Name : tenants[m] \subseteq tenants'[m]
    BY <1>7 DEF CreateVault, StoreStep, Vaults!Next, Vaults!Open, RpcInv, StoreInv
  <2>3. call' = [call EXCEPT ![c] = x] /\ phase' = phase
    BY <1>7 DEF CreateVault, Enter
  <2>4. CallFits(x, tenants')
    BY <2>1, <2>2, WriterFits
  <2> HIDE DEF x
  <2>5. QED BY <2>2, <2>3, <2>4, CallStep
<1>8. CASE Unreadable(c)
  BY <1>8, ProcessStep DEF Unreadable, Cut, Phase
<1>9. QED BY <1>1, <1>2, <1>3, <1>4, <1>5, <1>6, <1>7, <1>8 DEF Begin

-----------------------------------------------------------------------------
\* Calls go on.

\* What a call writes is a tenant's own.
LEMMA StoreOK ==
  ASSUME RpcInv, NEW c \in Call, call[c].pc \in {"fills", "writes"}, Store(c)
  PROVE  StoreStep /\ tenants' = tenants
<1> DEFINE v == call[c].vault
           d == call[c].content
           db == call[c].db
<1>1. CallFits(call[c], tenants)
  BY DEF RpcInv
<1>2. db \in Name /\ stored[db] # Removed /\ stored' = [stored EXCEPT ![db] = d]
      /\ UNCHANGED <<names, handles, tenants>>
  BY DEF Store
<1>3. v \in tenants[db] /\ v \in Vault /\ d \in Document /\ d.vault = v
  BY <1>1, <1>2 DEF CallFits, RpcInv, StoreInv
<1> HIDE DEF v, d, db
<1>4. Vaults!Write(db, v)
  BY <1>2, <1>3, OwnFacts DEF Vaults!Write
<1>5. QED BY <1>2, <1>3, <1>4 DEF StoreStep, Vaults!Next

LEMMA DestroysOK ==
  ASSUME RpcInv, NEW c \in Call, Destroys(c)
  PROVE  StepIsOK
<1> DEFINE n == call[c].db
<1>1. /\ n \in Name /\ Vaults!Destroy(n) /\ phase' = phase
      /\ tenants' = [tenants EXCEPT ![n] = {}]
  BY DEF Destroys, Vaults!Destroy
<1>2. \A d \in Call : call'[d] = IF d = c THEN [Free EXCEPT !.pc = "answered"]
                                ELSE IF call[d].db = n THEN [call[d] EXCEPT !.db = Gone]
                                ELSE call[d]
  BY DEF Destroys
<1>3. call' = [d \in Call |-> call'[d]]
  BY DEF Destroys
<1> HIDE DEF n
<1>4. StoreStep /\ \A m \in Name \ {n} : tenants'[m] = tenants[m]
  BY <1>1 DEF StoreStep, Vaults!Next, RpcInv, StoreInv
<1>5. ASSUME NEW d \in Call PROVE CallFits(call'[d], tenants')
  <2>1. CASE d = c
    BY <1>2, <2>1, FreeFacts
  <2>2. CallFits(call[d], tenants)
    BY DEF RpcInv
  <2>3. CASE d # c /\ call[d].db = n
    <3>1. call'[d] = [call[d] EXCEPT !.db = Gone]
      BY <1>2, <2>3
    <3>2. QED BY <2>2, <3>1, RpcAssumption DEF CallFits, CallState
  <2>4. CASE d # c /\ call[d].db # n
    <3>1. call'[d] = call[d]
      BY <1>2, <2>4
    <3>2. QED BY <1>4, <2>2, <2>4, <3>1 DEF CallFits
  <2>5. QED BY <2>1, <2>3, <2>4
<1>6. StoreInv'
  BY <1>4, StoreStepOK DEF RpcInv
<1>7. QED BY <1>1, <1>3, <1>4, <1>5, <1>6 DEF RpcInv, StepIsOK

LEMMA ResumeOK ==
  ASSUME RpcInv, NEW c \in Call, Resume(c)
  PROVE  StepIsOK
<1> USE RpcAssumption
<1>f. CallFits(call[c], tenants) /\ call[c] \in CallState
  BY DEF RpcInv, CallFits
<1>1. CASE InitializeReads(c)
  <2> DEFINE x == [call[c] EXCEPT !.pc = "fills"]
  <2>1. CASE Respond(c)
    BY <1>1, <2>1, FreeFacts, CallOnly DEF InitializeReads, Respond
  <2>2. CASE call' = [call EXCEPT ![c].pc = "fills"]
    <3>1. CallFits(x, tenants)
      BY <1>f, <1>1 DEF InitializeReads, Resumed, CallState, CallFits
    <3>2. call' = [call EXCEPT ![c] = x]
      BY <2>2 DEF RpcInv
    <3> HIDE DEF x
    <3>3. QED BY <1>1, <3>1, <3>2, CallOnly DEF InitializeReads
  <2>3. QED BY <1>1, <2>1, <2>2 DEF InitializeReads
<1>2. CASE InitializeWrites(c) \/ SetContentEnds(c)
  <2>1. StoreStep /\ tenants' = tenants
    BY <1>2, StoreOK DEF InitializeWrites, SetContentEnds, Resumed
  <2>2. PICK pc \in {"finishes", "answered"} : call' = [call EXCEPT ![c] = [Free EXCEPT !.pc = pc]]
    BY <1>2 DEF InitializeWrites, SetContentEnds, Enter, Respond
  <2>3. phase' = phase
    BY <1>2 DEF InitializeWrites, SetContentEnds
  <2>4. CallFits([Free EXCEPT !.pc = pc], tenants')
    BY FreeFacts
  <2>5. QED BY <2>1, <2>2, <2>3, <2>4, CallStep
<1>3. CASE WriteFails(c) \/ Finishes(c) \/ DestroyFails(c) \/ NoContent(c) \/ LinkFails(c)
  BY <1>3, FreeFacts, CallOnly
  DEF WriteFails, Finishes, DestroyFails, NoContent, LinkFails, Respond
<1>4. CASE GetContentEnds(c)
  <2> DEFINE db == call[c].db
             a == [key |-> call[c].vault, content |-> stored[db], from |-> tenants[db]]
             x == [Free EXCEPT !.pc = "answered", !.answer = a]
  <2>1. db \in Name /\ stored[db] \in Document /\ call[c].pc = "reads"
    BY <1>4 DEF GetContentEnds, Resumed
  <2>2. /\ tenants[db] \subseteq Vault /\ call[c].vault \in tenants[db]
        /\ stored[db].vault \in tenants[db]
    BY <1>f, <2>1 DEF CallFits, RpcInv, StoreInv
  <2>3. a \in Answer /\ a # None /\ a.key \in a.from /\ a.content.vault \in a.from
    BY <2>1, <2>2 DEF Answer
  <2>4. call' = [call EXCEPT ![c] = x] /\ UNCHANGED <<phase, storeVars>>
    BY <1>4 DEF GetContentEnds, AnswerContent
  <2> HIDE DEF a
  <2>5. CallFits(x, tenants)
    BY <2>3 DEF Free, CallState, CallFits
  <2> HIDE DEF x
  <2>6. QED BY <2>4, <2>5, CallOnly
<1>5. ASSUME NEW v \in Vault, LinkFound(c, v) PROVE StepIsOK
  <2> DEFINE n == call[c].name
  <2>1. n \in Name
    BY <1>f, <1>5 DEF LinkFound, Resumed, CallState, CallFits
  <2>2. Vaults!Link(n, v) \/ Vaults!Open(n, v)
    BY <1>5 DEF LinkFound
  <2> HIDE DEF n
  <2>3. StoreStep
    BY <2>1, <2>2 DEF StoreStep, Vaults!Next
  <2>4. \A m \in Name : tenants[m] \subseteq tenants'[m]
    BY <2>1, <2>2 DEF Vaults!Link, Vaults!Open, RpcInv, StoreInv
  <2>5. call' = [call EXCEPT ![c] = [Free EXCEPT !.pc = "finishes"]] /\ phase' = phase
    BY <1>5 DEF LinkFound, Enter
  <2>6. QED BY <2>3, <2>4, <2>5, FreeFacts, CallStep
<1>6. QED BY <1>1, <1>2, <1>3, <1>4, <1>5, DestroysOK DEF Resume

-----------------------------------------------------------------------------

LEMMA ReplicationOK ==
  ASSUME RpcInv, NEW n \in Used, Withdrawn(n) \/ \E d \in Document : Replicated(n, d)
  PROVE  StepIsOK
<1>1. n \in Name
  BY RpcAssumption
<1>2. CASE Withdrawn(n)
  <2>1. StoreStep /\ tenants' = tenants
    BY <1>1, <1>2 DEF Withdrawn, StoreStep, Vaults!Next, Vaults!Withdraw
  <2>2. QED BY <1>2, <2>1, OtherStep DEF Withdrawn
<1>3. ASSUME NEW d \in Document, Replicated(n, d) PROVE StepIsOK
  <2>1. d.vault \in Vault /\ d \in OwnContent[d.vault]
    BY OwnFacts DEF Document
  <2>2. /\ tenants[n] # {} /\ stored' = [stored EXCEPT ![n] = d]
        /\ tenants' = [tenants EXCEPT ![n] = @ \cup {d.vault}]
        /\ UNCHANGED <<phase, names, handles, call>>
    BY <1>3 DEF Replicated
  <2>3. Vaults!Arrive(n, d.vault)
    BY <2>1, <2>2 DEF Vaults!Arrive
  <2>4. StoreStep
    BY <1>1, <2>1, <2>3 DEF StoreStep, Vaults!Next
  <2>5. \A m \in Name : tenants[m] \subseteq tenants'[m]
    BY <2>2 DEF RpcInv, StoreInv
  <2>6. QED BY <2>2, <2>4, <2>5, OtherStep
<1>4. QED BY <1>2, <1>3

\* Every step.
LEMMA NextInv == RpcInv /\ [Next]_vars => StepIsOK
<1> SUFFICES ASSUME RpcInv, [Next]_vars PROVE StepIsOK
  OBVIOUS
<1>1. CASE Start \/ StartFails \/ Stop \/ Shutdown \/ Ended \/ UNCHANGED vars
  <2>1. /\ phase' \in Phase /\ UNCHANGED storeVars
        /\ call' = call \/ call' = [c \in Call |-> Free]
    BY <1>1 DEF Start, StartFails, Cut, Stop, Shutdown, Ended, vars, Phase, RpcInv
  <2>2. QED BY <2>1, ProcessStep
<1>2. QED BY <1>1, BeginOK, ResumeOK, ReplicationOK DEF Next

-----------------------------------------------------------------------------
\* What the invariant says of what is stored and answered.
LEMMA InvOpens == RpcInv => TypeOK /\ StoredOpens /\ AnswersMatch
<1> SUFFICES ASSUME RpcInv PROVE TypeOK /\ StoredOpens /\ AnswersMatch
  OBVIOUS
<1>1. TypeOK
  BY DEF RpcInv, StoreInv, CallFits, Phase, TypeOK
<1>2. ASSUME NEW n \in Name, stored[n] \in Document
      PROVE  LET v == stored[n].vault
                 b == Bytes(stored[n])
                 legible == stored[n].by = "cs" \/ TextOf[v] \in Ascii
             IN  /\ v \in tenants[n]
                 /\ JsOpens(v, PasswordOf[v], b) /\ CsOpens(v, PasswordOf[v], b)
                 /\ JsContent(b) = [key |-> Key(v), text |-> TextOf[v]]
                 /\ CsContent(b) = [key |-> Key(v), text |-> IF legible THEN TextOf[v] ELSE Garbled]
  <2> DEFINE d == stored[n]
             v == d.vault
             p == PasswordOf[v]
             t == TextOf[v]
             b == Bytes(d)
  <2>1. d \in Document /\ v \in Vault /\ p \in Password /\ t \in Text /\ v \in tenants[n]
    BY <1>2, RpcAssumption DEF RpcInv, StoreInv, Document
  <2>2. b = IF d.by = "js" THEN JsSeal(v, p, t) ELSE CsSeal(v, p, t)
    BY Zenon DEF Bytes
  <2>3. d.by \in {"js", "cs"}
    BY <2>1 DEF Document
  <2> HIDE DEF d, v, p, t, b
  <2>4. /\ JsOpens(v, p, b) /\ CsOpens(v, p, b)
        /\ JsContent(b) = [key |-> Key(v), text |-> t]
    BY <2>1, <2>2, DocumentsOpen, Zenon
  <2>5. CsContent(b) = [key |-> Key(v), text |-> IF d.by = "cs" \/ t \in Ascii THEN t ELSE Garbled]
    <3>1. CASE d.by = "cs"
      <4>1. b = CsSeal(v, p, t)
        BY <2>2, <3>1
      <4>2. CsContent(b) = [key |-> Key(v), text |-> t]
        BY <2>1, <4>1, DocumentsOpen, Zenon
      <4>3. QED BY <3>1, <4>2
    <3>2. CASE d.by = "js"
      <4>1. b = JsSeal(v, p, t)
        BY <2>2, <3>2
      <4>2. CsContent(b) = [key |-> Key(v), text |-> IF t \in Ascii THEN t ELSE Garbled]
        BY <2>1, <4>1, DocumentsOpen, Zenon
      <4>3. QED BY <3>2, <4>2
    <3>3. QED BY <2>3, <3>1, <3>2
  <2>6. QED BY <2>1, <2>4, <2>5, Zenon DEF d, v, p, t, b
<1>3. ASSUME NEW c \in Call, call[c].answer # None, NEW v \in Vault, call[c].answer.from = {v}
      PROVE  CsValidate(CsDeserialize(Bytes(call[c].answer.content)), call[c].answer.key)
  <2>1. call[c].answer \in Answer
    BY <1>3 DEF RpcInv, CallFits, CallState
  <2>2. call[c].answer.key = v /\ call[c].answer.content.vault = v
    BY <1>3 DEF RpcInv, CallFits
  <2>3. call[c].answer.content \in Document
    BY <2>1 DEF Answer
  <2>4. QED BY <2>2, <2>3, SignedByItsVault
<1>4. QED BY <1>1, <1>2, <1>3, Zenon DEF StoredOpens, AnswersMatch

\* Whichever client or shell wrote it, and however calls, two-step deletes,
\* shared databases and peers interleave: what a database holds is of a vault it
\* was opened for or was brought content of, and opens on both sides with that
\* vault's password; and a client gets a content with the key it is signed with,
\* unless it was read from a database that had more than one vault's
\* (CommandServer.ts:113-151, rpc.ts:69-197).
THEOREM RpcInvariant == Spec => [](TypeOK /\ StoredOpens /\ AnswersMatch)
<1>1. RpcInv /\ [Next]_vars => RpcInv'
  BY NextInv DEF StepIsOK
<1>2. QED BY <1>1, InitInv, InvOpens, PTL DEF Spec

\* The calls of all clients, with signals, two-step deletes, and content that
\* peers bring and remove between their steps, change the vaults as VaultStore
\* promises: no call takes a name or a vault that came to be taken while it
\* waited, and what it writes is signed by a tenant of a database that is still
\* there (rpc.ts:69-197, CommandServer.ts:35-180).
THEOREM ServerKeepsStore == Spec => KeepsVaults
<1>1. Init => Vaults!Init
  BY DEF Init
<1>2. RpcInv /\ [Next]_vars => RpcInv' /\ [Vaults!Next]_(Vaults!vars)
  BY NextInv DEF StepIsOK, StoreStep, Vaults!vars
<1>3. QED BY <1>1, <1>2, InitInv, PTL DEF Spec, KeepsVaults, Vaults!Spec
=============================================================================
