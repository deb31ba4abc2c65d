----------------------------- MODULE Codec_proofs -----------------------------
(***************************************************************************)
(* Certificates of any number of signers, and hashes and length fields of  *)
(* any size: what is formed from verified votes is valid, what is valid    *)
(* stands for a quorum, and what is decoded is what was encoded.           *)
(***************************************************************************)
EXTENDS Codec, SequenceTheorems, FiniteSetTheorems, TLAPS

-----------------------------------------------------------------------------
(* Sequences *)

LEMMA SequenceOf ==
  ASSUME NEW s, IsSequence(s)
  PROVE  /\ s \in Seq(ToSet(s))
         /\ Len(s) \in Nat
         /\ DOMAIN s = 1 .. Len(s)
<1>1. Len(s) \in Nat /\ s = [i \in 1 .. Len(s) |-> s[i]]
  BY DEF IsSequence
<1>2. DOMAIN s = 1 .. Len(s)
  BY <1>1
<1>3. \A i \in 1 .. Len(s) : s[i] \in ToSet(s)
  BY <1>2 DEF ToSet
<1>4. s \in [1 .. Len(s) -> ToSet(s)]
  BY <1>1, <1>3
<1> QED
  BY <1>1, <1>2, <1>4, SeqDef

LEMMA ASequence ==
  ASSUME NEW S, NEW s \in Seq(S)
  PROVE  IsSequence(s)
  BY LenProperties DEF IsSequence

\* The cells of s are in d, after the first o.
At(d, o, s) ==
  /\ o \in Nat /\ Len(s) \in Nat /\ o + Len(s) <= Len(d)
  /\ \A i \in 1 .. Len(s) : d[o + i] = s[i]

LEMMA Concat ==
  ASSUME NEW s, IsSequence(s), NEW t, IsSequence(t)
  PROVE  /\ IsSequence(s \o t)
         /\ Len(s \o t) = Len(s) + Len(t)
         /\ At(s \o t, 0, s)
         /\ At(s \o t, Len(s), t)
<1> DEFINE S == ToSet(s) \cup ToSet(t)
<1>1. s \in Seq(S) /\ t \in Seq(S) /\ Len(s) \in Nat /\ Len(t) \in Nat
  BY SequenceOf, SeqMonotonic
<1> HIDE DEF S
<1>2. /\ s \o t \in Seq(S)
      /\ Len(s \o t) = Len(s) + Len(t)
      /\ \A i \in 1 .. Len(s) + Len(t) : (s \o t)[i] =
           IF i <= Len(s) THEN s[i] ELSE t[i - Len(s)]
  BY <1>1, ConcatProperties
<1>3. At(s \o t, 0, s)
  BY <1>1, <1>2 DEF At
<1>4. ASSUME NEW i \in 1 .. Len(t)
      PROVE  (s \o t)[Len(s) + i] = t[i]
  <2>1. /\ Len(s) + i \in 1 .. Len(s) + Len(t)
        /\ ~(Len(s) + i <= Len(s))
        /\ (Len(s) + i) - Len(s) = i
    BY <1>1
  <2> QED
    BY <1>2, <2>1
<1>5. At(s \o t, Len(s), t)
  BY <1>1, <1>2, <1>4 DEF At
<1> QED
  BY <1>2, <1>3, <1>5, ASequence

\* What is at some place of d is still there when d is extended.
LEMMA Extend ==
  ASSUME NEW d, IsSequence(d), NEW t, IsSequence(t), NEW s, NEW o, At(d, o, s)
  PROVE  At(d \o t, o, s)
<1>1. /\ o \in Nat /\ Len(s) \in Nat /\ o + Len(s) <= Len(d)
      /\ Len(d) \in Nat /\ Len(t) \in Nat
  BY SequenceOf DEF At
<1>2. Len(d \o t) = Len(d) + Len(t) /\ At(d \o t, 0, d)
  BY Concat
<1>3. ASSUME NEW i \in 1 .. Len(s)
      PROVE  (d \o t)[o + i] = s[i]
  <2>1. o + i \in 1 .. Len(d) /\ 0 + (o + i) = o + i
    BY <1>1
  <2>2. (d \o t)[o + i] = d[o + i]
    BY <1>2, <2>1 DEF At
  <2> QED
    BY <2>2 DEF At
<1> QED
  BY <1>1, <1>2, <1>3 DEF At

LEMMA Part ==
  ASSUME NEW s, IsSequence(s), NEW m \in 1 .. Len(s) + 1, NEW n \in m - 1 .. Len(s)
  PROVE  /\ IsSequence(SubSeq(s, m, n))
         /\ Len(SubSeq(s, m, n)) = n - m + 1
         /\ \A i \in 1 .. n - m + 1 : SubSeq(s, m, n)[i] = s[m + i - 1]
<1> DEFINE S == ToSet(s)
<1>1. s \in Seq(S) /\ Len(s) \in Nat /\ DOMAIN s = 1 .. Len(s)
  BY SequenceOf
<1>2. \A i \in m .. n : s[i] \in S
  BY <1>1 DEF ToSet
<1> HIDE DEF S
<1>3. m \in Int /\ n \in Int
  BY <1>1
<1>4. /\ SubSeq(s, m, n) \in Seq(S)
      /\ Len(SubSeq(s, m, n)) = IF m <= n THEN n - m + 1 ELSE 0
      /\ \A i \in 1 .. n - m + 1 : SubSeq(s, m, n)[i] = s[m + i - 1]
  BY <1>2, <1>3, SubSeqProperties
<1>5. (IF m <= n THEN n - m + 1 ELSE 0) = n - m + 1
  BY <1>1
<1> QED
  BY <1>4, <1>5, ASequence

LEMMA Equal ==
  ASSUME NEW s, IsSequence(s), NEW t, IsSequence(t),
         Len(s) = Len(t), \A i \in 1 .. Len(s) : s[i] = t[i]
  PROVE  s = t
  BY DEF IsSequence

LEMMA Tuples ==
  ASSUME NEW a, NEW b, NEW c, NEW d
  PROVE  /\ IsSequence(<<>>) /\ Len(<<>>) = 0
         /\ IsSequence(<<a>>) /\ Len(<<a>>) = 1 /\ <<a>>[1] = a
         /\ IsSequence(<<a, b>>) /\ Len(<<a, b>>) = 2 /\ <<a, b>>[1] = a /\ <<a, b>>[2] = b
         /\ IsSequence(<<a, b, c>>) /\ Len(<<a, b, c>>) = 3
         /\ <<a, b, c>>[1] = a /\ <<a, b, c>>[2] = b /\ <<a, b, c>>[3] = c
         /\ IsSequence(<<a, b, c, d>>) /\ Len(<<a, b, c, d>>) = 4
         /\ <<a, b, c, d>>[1] = a /\ <<a, b, c, d>>[2] = b
         /\ <<a, b, c, d>>[3] = c /\ <<a, b, c, d>>[4] = d
<1> DEFINE S == {a, b, c, d}
<1>1. /\ <<>> \in Seq(S) /\ <<a>> \in Seq(S) /\ <<a, b>> \in Seq(S)
      /\ <<a, b, c>> \in Seq(S) /\ <<a, b, c, d>> \in Seq(S)
  OBVIOUS
<1> HIDE DEF S
<1>2. /\ IsSequence(<<>>) /\ IsSequence(<<a>>) /\ IsSequence(<<a, b>>)
      /\ IsSequence(<<a, b, c>>) /\ IsSequence(<<a, b, c, d>>)
  BY <1>1, ASequence
<1> QED
  BY <1>2

LEMMA FrontOf ==
  ASSUME NEW s, IsSequence(s), NEW n \in 0 .. Len(s)
  PROVE  /\ IsSequence(SubSeq(s, 1, n))
         /\ Len(SubSeq(s, 1, n)) = n
         /\ \A i \in 1 .. n : SubSeq(s, 1, n)[i] = s[i]
<1>1. Len(s) \in Nat
  BY SequenceOf
<1>2. 1 \in 1 .. Len(s) + 1 /\ n \in 1 - 1 .. Len(s) /\ n - 1 + 1 = n
  BY <1>1
<1>3. /\ IsSequence(SubSeq(s, 1, n))
      /\ Len(SubSeq(s, 1, n)) = n - 1 + 1
      /\ \A i \in 1 .. n - 1 + 1 : SubSeq(s, 1, n)[i] = s[1 + i - 1]
  BY <1>2, Part
<1> QED
  BY <1>2, <1>3

LEMMA AllAfter ==
  ASSUME NEW s, IsSequence(s), NEW n \in 0 .. Len(s)
  PROVE  /\ IsSequence(From(s, n + 1))
         /\ Len(From(s, n + 1)) = Len(s) - n
         /\ \A i \in 1 .. Len(s) - n : From(s, n + 1)[i] = s[n + i]
<1> DEFINE l == Len(s)
           m == n + 1
<1>1. l \in Nat /\ n \in Nat /\ m \in 1 .. l + 1 /\ l \in m - 1 .. l /\ l - m + 1 = l - n
  BY SequenceOf
<1>2. \A i \in 1 .. l - n : m + i - 1 = n + i
  BY <1>1
<1>3. From(s, n + 1) = SubSeq(s, m, l)
  BY DEF From
<1>4. l = Len(s)
  OBVIOUS
<1> HIDE DEF l, m
<1>5. /\ IsSequence(SubSeq(s, m, l))
      /\ Len(SubSeq(s, m, l)) = l - m + 1
      /\ \A i \in 1 .. l - m + 1 : SubSeq(s, m, l)[i] = s[m + i - 1]
  BY <1>1, <1>4, Part
<1> QED
  BY <1>1, <1>2, <1>3, <1>4, <1>5

\* Of d, which begins with head, what follows it is cut where d is cut.
LEMMA Rest ==
  ASSUME NEW head, IsSequence(head), NEW rest, IsSequence(rest),
         NEW n \in 0 .. Len(head \o rest)
  PROVE  LET p == SubSeq(head \o rest, 1, n)
         IN  /\ Len(p) = n
             /\ \A i \in 1 .. Len(head) : i <= n => p[i] = head[i]
             /\ Len(head) <= n =>
                  /\ n - Len(head) \in 0 .. Len(rest)
                  /\ From(p, Len(head) + 1) = SubSeq(rest, 1, n - Len(head))
<1> DEFINE d == head \o rest
           l == Len(head)
           p == SubSeq(d, 1, n)
<1>1. /\ l \in Nat /\ Len(rest) \in Nat /\ IsSequence(d) /\ Len(d) = l + Len(rest)
      /\ At(d, 0, head) /\ At(d, l, rest)
  BY Concat, SequenceOf
<1> HIDE DEF d
<1>2. n \in 0 .. Len(d)
  BY DEF d
<1>3. p = SubSeq(d, 1, n)
  OBVIOUS
<1> HIDE DEF p
<1>4. /\ IsSequence(SubSeq(d, 1, n))
      /\ Len(SubSeq(d, 1, n)) = n
      /\ \A i \in 1 .. n : SubSeq(d, 1, n)[i] = d[i]
  BY <1>1, <1>2, FrontOf
<1>5. IsSequence(p) /\ Len(p) = n /\ \A i \in 1 .. n : p[i] = d[i]
  BY <1>3, <1>4
<1>6. ASSUME NEW i \in 1 .. l, i <= n
      PROVE  p[i] = head[i]
  <2>1. i \in 1 .. n /\ 0 + i = i
    BY <1>1, <1>2, <1>6
  <2> QED
    BY <2>1, <1>1, <1>5 DEF At
<1>7. ASSUME l <= n
      PROVE  /\ n - l \in 0 .. Len(rest)
             /\ From(p, l + 1) = SubSeq(rest, 1, n - l)
  <2>1. n - l \in 0 .. Len(rest)
    BY <1>1, <1>2, <1>7
  <2>2. l \in 0 .. Len(p)
    BY <1>1, <1>2, <1>5, <1>7
  <2>3. /\ IsSequence(From(p, l + 1))
        /\ Len(From(p, l + 1)) = Len(p) - l
        /\ \A i \in 1 .. Len(p) - l : From(p, l + 1)[i] = p[l + i]
    BY <1>5, <2>2, AllAfter
  <2>5. /\ IsSequence(SubSeq(rest, 1, n - l))
        /\ Len(SubSeq(rest, 1, n - l)) = n - l
        /\ \A i \in 1 .. n - l : SubSeq(rest, 1, n - l)[i] = rest[i]
    BY <2>1, FrontOf
  <2>7. ASSUME NEW i \in 1 .. n - l
        PROVE  From(p, l + 1)[i] = SubSeq(rest, 1, n - l)[i]
    <3>1. l + i \in 1 .. n /\ i \in 1 .. Len(rest)
      BY <1>1, <1>2, <2>1
    <3>2. From(p, l + 1)[i] = d[l + i]
      BY <2>3, <3>1, <1>5
    <3>3. SubSeq(rest, 1, n - l)[i] = rest[i]
      BY <2>5
    <3> QED
      BY <3>1, <3>2, <3>3, <1>1 DEF At
  <2> QED
    <3>1. Len(From(p, l + 1)) = n - l
      BY <2>3, <1>5, Zenon
    <3> QED
      BY <2>1, <2>3, <2>5, <2>7, <3>1, Equal, Zenon
<1> QED
  BY <1>5, <1>6, <1>7 DEF p, d

LEMMA WholeOf ==
  ASSUME NEW s, IsSequence(s)
  PROVE  SubSeq(s, 1, Len(s)) = s
  BY SequenceOf, SubSeqFull

-----------------------------------------------------------------------------
(* Encodings *)

LEMMA ShortFits ==
  ASSUME NEW n \in Nat, n < Wide
  PROVE  Short(n) = n
  BY CodecAssumption DEF Short

LEMMA HashBytesCells ==
  ASSUME NEW hash
  PROVE  /\ IsSequence(HashBytes(hash))
         /\ Len(HashBytes(hash)) = HashCells
         /\ HashBytes(hash)[1] = hash
<1>1. HashBytes(hash) \in Seq({hash}) /\ Len(HashBytes(hash)) = HashCells
  BY CodecAssumption DEF HashBytes
<1>2. HashBytes(hash)[1] = hash
  BY CodecAssumption DEF HashBytes
<1>3. IsSequence(HashBytes(hash))
  BY <1>1, ASequence
<1> QED
  BY <1>1, <1>2, <1>3

\* A certificate as it is formed or received for Ed25519.
Encodable(qc) ==
  /\ qc = [ view |-> qc.view, node |-> qc.node, signers |-> qc.signers,
            timestamps |-> qc.timestamps, cryptoScheme |-> qc.cryptoScheme,
            aggregateSignature |-> qc.aggregateSignature ]
  /\ IsSequence(qc.signers) /\ IsSequence(qc.timestamps)
  /\ IsSequence(qc.aggregateSignature)
  /\ Len(qc.signers) = Len(qc.timestamps)
  /\ Len(qc.signers) < Wide \/ Len(qc.aggregateSignature) = 1 + 2 * Len(qc.signers)

LEMMA OneIn ==
  1 \in 1 .. 1 /\ 1 \in 1 .. 2 /\ 2 \in 1 .. 2
  OBVIOUS

LEMMA Sums ==
  ASSUME NEW h \in Nat, NEW k \in Nat, NEW a \in Nat
  PROVE  /\ h + 1 + k + k = h + 2 * k + 1 /\ h + 1 + k + k + 2 = h + 2 * k + 3
         /\ h + 1 + k + k + 2 + 1 = h + 2 * k + 4
         /\ h + 1 + k + k + 2 + 1 + a = h + 2 * k + 4 + a
         /\ h + 2 * k + 1 + 2 = h + 2 * k + 3 /\ h + 2 * k + 3 + 1 = h + 2 * k + 4
  OBVIOUS

\* Where the parts of a certificate are in its encoding.
LEMMA QCCells ==
  ASSUME NEW qc, Encodable(qc), Len(qc.aggregateSignature) < Wide
  PROVE  LET h == 2 + HashCells
             k == Len(qc.signers)
             a == Len(qc.aggregateSignature)
             d == QCBytes(qc)
         IN  /\ h \in Nat /\ k \in Nat /\ a \in Nat
             /\ IsSequence(d) /\ Len(d) = h + 2 * k + 4 + a
             /\ d[1] = qc.view /\ d[2] = HashCells /\ d[3] = qc.node
             /\ d[h + 1] = k
             /\ At(d, h + 1, qc.signers)
             /\ At(d, h + 1 + k, qc.timestamps)
             /\ d[h + 2 * k + 3] = qc.cryptoScheme
             /\ d[h + 2 * k + 4] = a
             /\ At(d, h + 2 * k + 4, qc.aggregateSignature)
<1> DEFINE h == 2 + HashCells
           k == Len(qc.signers)
           a == Len(qc.aggregateSignature)
           d == QCBytes(qc)
<1> DEFINE p1 == <<qc.view, Short(HashCells)>>
           p2 == HashBytes(qc.node)
           p3 == <<Short(k)>>
           p4 == qc.signers
           p5 == qc.timestamps
           p6 == <<1, qc.cryptoScheme>>
           p7 == <<Short(a)>>
           p8 == qc.aggregateSignature
<1>1. /\ k \in Nat /\ a \in Nat /\ HashCells \in Nat /\ Wide \in Nat
      /\ HashCells >= 1 /\ HashCells < Wide
      /\ IsSequence(p4) /\ Len(p4) = k
      /\ IsSequence(p5) /\ Len(p5) = k
      /\ IsSequence(p8) /\ Len(p8) = a /\ a < Wide
      /\ k < Wide
  BY SequenceOf, CodecAssumption DEF Encodable
<1>2. Short(HashCells) = HashCells /\ Short(k) = k /\ Short(a) = a
  BY <1>1, ShortFits
<1>3. /\ IsSequence(p1) /\ Len(p1) = 2 /\ p1[1] = qc.view /\ p1[2] = HashCells
      /\ IsSequence(p2) /\ Len(p2) = HashCells /\ p2[1] = qc.node
      /\ IsSequence(p3) /\ Len(p3) = 1 /\ p3[1] = k
      /\ IsSequence(p6) /\ Len(p6) = 2 /\ p6[2] = qc.cryptoScheme
      /\ IsSequence(p7) /\ Len(p7) = 1 /\ p7[1] = a
  BY <1>2, Tuples, HashBytesCells
<1> HIDE DEF p1, p2, p3, p4, p5, p6, p7, p8
<1> DEFINE d2 == p1 \o p2
           d3 == d2 \o p3
           d4 == d3 \o p4
           d5 == d4 \o p5
           d6 == d5 \o p6
           d7 == d6 \o p7
<1>4. d = d7 \o p8
  BY DEF QCBytes, p1, p2, p3, p4, p5, p6, p7, p8
<1>5. h = 2 + HashCells
  OBVIOUS
<1> HIDE DEF d, h, k, a
<1>6. /\ IsSequence(p1) /\ IsSequence(p2) /\ IsSequence(p3) /\ IsSequence(p4)
      /\ IsSequence(p5) /\ IsSequence(p6) /\ IsSequence(p7) /\ IsSequence(p8)
  BY <1>1, <1>3
<1>7. /\ IsSequence(d2) /\ Len(d2) = Len(p1) + Len(p2)
      /\ At(d2, 0, p1) /\ At(d2, Len(p1), p2)
  BY <1>6, Concat, Extend, Zenon
<1> HIDE DEF d2
<1>8. /\ IsSequence(d3) /\ Len(d3) = Len(d2) + Len(p3)
      /\ At(d3, 0, p1) /\ At(d3, Len(p1), p2) /\ At(d3, Len(d2), p3)
  BY <1>6, <1>7, Concat, Extend, Zenon
<1> HIDE DEF d3
<1>9. /\ IsSequence(d4) /\ Len(d4) = Len(d3) + Len(p4)
      /\ At(d4, 0, p1) /\ At(d4, Len(p1), p2) /\ At(d4, Len(d2), p3)
      /\ At(d4, Len(d3), p4)
  BY <1>6, <1>8, Concat, Extend, Zenon
<1> HIDE DEF d4
<1>10. /\ IsSequence(d5) /\ Len(d5) = Len(d4) + Len(p5)
      /\ At(d5, 0, p1) /\ At(d5, Len(p1), p2) /\ At(d5, Len(d2), p3)
      /\ At(d5, Len(d3), p4) /\ At(d5, Len(d4), p5)
  BY <1>6, <1>9, Concat, Extend, Zenon
<1> HIDE DEF d5
<1>11. /\ IsSequence(d6) /\ Len(d6) = Len(d5) + Len(p6)
      /\ At(d6, 0, p1) /\ At(d6, Len(p1), p2) /\ At(d6, Len(d2), p3)
      /\ At(d6, Len(d3), p4) /\ At(d6, Len(d4), p5) /\ At(d6, Len(d5), p6)
  BY <1>6, <1>10, Concat, Extend, Zenon
<1> HIDE DEF d6
<1>12. /\ IsSequence(d7) /\ Len(d7) = Len(d6) + Len(p7)
      /\ At(d7, 0, p1) /\ At(d7, Len(p1), p2) /\ At(d7, Len(d2), p3)
      /\ At(d7, Len(d3), p4) /\ At(d7, Len(d4), p5) /\ At(d7, Len(d5), p6)
      /\ At(d7, Len(d6), p7)
  BY <1>6, <1>11, Concat, Extend, Zenon
<1> HIDE DEF d7
<1>13. /\ IsSequence(d7 \o p8) /\ Len(d7 \o p8) = Len(d7) + Len(p8)
      /\ At(d7 \o p8, 0, p1) /\ At(d7 \o p8, Len(p1), p2) /\ At(d7 \o p8, Len(d2), p3)
      /\ At(d7 \o p8, Len(d3), p4) /\ At(d7 \o p8, Len(d4), p5) /\ At(d7 \o p8, Len(d5), p6)
      /\ At(d7 \o p8, Len(d6), p7) /\ At(d7 \o p8, Len(d7), p8)
  BY <1>6, <1>12, Concat, Extend, Zenon
<1>14. /\ IsSequence(d) /\ Len(d) = Len(d7) + Len(p8)
      /\ At(d, 0, p1) /\ At(d, Len(p1), p2) /\ At(d, Len(d2), p3)
      /\ At(d, Len(d3), p4) /\ At(d, Len(d4), p5) /\ At(d, Len(d5), p6)
      /\ At(d, Len(d6), p7) /\ At(d, Len(d7), p8)
  BY <1>13, <1>4, Zenon
<1>15. /\ IsSequence(d)
      /\ Len(d2) = Len(p1) + Len(p2) /\ Len(d3) = Len(d2) + Len(p3)
      /\ Len(d4) = Len(d3) + Len(p4) /\ Len(d5) = Len(d4) + Len(p5)
      /\ Len(d6) = Len(d5) + Len(p6) /\ Len(d7) = Len(d6) + Len(p7)
      /\ Len(d) = Len(d7) + Len(p8)
      /\ At(d, 0, p1) /\ At(d, Len(p1), p2) /\ At(d, Len(d2), p3)
      /\ At(d, Len(d3), p4) /\ At(d, Len(d4), p5) /\ At(d, Len(d5), p6)
      /\ At(d, Len(d6), p7) /\ At(d, Len(d7), p8)
  BY <1>7, <1>8, <1>9, <1>10, <1>11, <1>12, <1>14, Zenon
<1>16. /\ Len(p1) = 2 /\ Len(p2) = HashCells /\ Len(p3) = 1 /\ Len(p4) = k
      /\ Len(p5) = k /\ Len(p6) = 2 /\ Len(p7) = 1 /\ Len(p8) = a
      /\ k \in Nat /\ a \in Nat /\ HashCells \in Nat
  BY <1>1, <1>3
<1>17. /\ Len(d2) = Len(p1) + Len(p2) /\ Len(d3) = Len(d2) + Len(p3)
      /\ Len(d4) = Len(d3) + Len(p4) /\ Len(d5) = Len(d4) + Len(p5)
      /\ Len(d6) = Len(d5) + Len(p6) /\ Len(d7) = Len(d6) + Len(p7)
      /\ Len(d) = Len(d7) + Len(p8)
  BY <1>15
<1>18. /\ Len(d2) = h /\ Len(d3) = h + 1 /\ Len(d4) = h + 1 + k /\ h \in Nat
      /\ Len(d5) = h + 2 * k + 1 /\ Len(d6) = h + 2 * k + 3 /\ Len(d7) = h + 2 * k + 4
      /\ Len(d) = h + 2 * k + 4 + a
  <2>1. h \in Nat /\ Len(d2) = h
    BY <1>16, <1>17, <1>5
  <2>2. Len(d3) = h + 1
    BY <1>16, <1>17, <2>1
  <2>3. Len(d4) = h + 1 + k
    BY <1>16, <1>17, <2>2
  <2>4. Len(d5) = h + 1 + k + k
    BY <1>16, <1>17, <2>3
  <2>5. Len(d6) = h + 1 + k + k + 2
    BY <1>16, <1>17, <2>4
  <2>6. Len(d7) = h + 1 + k + k + 2 + 1
    BY <1>16, <1>17, <2>5
  <2>7. Len(d) = h + 1 + k + k + 2 + 1 + a
    BY <1>16, <1>17, <2>6
  <2>8. /\ h + 1 + k + k = h + 2 * k + 1 /\ h + 1 + k + k + 2 = h + 2 * k + 3
        /\ h + 1 + k + k + 2 + 1 = h + 2 * k + 4
        /\ h + 1 + k + k + 2 + 1 + a = h + 2 * k + 4 + a
    BY <1>16, <2>1, Sums, Zenon
  <2> QED
    BY <2>1, <2>2, <2>3, <2>4, <2>5, <2>6, <2>7, <2>8, Zenon
<1>19. d[1] = qc.view /\ d[2] = HashCells
  <2>1. At(d, 0, p1) /\ Len(p1) = 2
    BY <1>3, <1>15
  <2>2. d[0 + 1] = p1[1] /\ d[0 + 2] = p1[2]
    BY <2>1 DEF At
  <2> QED
    BY <2>2, <1>3
<1>20. d[3] = qc.node
  <2>1. At(d, 2, p2) /\ 1 \in 1 .. Len(p2)
    BY <1>1, <1>3, <1>15
  <2>2. d[2 + 1] = p2[1]
    BY <2>1 DEF At
  <2> QED
    BY <2>2, <1>3
<1>21. d[h + 1] = k
  <2>1. At(d, h, p3) /\ 1 \in 1 .. Len(p3)
    BY <1>3, <1>15, <1>18, OneIn, Zenon
  <2> QED
    BY <2>1, <1>3 DEF At
<1>22. d[h + 2 * k + 3] = qc.cryptoScheme
  <2>1. At(d, h + 2 * k + 1, p6) /\ 2 \in 1 .. Len(p6)
    BY <1>16, <1>15, <1>18, Zenon, OneIn
  <2>2. h + 2 * k + 1 + 2 = h + 2 * k + 3
    BY <1>16, <1>18, Sums, Zenon
  <2> QED
    BY <2>1, <2>2, <1>3 DEF At
<1>23. d[h + 2 * k + 4] = a
  <2>1. At(d, h + 2 * k + 3, p7) /\ 1 \in 1 .. Len(p7)
    BY <1>16, <1>15, <1>18, Zenon, OneIn
  <2>2. h + 2 * k + 3 + 1 = h + 2 * k + 4
    BY <1>16, <1>18, Sums, Zenon
  <2> QED
    BY <2>1, <2>2, <1>3 DEF At
<1>24. /\ At(d, h + 1, qc.signers)
       /\ At(d, h + 1 + k, qc.timestamps)
       /\ At(d, h + 2 * k + 4, qc.aggregateSignature)
  BY <1>15, <1>18, Zenon DEF p4, p5, p8
<1> QED
  BY <1>1, <1>15, <1>18, <1>19, <1>20, <1>21, <1>22, <1>23, <1>24, Zenon DEF d, h, k, a

\* What is at some place of p can be cut out of it.
LEMMA Slice ==
  ASSUME NEW p, IsSequence(p), NEW s, IsSequence(s), NEW o, At(p, o, s)
  PROVE  SubSeq(p, o + 1, o + Len(s)) = s
<1> DEFINE m == o + 1
           n == o + Len(s)
<1>1. /\ o \in Nat /\ Len(s) \in Nat /\ o + Len(s) <= Len(p) /\ Len(p) \in Nat
      /\ \A i \in 1 .. Len(s) : p[o + i] = s[i]
  BY SequenceOf DEF At
<1>2. m \in 1 .. Len(p) + 1 /\ n \in m - 1 .. Len(p) /\ n - m + 1 = Len(s)
  BY <1>1
<1>3. /\ IsSequence(SubSeq(p, m, n))
      /\ Len(SubSeq(p, m, n)) = n - m + 1
      /\ \A i \in 1 .. n - m + 1 : SubSeq(p, m, n)[i] = p[m + i - 1]
  BY <1>2, Part
<1>4. \A i \in 1 .. Len(s) : m + i - 1 = o + i
  BY <1>1
<1>5. \A i \in 1 .. Len(SubSeq(p, m, n)) : SubSeq(p, m, n)[i] = s[i]
  BY <1>1, <1>2, <1>3, <1>4
<1>6. Len(SubSeq(p, m, n)) = Len(s)
  BY <1>2, <1>3
<1> QED
  BY <1>3, <1>5, <1>6, Equal

LEMMA QCRefused ==
  ASSUME NEW h \in Nat, NEW k \in Nat, NEW a \in Nat, NEW n \in Nat,
         n < h + 2 * k + 4 + a,
         NEW p, Len(p) = n, 5 <= n => 2 + p[2] = h, h < n => p[h + 1] = k,
         h + 2 * k + 4 <= n => p[h + 2 * k + 4] = a
  PROVE  Failed(QCFromBytes(p))
<1> USE DEF Failed, Error, Panic
<1>1. CASE n < 5 \/ n < h
  <2>1. QCFromBytes(p) = Error
    BY <1>1 DEF QCFromBytes
  <2> QED
    BY <2>1
<1>2. CASE n >= 5 /\ n = h
  <2>1. QCFromBytes(p) = Panic
    BY <1>2 DEF QCFromBytes
  <2> QED
    BY <2>1
<1>3. CASE n >= 5 /\ n > h
  <2>1. 2 + p[2] = h /\ p[h + 1] = k
    BY <1>3
  <2>2. CASE n < h + 1 + 2 * k + 3
    <3>1. QCFromBytes(p) = Error
      BY <1>3, <2>1, <2>2 DEF QCFromBytes
    <3> QED
      BY <3>1
  <2>3. CASE n >= h + 1 + 2 * k + 3
    <3>1. h + 1 + 2 * k + 3 = h + 2 * k + 4
      OBVIOUS
    <3>2. p[h + 1 + 2 * k + 3] = a /\ n < h + 1 + 2 * k + 3 + a
      BY <3>1, <2>3
    <3>3. QCFromBytes(p) = Error
      BY <1>3, <2>1, <3>2 DEF QCFromBytes
    <3> QED
      BY <3>3
  <2> QED
    BY <2>2, <2>3
<1> QED
  BY <1>1, <1>2, <1>3

LEMMA Cuts ==
  ASSUME NEW h \in Nat, NEW k \in Nat, NEW a \in Nat, NEW s, s = h + 1 + 2 * k
  PROVE  /\ s = h + 1 + 2 * k /\ s \in Nat /\ s + 2 = h + 2 * k + 3 /\ s + 3 = h + 2 * k + 4
         /\ h + 2 = (h + 1) + 1 /\ h + 2 + k = (h + 1 + k) + 1 /\ s = (h + 1 + k) + k
         /\ s + 4 = (h + 2 * k + 4) + 1 /\ s + 3 + a = (h + 2 * k + 4) + a
  OBVIOUS

LEMMA QCAccepted ==
  ASSUME NEW qc, Encodable(qc), Len(qc.aggregateSignature) < Wide
  PROVE  QCFromBytes(QCBytes(qc)) = Ok(qc)
<1> DEFINE d == QCBytes(qc)
           h == 2 + HashCells
           k == Len(qc.signers)
           a == Len(qc.aggregateSignature)
           s == h + 1 + 2 * k
<1>1. /\ h \in Nat /\ k \in Nat /\ a \in Nat
      /\ IsSequence(d) /\ Len(d) = h + 2 * k + 4 + a
      /\ d[1] = qc.view /\ d[2] = HashCells /\ d[3] = qc.node
      /\ d[h + 1] = k
      /\ At(d, h + 1, qc.signers)
      /\ At(d, h + 1 + k, qc.timestamps)
      /\ d[h + 2 * k + 3] = qc.cryptoScheme
      /\ d[h + 2 * k + 4] = a
      /\ At(d, h + 2 * k + 4, qc.aggregateSignature)
  BY QCCells
<1>2. h >= 3
  BY CodecAssumption
<1>3. h = 2 + d[2]
  BY <1>1
<1>4. Len(qc.timestamps) = k
  BY DEF Encodable
<1>5. /\ IsSequence(qc.signers) /\ IsSequence(qc.timestamps)
      /\ IsSequence(qc.aggregateSignature)
  BY DEF Encodable
<1>6. k = Len(qc.signers) /\ a = Len(qc.aggregateSignature)
  OBVIOUS
<1> HIDE DEF d, h, k, a, s
<1>7. /\ s = h + 1 + 2 * k /\ s \in Nat /\ s + 2 = h + 2 * k + 3 /\ s + 3 = h + 2 * k + 4
      /\ h + 2 = (h + 1) + 1 /\ h + 2 + k = (h + 1 + k) + 1 /\ s = (h + 1 + k) + k
      /\ s + 4 = (h + 2 * k + 4) + 1 /\ s + 3 + a = (h + 2 * k + 4) + a
  <2>1. s = h + 1 + 2 * k /\ h \in Nat /\ k \in Nat /\ a \in Nat
    BY <1>1 DEF s
  <2> QED
    BY <2>1, Cuts
<1>8. SubSeq(d, h + 2, h + 1 + k) = qc.signers
  <2>1. h + 1 + k = (h + 1) + Len(qc.signers) /\ h + 2 = (h + 1) + 1
    BY <1>6, <1>7, Zenon
  <2>2. At(d, h + 1, qc.signers) /\ IsSequence(d) /\ IsSequence(qc.signers)
    BY <1>1, <1>5
  <2>3. SubSeq(d, (h + 1) + 1, (h + 1) + Len(qc.signers)) = qc.signers
    BY <2>2, Slice, Zenon
  <2> QED
    BY <2>1, <2>3, Zenon
<1>9. SubSeq(d, h + 2 + k, s) = qc.timestamps
  <2>1. s = (h + 1 + k) + Len(qc.timestamps) /\ h + 2 + k = (h + 1 + k) + 1
    BY <1>4, <1>7, Zenon
  <2>2. At(d, h + 1 + k, qc.timestamps) /\ IsSequence(d) /\ IsSequence(qc.timestamps)
    BY <1>1, <1>5
  <2>3. SubSeq(d, (h + 1 + k) + 1, (h + 1 + k) + Len(qc.timestamps)) = qc.timestamps
    BY <2>2, Slice, Zenon
  <2> QED
    BY <2>1, <2>3, Zenon
<1>10. SubSeq(d, s + 4, s + 3 + a) = qc.aggregateSignature
  <2>1. /\ s + 3 + a = (h + 2 * k + 4) + Len(qc.aggregateSignature)
        /\ s + 4 = (h + 2 * k + 4) + 1
    BY <1>6, <1>7, Zenon
  <2>2. At(d, h + 2 * k + 4, qc.aggregateSignature) /\ IsSequence(d) /\ IsSequence(qc.aggregateSignature)
    BY <1>1, <1>5
  <2>3. SubSeq(d, (h + 2 * k + 4) + 1, (h + 2 * k + 4) + Len(qc.aggregateSignature)) = qc.aggregateSignature
    BY <2>2, Slice, Zenon
  <2> QED
    BY <2>1, <2>3, Zenon
<1>11. d[s + 2] = qc.cryptoScheme /\ d[s + 3] = a /\ d[h + 1] = k
  BY <1>1, <1>7
<1>12. /\ ~(Len(d) < 5 \/ Len(d) < h) /\ Len(d) # h
       /\ ~( \/ Len(d) < h + 1 + k \/ Len(d) < s
             \/ Len(d) < s + 1 \/ Len(d) < s + 2
             \/ Len(d) < s + 3 \/ Len(d) < s + 3 + a)
  BY <1>1, <1>2, <1>7
<1>13. QCFromBytes(d) =
         Ok([ view |-> d[1], node |-> d[3],
              signers |-> SubSeq(d, h + 2, h + 1 + k),
              timestamps |-> SubSeq(d, h + 2 + k, s),
              cryptoScheme |-> d[s + 2],
              aggregateSignature |-> SubSeq(d, s + 4, s + 3 + a) ])
  BY <1>3, <1>7, <1>11, <1>12, Zenon DEF QCFromBytes
<1>14. QCFromBytes(d) =
         Ok([ view |-> qc.view, node |-> qc.node, signers |-> qc.signers,
              timestamps |-> qc.timestamps, cryptoScheme |-> qc.cryptoScheme,
              aggregateSignature |-> qc.aggregateSignature ])
  BY <1>1, <1>8, <1>9, <1>10, <1>11, <1>13, Zenon
<1>15. QCFromBytes(d) = Ok(qc)
  BY <1>14, Zenon DEF Encodable
<1> QED
  BY <1>15 DEF d

\* A certificate is decoded when all of its encoding is there.
LEMMA QCDecoded ==
  ASSUME NEW qc, Encodable(qc), Len(qc.aggregateSignature) < Wide,
         NEW n \in 0 .. Len(QCBytes(qc))
  PROVE  LET p == SubSeq(QCBytes(qc), 1, n)
         IN  IF n = Len(QCBytes(qc)) THEN QCFromBytes(p) = Ok(qc) ELSE Failed(QCFromBytes(p))
<1> DEFINE d == QCBytes(qc)
           p == SubSeq(d, 1, n)
           h == 2 + HashCells
           k == Len(qc.signers)
           a == Len(qc.aggregateSignature)
<1>1. /\ h \in Nat /\ k \in Nat /\ a \in Nat
      /\ IsSequence(d) /\ Len(d) = h + 2 * k + 4 + a
      /\ d[2] = HashCells /\ d[h + 1] = k /\ d[h + 2 * k + 4] = a
  BY QCCells
<1>2. CASE n = Len(d)
  <2>1. p = d
    BY <1>1, <1>2, WholeOf
  <2> QED
    BY <1>2, <2>1, QCAccepted
<1>3. CASE n # Len(d)
  <2>1. d[2] = HashCells /\ 2 + HashCells = h
    BY <1>1
  <2>2. n \in 0 .. Len(d) /\ p = SubSeq(d, 1, n)
    OBVIOUS
  <2> HIDE DEF d, h, k, a, p
  <2>3. Len(p) = n /\ \A i \in 1 .. n : p[i] = d[i]
    BY <1>1, <2>2, FrontOf
  <2>4. n \in Nat /\ n < h + 2 * k + 4 + a
    BY <1>1, <1>3, <2>2
  <2>5. 5 <= n => 2 + p[2] = h
    BY <2>1, <2>3, <2>4
  <2>6. h < n => p[h + 1] = k
    BY <1>1, <2>3, <2>4
  <2>7. h + 2 * k + 4 <= n => p[h + 2 * k + 4] = a
    BY <1>1, <2>3, <2>4
  <2>8. Failed(QCFromBytes(p))
    BY <1>1, <2>3, <2>4, <2>5, <2>6, <2>7, QCRefused
  <2> QED
    BY <1>3, <2>8 DEF d, p
<1> QED
  BY <1>2, <1>3

\* The result for the first n cells of d, which is the encoding of x.
Decodes(d, n, result, x) == IF n = Len(d) THEN result = Ok(x) ELSE Failed(result)

LEMMA VoteCells ==
  ASSUME NEW vote
  PROVE  LET h == 2 + HashCells
             d == VoteBytes(vote)
         IN  /\ h \in Nat /\ h >= 3 /\ IsSequence(d) /\ Len(d) = h + 4
             /\ d[1] = vote.view /\ d[2] = HashCells /\ d[3] = vote.nodeHash
             /\ d[h + 1] = vote.validatorIndex /\ d[h + 2] = vote.timestamp
             /\ d[h + 3] = 1 /\ d[h + 4] = vote.signature
<1> DEFINE h == 2 + HashCells
           d == VoteBytes(vote)
           p1 == <<vote.view, Short(HashCells)>>
           p2 == HashBytes(vote.nodeHash)
           p3 == <<vote.validatorIndex, vote.timestamp, Short(1), vote.signature>>
           d2 == p1 \o p2
<1>1. HashCells \in Nat /\ HashCells >= 1 /\ h \in Nat /\ h >= 3
  BY CodecAssumption
<1>2. Short(HashCells) = HashCells /\ Short(1) = 1
  BY CodecAssumption, ShortFits
<1>3. /\ IsSequence(p1) /\ Len(p1) = 2 /\ p1[1] = vote.view /\ p1[2] = HashCells
      /\ IsSequence(p2) /\ Len(p2) = HashCells /\ p2[1] = vote.nodeHash
      /\ IsSequence(p3) /\ Len(p3) = 4
      /\ p3[1] = vote.validatorIndex /\ p3[2] = vote.timestamp
      /\ p3[3] = 1 /\ p3[4] = vote.signature
  BY <1>2, Tuples, HashBytesCells
<1>4. d = d2 \o p3
  BY DEF VoteBytes
<1>5. h = 2 + HashCells
  OBVIOUS
<1> HIDE DEF p1, p2, p3, h, d
<1>6. IsSequence(p1) /\ IsSequence(p2) /\ IsSequence(p3)
  BY <1>3
<1>7. IsSequence(d2) /\ Len(d2) = Len(p1) + Len(p2) /\ At(d2, 0, p1) /\ At(d2, Len(p1), p2)
  BY <1>6, Concat, Zenon
<1> HIDE DEF d2
<1>8. /\ IsSequence(d2 \o p3) /\ Len(d2 \o p3) = Len(d2) + Len(p3)
      /\ At(d2 \o p3, 0, p1) /\ At(d2 \o p3, Len(p1), p2) /\ At(d2 \o p3, Len(d2), p3)
  BY <1>6, <1>7, Concat, Extend, Zenon
<1>9. Len(d2) = h
  BY <1>1, <1>3, <1>5, <1>7
<1>10. Len(d) = h + 4
  BY <1>3, <1>4, <1>8, <1>9
<1>11. d[1] = vote.view /\ d[2] = HashCells
  <2>1. At(d, 0, p1) /\ Len(p1) = 2
    BY <1>3, <1>4, <1>8
  <2>2. d[0 + 1] = p1[1] /\ d[0 + 2] = p1[2]
    BY <2>1 DEF At
  <2> QED
    BY <2>2, <1>3
<1>12. d[3] = vote.nodeHash
  <2>1. At(d, 2, p2) /\ 1 \in 1 .. Len(p2)
    BY <1>1, <1>3, <1>4, <1>8
  <2>2. d[2 + 1] = p2[1]
    BY <2>1 DEF At
  <2> QED
    BY <2>2, <1>3
<1>13. d[h + 1] = p3[1] /\ d[h + 2] = p3[2] /\ d[h + 3] = p3[3] /\ d[h + 4] = p3[4]
  <2>1. At(d, h, p3) /\ Len(p3) = 4
    BY <1>3, <1>4, <1>8, <1>9
  <2> QED
    BY <2>1 DEF At
<1> QED
  BY <1>1, <1>3, <1>4, <1>8, <1>10, <1>11, <1>12, <1>13, Zenon DEF h, d

LEMMA VoteDecoded ==
  ASSUME NEW vote,
         vote = VoteRecord(vote.view, vote.nodeHash, vote.validatorIndex,
                           vote.timestamp, vote.signature),
         NEW n \in 0 .. Len(VoteBytes(vote))
  PROVE  Decodes(VoteBytes(vote), n, VoteFromBytes(SubSeq(VoteBytes(vote), 1, n)), vote)
<1> DEFINE d == VoteBytes(vote)
           p == SubSeq(d, 1, n)
           h == 2 + HashCells
<1>1. /\ h \in Nat /\ h >= 3 /\ IsSequence(d) /\ Len(d) = h + 4
      /\ d[1] = vote.view /\ d[2] = HashCells /\ d[3] = vote.nodeHash
      /\ d[h + 1] = vote.validatorIndex /\ d[h + 2] = vote.timestamp
      /\ d[h + 3] = 1 /\ d[h + 4] = vote.signature
  BY VoteCells
<1>2. h = 2 + HashCells /\ n \in 0 .. Len(d) /\ p = SubSeq(d, 1, n)
  OBVIOUS
<1> HIDE DEF d, h, p
<1>3. Len(p) = n /\ \A i \in 1 .. n : p[i] = d[i]
  BY <1>1, <1>2, FrontOf
<1>4. n \in Nat /\ n <= h + 4
  BY <1>1, <1>2
<1>5. n >= 5 => 2 + p[2] = h
  BY <1>1, <1>2, <1>3, <1>4
<1>6. n >= h + 3 => p[h + 3] = 1
  BY <1>1, <1>3, <1>4
<1>7. CASE n < h + 4
  <2>1. n < 5 \/ n < h \/ n < h + 3 \/ n < h + 3 + 1
    BY <1>1, <1>4, <1>7
  <2>2. VoteFromBytes(p) = Error
    <3>1. CASE n < 5
      BY <3>1, <1>3 DEF VoteFromBytes
    <3>2. CASE n >= 5 /\ n < h + 3
      BY <3>2, <1>1, <1>3, <1>4, <1>5 DEF VoteFromBytes
    <3>3. CASE n >= 5 /\ n >= h + 3
      BY <3>3, <1>1, <1>3, <1>4, <1>5, <1>6, <1>7 DEF VoteFromBytes
    <3> QED
      BY <1>1, <1>4, <3>1, <3>2, <3>3
  <2>3. n # Len(d) /\ Failed(Error)
    BY <1>1, <1>4, <1>7 DEF Failed, Error
  <2> QED
    BY <2>2, <2>3, Zenon DEF Decodes, d, p
<1>8. CASE n = h + 4
  <2>1. p = d
    BY <1>1, <1>2, <1>8, WholeOf
  <2>2. VoteFromBytes(d) = Ok(VoteRecord(d[1], d[3], d[h + 1], d[h + 2], d[h + 4]))
    BY <1>1, <1>2 DEF VoteFromBytes
  <2>3. VoteFromBytes(d) = Ok(VoteRecord(vote.view, vote.nodeHash, vote.validatorIndex,
                                         vote.timestamp, vote.signature))
    BY <1>1, <2>2, Zenon
  <2>4. VoteFromBytes(d) = Ok(vote)
    BY <2>3, Zenon
  <2> QED
    BY <1>1, <1>8, <2>1, <2>4 DEF Decodes, d, p
<1> QED
  BY <1>1, <1>4, <1>7, <1>8

-----------------------------------------------------------------------------
(* Messages *)

Sendable(qc) ==
  \/ qc = NoCertificate
  \/ qc # NoCertificate /\ Encodable(qc) /\ Len(qc.aggregateSignature) < Wide

\* A flag, and the certificate if it is set.
LEMMA FlagDecoded ==
  ASSUME NEW qc, Encodable(qc), Len(qc.aggregateSignature) < Wide,
         NEW n \in 0 .. Len(QCBytes(qc))
  PROVE  Decodes(QCBytes(qc), n, QCAfterFlag(1, SubSeq(QCBytes(qc), 1, n)), qc)
  BY QCDecoded DEF QCAfterFlag, Decodes

LEMMA OptionalSequence ==
  ASSUME NEW qc, Sendable(qc)
  PROVE  IsSequence(OptionalQC(qc))
<1>1. CASE qc = NoCertificate
  BY <1>1, Tuples DEF OptionalQC
<1>2. CASE qc # NoCertificate
  <2>1. IsSequence(QCBytes(qc)) /\ IsSequence(<<1>>)
    <3>1. Encodable(qc) /\ Len(qc.aggregateSignature) < Wide
      BY <1>2 DEF Sendable
    <3>2. IsSequence(QCBytes(qc))
      BY <3>1, QCCells, Zenon
    <3> QED
      BY <3>2, Tuples
  <2>2. IsSequence(<<1>> \o QCBytes(qc))
    BY <2>1, Concat, Zenon
  <2> QED
    BY <1>2, <2>2 DEF OptionalQC
<1> QED
  BY <1>1, <1>2

LEMMA NewViewDecoded ==
  ASSUME NEW view, NEW i, NEW qc, Sendable(qc)
  PROVE  LET d == OptionalQC(qc)
         IN  /\ IsSequence(d)
             /\ \A n \in 0 .. Len(d) :
                  Decodes(d, n, DeserializeNewView(view, i, SubSeq(d, 1, n)),
                          [type |-> "NEWVIEW", view |-> view, validatorIndex |-> i, qc |-> qc])
<1> DEFINE d == OptionalQC(qc)
<1>0. IsSequence(d)
  BY OptionalSequence
<1> SUFFICES ASSUME NEW n \in 0 .. Len(d)
             PROVE  Decodes(d, n, DeserializeNewView(view, i, SubSeq(d, 1, n)),
                            [type |-> "NEWVIEW", view |-> view, validatorIndex |-> i, qc |-> qc])
  BY <1>0
<1> DEFINE p == SubSeq(d, 1, n)
           m == [type |-> "NEWVIEW", view |-> view, validatorIndex |-> i, qc |-> qc]
<1>1. CASE qc = NoCertificate
  <2>1. d = <<0>> /\ IsSequence(d) /\ Len(d) = 1 /\ d[1] = 0
    BY <1>1, Tuples DEF OptionalQC
  <2>2. CASE n = 0
    <3>1. Len(p) = 0
      BY <2>1, <2>2, FrontOf
    <3>2. DeserializeNewView(view, i, p) = Error
      BY <3>1 DEF DeserializeNewView
    <3> QED
      BY <2>1, <2>2, <3>2 DEF Decodes, Failed, Error
  <2>3. CASE n = 1
    <3>1. p = d
      BY <2>1, <2>3, WholeOf
    <3>2. QCAfterFlag(p[1], From(p, 2)) = Ok(qc)
      BY <1>1, <2>1, <3>1 DEF QCAfterFlag
    <3>3. ~Failed(Ok(qc)) /\ Ok(qc).value = qc
      BY DEF Failed, Ok
    <3>4. ~(Len(p) < 1 \/ (p[1] = 1 /\ Len(p) < 2))
      BY <2>1, <3>1
    <3>5. DeserializeNewView(view, i, p) = Ok(m)
      BY <3>2, <3>3, <3>4, Zenon DEF DeserializeNewView
    <3> QED
      BY <2>1, <2>3, <3>5, Zenon DEF Decodes
  <2> QED
    BY <2>1, <2>2, <2>3
<1>2. CASE qc # NoCertificate
  <2> DEFINE c == QCBytes(qc)
  <2>1. Encodable(qc) /\ Len(qc.aggregateSignature) < Wide
    BY <1>2 DEF Sendable
  <2>2. d = <<1>> \o c
    BY <1>2 DEF OptionalQC
  <2>3. IsSequence(c) /\ Len(c) \in Nat \ {0}
    <3> DEFINE h == 2 + HashCells
               k == Len(qc.signers)
               a == Len(qc.aggregateSignature)
    <3>1. /\ h \in Nat /\ k \in Nat /\ a \in Nat
          /\ IsSequence(c) /\ Len(c) = h + 2 * k + 4 + a
      BY <2>1, QCCells
    <3> HIDE DEF h, k, a, c
    <3> QED
      BY <3>1
  <2>4. IsSequence(<<1>>) /\ Len(<<1>>) = 1 /\ <<1>>[1] = 1
    BY Tuples
  <2> HIDE DEF c
  <2>5. IsSequence(d) /\ Len(d) = 1 + Len(c)
    BY <2>2, <2>3, <2>4, Concat
  <2>6. /\ Len(p) = n
        /\ 1 <= n => p[1] = 1 /\ n - 1 \in 0 .. Len(c) /\ From(p, 2) = SubSeq(c, 1, n - 1)
    <3> DEFINE one == <<1>>
    <3>1. d = one \o c /\ IsSequence(one) /\ Len(one) = 1 /\ one[1] = 1 /\ 1 + 1 = 2
      BY <2>2, <2>4
    <3> HIDE DEF one
    <3> DEFINE front == SubSeq(one \o c, 1, n)
    <3>2. n \in 0 .. Len(one \o c) /\ p = front
      BY <3>1
    <3>3. /\ Len(front) = n
          /\ \A j \in 1 .. Len(one) : j <= n => front[j] = one[j]
          /\ Len(one) <= n => /\ n - Len(one) \in 0 .. Len(c)
                              /\ From(front, Len(one) + 1) = SubSeq(c, 1, n - Len(one))
      BY <2>3, <3>1, <3>2, Rest, Zenon
    <3> HIDE DEF front
    <3>4. /\ Len(p) = n
          /\ \A j \in 1 .. Len(one) : j <= n => p[j] = one[j]
          /\ Len(one) <= n => /\ n - Len(one) \in 0 .. Len(c)
                              /\ From(p, Len(one) + 1) = SubSeq(c, 1, n - Len(one))
      BY <3>2, <3>3, Zenon
    <3> QED
      BY <3>1, <3>4, OneIn
  <2>7. CASE n < 2
    <3>1. DeserializeNewView(view, i, p) = Error
      BY <2>5, <2>6, <2>7 DEF DeserializeNewView
    <3> QED
      BY <2>3, <2>5, <2>7, <3>1 DEF Decodes, Failed, Error
  <2>8. CASE n >= 2
    <3> DEFINE q == QCAfterFlag(p[1], From(p, 2))
    <3>1. ~(Len(p) < 1 \/ (p[1] = 1 /\ Len(p) < 2))
      BY <2>6, <2>8
    <3>2. Decodes(c, n - 1, QCAfterFlag(1, SubSeq(c, 1, n - 1)), qc)
      BY <2>1, <2>6, <2>8, FlagDecoded DEF c
    <3>3. Decodes(c, n - 1, q, qc)
      <4>1. p[1] = 1 /\ From(p, 2) = SubSeq(c, 1, n - 1)
        BY <2>6, <2>8
      <4> QED
        BY <3>2, <4>1, Zenon
    <3>4. DeserializeNewView(view, i, p) =
            IF Failed(q) THEN q
            ELSE Ok([type |-> "NEWVIEW", view |-> view, validatorIndex |-> i, qc |-> q.value])
      BY <3>1, Zenon DEF DeserializeNewView
    <3> HIDE DEF q
    <3>5. CASE n = Len(d)
      <4>1. q = Ok(qc)
        BY <2>3, <2>5, <3>3, <3>5 DEF Decodes
      <4>2. ~Failed(q) /\ q.value = qc
        BY <4>1 DEF Failed, Ok
      <4>3. DeserializeNewView(view, i, p) = Ok(m)
        BY <3>4, <4>2, Zenon
      <4> QED
        BY <2>5, <3>5, <4>3, Zenon DEF Decodes
    <3>6. CASE n # Len(d)
      <4>1. n - 1 # Len(c)
        BY <2>3, <2>5, <3>6
      <4>2. Failed(q)
        BY <3>3, <4>1 DEF Decodes
      <4> QED
        BY <2>5, <3>4, <3>6, <4>2, Zenon DEF Decodes
    <3> QED
      BY <3>5, <3>6
  <2> QED
    BY <2>5, <2>7, <2>8
<1> QED
  BY <1>1, <1>2

LEMMA Three ==
  ASSUME NEW b, NEW f
  PROVE  <<1, b>> \o <<f>> = <<1, b, f>>
<1> DEFINE x == <<1, b>>
           y == <<f>>
           z == <<1, b, f>>
           w == x \o y
<1>1. /\ IsSequence(x) /\ Len(x) = 2 /\ x[1] = 1 /\ x[2] = b
      /\ IsSequence(y) /\ Len(y) = 1 /\ y[1] = f
      /\ IsSequence(z) /\ Len(z) = 3 /\ z[1] = 1 /\ z[2] = b /\ z[3] = f
  BY Tuples
<1> HIDE DEF x, y, z
<1>2. IsSequence(x) /\ IsSequence(y)
  BY <1>1
<1>3. IsSequence(w) /\ Len(w) = Len(x) + Len(y) /\ At(w, 0, x) /\ At(w, Len(x), y)
  BY <1>2, Concat, Zenon
<1> HIDE DEF w
<1>4. Len(w) = 3
  BY <1>1, <1>3
<1>5. w[0 + 1] = 1 /\ w[0 + 2] = b /\ w[2 + 1] = f
  BY <1>1, <1>3 DEF At
<1>6. w[1] = z[1] /\ w[2] = z[2] /\ w[3] = z[3]
  BY <1>1, <1>5
<1>7. \A i \in 1 .. 3 : i = 1 \/ i = 2 \/ i = 3
  OBVIOUS
<1>8. \A i \in 1 .. 3 : w[i] = z[i]
  BY <1>6, <1>7, Zenon
<1>9. w = z
  BY <1>1, <1>3, <1>4, <1>8, Equal
<1> QED
  BY <1>9 DEF w, x, y, z

LEMMA Regroup ==
  ASSUME NEW b, NEW c, IsSequence(c)
  PROVE  <<1, b>> \o (<<1>> \o c) = <<1, b, 1>> \o c
<1> DEFINE S == {1, b} \cup ToSet(c)
           x == <<1, b>>
           y == <<1>>
           z == <<1, b, 1>>
<1>1. x \in Seq(S) /\ y \in Seq(S)
  OBVIOUS
<1>2. c \in Seq(S)
  BY SequenceOf, SeqMonotonic
<1>3. x \o y = z
  BY Three, Zenon
<1> HIDE DEF S, x, y, z
<1>4. (x \o y) \o c = x \o (y \o c)
  BY <1>1, <1>2, ConcatAssociative
<1> QED
  BY <1>3, <1>4 DEF x, y, z

\* Three cells, and what follows them.
LEMMA ThreeAndRest ==
  ASSUME NEW a, NEW b, NEW c, NEW rest, IsSequence(rest),
         NEW n \in 0 .. Len(<<a, b, c>> \o rest)
  PROVE  LET d == <<a, b, c>> \o rest
             p == SubSeq(d, 1, n)
         IN  /\ IsSequence(d) /\ Len(d) = 3 + Len(rest) /\ Len(rest) \in Nat
             /\ Len(p) = n
             /\ 1 <= n => p[1] = a
             /\ 2 <= n => p[2] = b
             /\ 3 <= n => /\ p[3] = c /\ n - 3 \in 0 .. Len(rest)
                          /\ From(p, 4) = SubSeq(rest, 1, n - 3)
<1> DEFINE head == <<a, b, c>>
           d == head \o rest
           p == SubSeq(d, 1, n)
<1>1. /\ IsSequence(head) /\ Len(head) = 3
      /\ head[1] = a /\ head[2] = b /\ head[3] = c
  BY Tuples
<1>2. n \in 0 .. Len(d)
  OBVIOUS
<1> HIDE DEF head
<1>3. IsSequence(head)
  BY <1>1
<1>4. IsSequence(d) /\ Len(d) = Len(head) + Len(rest)
  BY <1>3, Concat, Zenon
<1>5. Len(d) = 3 + Len(rest) /\ Len(rest) \in Nat
  BY <1>1, <1>4, SequenceOf
<1>6. /\ Len(p) = n
      /\ \A j \in 1 .. Len(head) : j <= n => p[j] = head[j]
      /\ Len(head) <= n => /\ n - Len(head) \in 0 .. Len(rest)
                           /\ From(p, Len(head) + 1) = SubSeq(rest, 1, n - Len(head))
  BY <1>2, <1>3, Rest, Zenon
<1> HIDE DEF d, p
<1>7. /\ 1 <= n => p[1] = a
      /\ 2 <= n => p[2] = b
      /\ 3 <= n => p[3] = c
  BY <1>1, <1>6
<1>8. 3 <= n => n - 3 \in 0 .. Len(rest) /\ From(p, 4) = SubSeq(rest, 1, n - 3)
  <2>1. 3 + 1 = 4
    OBVIOUS
  <2> QED
    BY <1>1, <1>6, <2>1, Zenon
<1> QED
  BY <1>4, <1>5, <1>6, <1>7, <1>8, Zenon DEF p, d, head

LEMMA ProposeDecoded ==
  ASSUME NEW view, NEW i, NEW b, NEW qc, Sendable(qc)
  PROVE  LET d == <<1, b>> \o OptionalQC(qc)
         IN  /\ IsSequence(d)
             /\ \A n \in 0 .. Len(d) :
                  Decodes(d, n, DeserializePropose(view, i, SubSeq(d, 1, n)),
                          [type |-> "PROPOSE", view |-> view, validatorIndex |-> i,
                           block |-> b, qc |-> qc])
<1> DEFINE d == <<1, b>> \o OptionalQC(qc)
<1>0. IsSequence(d)
  <2>1. IsSequence(<<1, b>>) /\ IsSequence(OptionalQC(qc))
    BY Tuples, OptionalSequence
  <2> QED
    BY <2>1, Concat, Zenon
<1> SUFFICES ASSUME NEW n \in 0 .. Len(d)
             PROVE  Decodes(d, n, DeserializePropose(view, i, SubSeq(d, 1, n)),
                            [type |-> "PROPOSE", view |-> view, validatorIndex |-> i,
                             block |-> b, qc |-> qc])
  BY <1>0, Zenon
<1> DEFINE p == SubSeq(d, 1, n)
           m == [type |-> "PROPOSE", view |-> view, validatorIndex |-> i, block |-> b, qc |-> qc]
           flag == IF qc = NoCertificate THEN 0 ELSE 1
           head == <<1, b, flag>>
           rest == IF qc = NoCertificate THEN <<>> ELSE QCBytes(qc)
           q == QCAfterFlag(p[3], From(p, 4))
<1>2. IsSequence(rest)
  BY Tuples, QCCells DEF Sendable
<1>3. d = head \o rest
  <2>1. CASE qc = NoCertificate
    <3>2. head \o rest = <<1, b, 0>>
      <4>1. <<1, b, 0>> \in Seq({1, b, 0})
        OBVIOUS
      <4>2. <<1, b, 0>> \o <<>> = <<1, b, 0>>
        BY <4>1, ConcatEmptySeq
      <4> QED
        BY <2>1, <4>2
    <3>3. d = <<1, b>> \o <<0>>
      BY <2>1 DEF OptionalQC
    <3> HIDE DEF head, rest
    <3> QED
      BY <3>2, <3>3, Three, Zenon
  <2>2. CASE qc # NoCertificate
    <3>1. d = <<1, b>> \o (<<1>> \o QCBytes(qc))
      BY <2>2 DEF OptionalQC
    <3>2. head \o rest = <<1, b, 1>> \o QCBytes(qc)
      BY <2>2
    <3>3. IsSequence(QCBytes(qc))
      BY <1>2, <2>2
    <3> QED
      BY <3>1, <3>2, <3>3, Regroup
  <2> QED
    BY <2>1, <2>2
<1>4. flag = 1 \/ flag = 0
  OBVIOUS
<1>5. /\ IsSequence(d) /\ Len(d) = 3 + Len(rest) /\ Len(rest) \in Nat
      /\ Len(p) = n
      /\ 1 <= n => p[1] = 1
      /\ 2 <= n => p[2] = b
      /\ 3 <= n => /\ p[3] = flag /\ n - 3 \in 0 .. Len(rest)
                   /\ From(p, 4) = SubSeq(rest, 1, n - 3)
  <2> DEFINE e == <<1, b, flag>> \o rest
             q1 == SubSeq(e, 1, n)
  <2> HIDE DEF rest, flag
  <2>1. d = e
    BY <1>3
  <2>2. n \in 0 .. Len(e) /\ p = q1
    BY <2>1, Zenon
  <2>3. /\ IsSequence(e) /\ Len(e) = 3 + Len(rest) /\ Len(rest) \in Nat
        /\ Len(q1) = n
        /\ 1 <= n => q1[1] = 1
        /\ 2 <= n => q1[2] = b
        /\ 3 <= n => /\ q1[3] = flag /\ n - 3 \in 0 .. Len(rest)
                     /\ From(q1, 4) = SubSeq(rest, 1, n - 3)
    BY <1>2, <2>2, ThreeAndRest
  <2> HIDE DEF e, q1, p
  <2> QED
    BY <2>1, <2>2, <2>3, Zenon
<1>8. CASE n < 3
  <2>1. DeserializePropose(view, i, p) = Error
    <3> HIDE DEF p
    <3> QED
      BY <1>5, <1>8 DEF DeserializePropose
  <2> HIDE DEF p, rest
  <2> QED
    BY <1>5, <1>8, <2>1 DEF Decodes, Failed, Error, p
<1>9. CASE n >= 3
  <2>1. ~(Len(p) < 2 \/ Len(p) < 1 + p[1] + 1) /\ p[2] = b
    <3> HIDE DEF p, rest, flag
    <3> QED
      BY <1>5, <1>9
  <2>2. DeserializePropose(view, i, p) =
          IF Failed(q) THEN q
          ELSE Ok([type |-> "PROPOSE", view |-> view, validatorIndex |-> i,
                   block |-> b, qc |-> q.value])
    <3> HIDE DEF p
    <3> QED
      BY <2>1, Zenon DEF DeserializePropose
  <2>3. Decodes(rest, n - 3, q, qc)
    <3>1. p[3] = flag /\ n - 3 \in 0 .. Len(rest) /\ From(p, 4) = SubSeq(rest, 1, n - 3)
      BY <1>5, <1>9
    <3>2. q = QCAfterFlag(flag, SubSeq(rest, 1, n - 3))
      <4> HIDE DEF p, flag, rest
      <4> QED
        BY <3>1, Zenon
    <3>3. CASE qc = NoCertificate
      <4>1. QCAfterFlag(flag, SubSeq(rest, 1, n - 3)) = Ok(qc)
        BY <3>3 DEF QCAfterFlag
      <4>2. n - 3 = Len(rest)
        BY <3>1, <3>3, Tuples
      <4> HIDE DEF q, rest, flag
      <4> QED
        BY <3>2, <4>1, <4>2, Zenon DEF Decodes
    <3>4. CASE qc # NoCertificate
      <4>1. Encodable(qc) /\ Len(qc.aggregateSignature) < Wide
        BY <3>4 DEF Sendable
      <4>2. rest = QCBytes(qc) /\ flag = 1
        BY <3>4
      <4> HIDE DEF q, rest, flag, p
      <4>3. Decodes(rest, n - 3, QCAfterFlag(1, SubSeq(rest, 1, n - 3)), qc)
        BY <3>1, <4>1, <4>2, FlagDecoded
      <4> QED
        BY <3>2, <4>2, <4>3
    <3> QED
      BY <3>3, <3>4
  <2>4. Ok(m) = Ok([type |-> "PROPOSE", view |-> view, validatorIndex |-> i,
                    block |-> b, qc |-> qc])
    OBVIOUS
  <2> HIDE DEF q, m, rest, p
  <2>5. CASE n = Len(d)
    <3>1. q = Ok(qc)
      BY <1>5, <2>3, <2>5 DEF Decodes
    <3>2. ~Failed(q) /\ q.value = qc
      BY <3>1 DEF Failed, Ok
    <3>3. DeserializePropose(view, i, p) = Ok(m)
      BY <2>2, <2>4, <3>2, Zenon
    <3> QED
      BY <1>5, <2>5, <3>3, Zenon DEF Decodes, m, p
  <2>6. CASE n # Len(d)
    <3>1. n - 3 # Len(rest)
      BY <1>5, <2>6
    <3>2. Failed(q)
      BY <2>3, <3>1 DEF Decodes
    <3> QED
      BY <1>5, <2>2, <2>6, <3>2, Zenon DEF Decodes, p
  <2> QED
    BY <2>5, <2>6
<1> QED
  BY <1>8, <1>9

LEMMA VotePayloadDecoded ==
  ASSUME NEW view, NEW i, NEW vote,
         vote = VoteRecord(vote.view, vote.nodeHash, vote.validatorIndex,
                           vote.timestamp, vote.signature)
  PROVE  LET d == VoteBytes(vote)
         IN  /\ IsSequence(d)
             /\ \A n \in 0 .. Len(d) :
                  Decodes(d, n, DeserializeVote(view, i, SubSeq(d, 1, n)),
                          [type |-> "VOTE", view |-> view, validatorIndex |-> i, vote |-> vote])
<1> DEFINE d == VoteBytes(vote)
<1>1. IsSequence(d)
  BY VoteCells
<1> SUFFICES ASSUME NEW n \in 0 .. Len(d)
             PROVE  Decodes(d, n, DeserializeVote(view, i, SubSeq(d, 1, n)),
                            [type |-> "VOTE", view |-> view, validatorIndex |-> i, vote |-> vote])
  BY <1>1
<1> DEFINE p == SubSeq(d, 1, n)
           m == [type |-> "VOTE", view |-> view, validatorIndex |-> i, vote |-> vote]
           v == VoteFromBytes(p)
<1>2. Decodes(d, n, v, vote)
  BY VoteDecoded
<1>3. DeserializeVote(view, i, p) =
        IF Failed(v) THEN v
        ELSE Ok([type |-> "VOTE", view |-> view, validatorIndex |-> i, vote |-> v.value])
  BY Zenon DEF DeserializeVote
<1> HIDE DEF v
<1>4. CASE n = Len(d)
  <2>1. v = Ok(vote)
    BY <1>2, <1>4 DEF Decodes
  <2>2. ~Failed(v) /\ v.value = vote
    BY <2>1 DEF Failed, Ok
  <2>3. DeserializeVote(view, i, p) = Ok(m)
    BY <1>3, <2>2, Zenon
  <2> QED
    BY <1>1, <1>4, <2>3, Zenon DEF Decodes
<1>5. CASE n # Len(d)
  <2>1. Failed(v)
    BY <1>2, <1>5 DEF Decodes
  <2> QED
    BY <1>1, <1>3, <1>5, <2>1, Zenon DEF Decodes
<1> QED
  BY <1>4, <1>5

\* What may be sent.
GoodQC(qc) == qc = NoCertificate \/ Encodable(qc)

Message(m) ==
  \/ /\ m = [type |-> "PROPOSE", view |-> m.view, validatorIndex |-> m.validatorIndex,
              block |-> m.block, qc |-> m.qc]
     /\ GoodQC(m.qc)
  \/ /\ m = [type |-> "NEWVIEW", view |-> m.view, validatorIndex |-> m.validatorIndex,
              qc |-> m.qc]
     /\ GoodQC(m.qc)
  \/ /\ m = [type |-> "VOTE", view |-> m.view, validatorIndex |-> m.validatorIndex,
              vote |-> m.vote]
     /\ m.vote = VoteRecord(m.vote.view, m.vote.nodeHash, m.vote.validatorIndex,
                            m.vote.timestamp, m.vote.signature)

\* What MessageFromBytes does after the header.
Payload(type, view, i, payload) ==
  CASE type = "PROPOSE" -> DeserializePropose(view, i, payload)
    [] type = "VOTE"    -> DeserializeVote(view, i, payload)
    [] type = "NEWVIEW" -> DeserializeNewView(view, i, payload)
    [] OTHER            -> Error

LEMMA HeaderDecoded ==
  ASSUME NEW t, NEW v, NEW i, NEW body, IsSequence(body), NEW m,
         \A k \in 0 .. Len(body) :
           Decodes(body, k, Payload(t, v, i, SubSeq(body, 1, k)), m),
         NEW n \in 0 .. Len(<<t, v, i>> \o body)
  PROVE  LET d == <<t, v, i>> \o body
         IN  IsSequence(d) /\ Decodes(d, n, MessageFromBytes(SubSeq(d, 1, n)), m)
<1> DEFINE d == <<t, v, i>> \o body
           p == SubSeq(d, 1, n)
<1>1. /\ IsSequence(d) /\ Len(d) = 3 + Len(body) /\ Len(body) \in Nat /\ Len(p) = n
      /\ 1 <= n => p[1] = t
      /\ 2 <= n => p[2] = v
      /\ 3 <= n => /\ p[3] = i /\ n - 3 \in 0 .. Len(body)
                   /\ From(p, 4) = SubSeq(body, 1, n - 3)
  BY ThreeAndRest
<1>2. n \in 0 .. Len(d)
  OBVIOUS
<1> HIDE DEF p, d
<1>3. CASE n < 3
  <2>1. MessageFromBytes(p) = Error
    BY <1>1, <1>3 DEF MessageFromBytes
  <2>2. n # Len(d)
    BY <1>1, <1>3
  <2>3. Failed(Error)
    BY DEF Failed, Error
  <2> QED
    BY <1>1, <2>1, <2>2, <2>3, Zenon DEF Decodes, p, d
<1>4. CASE n >= 3
  <2>1. ~(Len(p) < 3) /\ 1 <= n /\ 2 <= n /\ 3 <= n
    BY <1>1, <1>2, <1>4
  <2>2. MessageFromBytes(p) = Payload(p[1], p[2], p[3], From(p, 4))
    BY <2>1, Zenon DEF MessageFromBytes, Payload
  <2>3. p[1] = t /\ p[2] = v /\ p[3] = i /\ n - 3 \in 0 .. Len(body)
        /\ From(p, 4) = SubSeq(body, 1, n - 3)
    BY <1>1, <2>1, Zenon
  <2>4. MessageFromBytes(p) = Payload(t, v, i, SubSeq(body, 1, n - 3))
    BY <2>2, <2>3, Zenon
  <2>5. Decodes(body, n - 3, MessageFromBytes(p), m)
    BY <2>3, <2>4, Zenon
  <2>6. n = Len(d) <=> n - 3 = Len(body)
    BY <1>1, <1>2
  <2> QED
    BY <1>1, <2>5, <2>6, Zenon DEF Decodes, p, d
<1>5. n < 3 \/ n >= 3
  BY <1>1, <1>2
<1> QED
  BY <1>3, <1>4, <1>5, Zenon

LEMMA MessageDecoded ==
  ASSUME NEW m, Message(m),
         m.type # "VOTE" /\ m.qc # NoCertificate => Len(m.qc.aggregateSignature) < Wide,
         NEW n \in 0 .. Len(MessageBytes(m))
  PROVE  LET d == MessageBytes(m)
         IN  IsSequence(d) /\ Decodes(d, n, MessageFromBytes(SubSeq(d, 1, n)), m)
<1> DEFINE v == m.view
           i == m.validatorIndex
<1>1. CASE /\ m = [type |-> "PROPOSE", view |-> m.view, validatorIndex |-> m.validatorIndex,
                   block |-> m.block, qc |-> m.qc]
           /\ GoodQC(m.qc)
  <2> DEFINE body == <<1, m.block>> \o OptionalQC(m.qc)
             mm == [type |-> "PROPOSE", view |-> v, validatorIndex |-> i,
                    block |-> m.block, qc |-> m.qc]
             d == <<"PROPOSE", v, i>> \o body
  <2>1. m.type = "PROPOSE" /\ m = mm
    BY <1>1
  <2>2. MessageBytes(m) = d
    BY <2>1 DEF MessageBytes
  <2>3. Sendable(m.qc)
    BY <1>1, <2>1 DEF Sendable, GoodQC
  <2>4. IsSequence(body) /\
        \A k \in 0 .. Len(body) :
           Decodes(body, k, DeserializePropose(v, i, SubSeq(body, 1, k)), mm)
    BY <2>3, ProposeDecoded, Zenon
  <2> HIDE DEF body, mm, v, i
  <2>6. \A x : Payload("PROPOSE", v, i, x) = DeserializePropose(v, i, x)
    BY DEF Payload
  <2>7. \A k \in 0 .. Len(body) :
           Decodes(body, k, Payload("PROPOSE", v, i, SubSeq(body, 1, k)), mm)
    BY <2>4, <2>6, Zenon
  <2>8. n \in 0 .. Len(d)
    BY <2>2, Zenon
  <2>9. IsSequence(d) /\ Decodes(d, n, MessageFromBytes(SubSeq(d, 1, n)), mm)
    BY <2>4, <2>7, <2>8, HeaderDecoded, Zenon
  <2> HIDE DEF d
  <2> QED
    BY <2>1, <2>2, <2>9, Zenon
<1>2. CASE /\ m = [type |-> "NEWVIEW", view |-> m.view, validatorIndex |-> m.validatorIndex,
                   qc |-> m.qc]
           /\ GoodQC(m.qc)
  <2> DEFINE body == OptionalQC(m.qc)
             mm == [type |-> "NEWVIEW", view |-> v, validatorIndex |-> i, qc |-> m.qc]
             d == <<"NEWVIEW", v, i>> \o body
  <2>1. m.type = "NEWVIEW" /\ m = mm
    BY <1>2
  <2>2. MessageBytes(m) = d
    BY <2>1 DEF MessageBytes
  <2>3. Sendable(m.qc)
    BY <1>2, <2>1 DEF Sendable, GoodQC
  <2>4. IsSequence(body) /\
        \A k \in 0 .. Len(body) :
           Decodes(body, k, DeserializeNewView(v, i, SubSeq(body, 1, k)), mm)
    BY <2>3, NewViewDecoded, Zenon
  <2> HIDE DEF body, mm, v, i
  <2>6. \A x : Payload("NEWVIEW", v, i, x) = DeserializeNewView(v, i, x)
    BY DEF Payload
  <2>7. \A k \in 0 .. Len(body) :
           Decodes(body, k, Payload("NEWVIEW", v, i, SubSeq(body, 1, k)), mm)
    BY <2>4, <2>6, Zenon
  <2>8. n \in 0 .. Len(d)
    BY <2>2, Zenon
  <2>9. IsSequence(d) /\ Decodes(d, n, MessageFromBytes(SubSeq(d, 1, n)), mm)
    BY <2>4, <2>7, <2>8, HeaderDecoded, Zenon
  <2> HIDE DEF d
  <2> QED
    BY <2>1, <2>2, <2>9, Zenon
<1>3. CASE /\ m = [type |-> "VOTE", view |-> m.view, validatorIndex |-> m.validatorIndex,
                   vote |-> m.vote]
           /\ m.vote = VoteRecord(m.vote.view, m.vote.nodeHash, m.vote.validatorIndex,
                                  m.vote.timestamp, m.vote.signature)
  <2> DEFINE body == VoteBytes(m.vote)
             mm == [type |-> "VOTE", view |-> v, validatorIndex |-> i, vote |-> m.vote]
             d == <<"VOTE", v, i>> \o body
  <2>1. m.type = "VOTE" /\ m = mm
    BY <1>3
  <2>2. MessageBytes(m) = d
    BY <2>1 DEF MessageBytes
  <2>3. m.vote = VoteRecord(m.vote.view, m.vote.nodeHash, m.vote.validatorIndex,
                            m.vote.timestamp, m.vote.signature)
    BY <1>3
  <2>4. IsSequence(body) /\
        \A k \in 0 .. Len(body) :
           Decodes(body, k, DeserializeVote(v, i, SubSeq(body, 1, k)), mm)
    BY <2>3, VotePayloadDecoded, Zenon
  <2> HIDE DEF body, mm, v, i
  <2>6. \A x : Payload("VOTE", v, i, x) = DeserializeVote(v, i, x)
    BY DEF Payload
  <2>7. \A k \in 0 .. Len(body) :
           Decodes(body, k, Payload("VOTE", v, i, SubSeq(body, 1, k)), mm)
    BY <2>4, <2>6, Zenon
  <2>8. n \in 0 .. Len(d)
    BY <2>2, Zenon
  <2>9. IsSequence(d) /\ Decodes(d, n, MessageFromBytes(SubSeq(d, 1, n)), mm)
    BY <2>4, <2>7, <2>8, HeaderDecoded, Zenon
  <2> HIDE DEF d
  <2> QED
    BY <2>1, <2>2, <2>9, Zenon
<1> QED
  BY <1>1, <1>2, <1>3, Zenon DEF Message

-----------------------------------------------------------------------------
(* Forming and validating certificates *)

\* Votes of different validators can be put in the order of their indices.  The
\* place of one is the number of votes whose index is not higher.
LEMMA Ranked ==
  ASSUME NEW U, IsFiniteSet(U), \A v \in U : v.validatorIndex \in Nat,
         \A v, w \in U : v.validatorIndex = w.validatorIndex => v = w
  PROVE  \E s \in [1 .. Cardinality(U) -> U] :
           \A i, j \in DOMAIN s : i < j => s[i].validatorIndex < s[j].validatorIndex
<1> DEFINE n == Cardinality(U)
           Upto(v) == {w \in U : w.validatorIndex <= v.validatorIndex}
           rank == [v \in U |-> Cardinality(Upto(v))]
<1>1. n \in Nat
  BY FS_CardinalityType
<1>2. ASSUME NEW v \in U
      PROVE  /\ IsFiniteSet(Upto(v)) /\ Cardinality(Upto(v)) \in Nat
             /\ Cardinality(Upto(v)) <= n /\ v \in Upto(v)
             /\ Cardinality(Upto(v)) \in 1 .. n
  <2>1. Upto(v) \in SUBSET U
    OBVIOUS
  <2>2. IsFiniteSet(Upto(v)) /\ Cardinality(Upto(v)) <= n
    BY <2>1, FS_Subset
  <2>3. Cardinality(Upto(v)) \in Nat
    BY <2>2, FS_CardinalityType
  <2>4. v \in Upto(v)
    OBVIOUS
  <2>5. Cardinality(Upto(v)) # 0
    BY <2>2, <2>4, FS_EmptySet
  <2> HIDE DEF n, Upto
  <2> QED
    BY <1>1, <2>2, <2>3, <2>4, <2>5
<1>3. ASSUME NEW v \in U, NEW w \in U, v.validatorIndex < w.validatorIndex
      PROVE  Cardinality(Upto(v)) < Cardinality(Upto(w))
  <2>1. Upto(v) \in SUBSET Upto(w) /\ w \notin Upto(v)
    BY <1>3
  <2>2. /\ IsFiniteSet(Upto(w)) /\ w \in Upto(w)
        /\ Cardinality(Upto(v)) \in Nat /\ Cardinality(Upto(w)) \in Nat
    BY <1>2
  <2> HIDE DEF Upto
  <2>3. Cardinality(Upto(v)) <= Cardinality(Upto(w))
        /\ (Cardinality(Upto(w)) = Cardinality(Upto(v)) => Upto(w) = Upto(v))
    BY <2>1, <2>2, FS_Subset
  <2> QED
    BY <2>1, <2>2, <2>3
<1>4. rank \in [U -> 1 .. n]
  <2> HIDE DEF n, Upto
  <2> QED
    BY <1>2
<1>5. \A v, w \in U : rank[v] = rank[w] => v = w
  <2> SUFFICES ASSUME NEW v \in U, NEW w \in U, v # w
               PROVE  rank[v] # rank[w]
    OBVIOUS
  <2>1. v.validatorIndex < w.validatorIndex \/ w.validatorIndex < v.validatorIndex
    OBVIOUS
  <2>2. Cardinality(Upto(v)) # Cardinality(Upto(w))
    <3>1. Cardinality(Upto(v)) \in Nat /\ Cardinality(Upto(w)) \in Nat
      BY <1>2
    <3> HIDE DEF Upto
    <3> QED
      BY <1>3, <2>1, <3>1
  <2> HIDE DEF Upto
  <2> QED
    BY <2>2
<1>6. \A k \in 1 .. n : \E v \in U : rank[v] = k
  <2>1. rank \in Injection(U, 1 .. n)
    <3> HIDE DEF rank, n
    <3> QED
      BY <1>4, <1>5 DEF Injection, IsInjective
  <2>2. IsFiniteSet(1 .. n) /\ Cardinality(1 .. n) = n
    <3> HIDE DEF n
    <3> QED
      BY <1>1, FS_Interval
  <2>3. rank \in Surjection(U, 1 .. n)
    BY <2>1, <2>2, FS_Injection, Zenon
  <2> HIDE DEF rank, n
  <2> QED
    BY <2>3 DEF Surjection
<1>7. \A v, w \in U : rank[v] < rank[w] => v.validatorIndex < w.validatorIndex
  <2> SUFFICES ASSUME NEW v \in U, NEW w \in U, ~(v.validatorIndex < w.validatorIndex)
               PROVE  ~(rank[v] < rank[w])
    OBVIOUS
  <2>1. v = w \/ w.validatorIndex < v.validatorIndex
    OBVIOUS
  <2>2. rank[v] = Cardinality(Upto(v)) /\ rank[w] = Cardinality(Upto(w))
    BY Zenon
  <2>3. rank[v] \in Nat /\ rank[w] \in Nat
    BY <1>4, <1>1
  <2>4. w.validatorIndex < v.validatorIndex => rank[w] < rank[v]
    <3> HIDE DEF Upto, rank
    <3> QED
      BY <1>3, <2>2
  <2> HIDE DEF Upto, rank
  <2> QED
    BY <2>1, <2>3, <2>4
<1> HIDE DEF rank, n, Upto
<1> DEFINE s == [k \in 1 .. n |-> CHOOSE v \in U : rank[v] = k]
<1>8. \A k \in 1 .. n : s[k] \in U /\ rank[s[k]] = k
  BY <1>6
<1>9. s \in [1 .. n -> U] /\ DOMAIN s = 1 .. n
  BY <1>6
<1> HIDE DEF s
<1>10. \A i, j \in DOMAIN s : i < j => s[i].validatorIndex < s[j].validatorIndex
  BY <1>7, <1>8, <1>9
<1> QED
  BY <1>9, <1>10 DEF n

LEMMA Sorted ==
  ASSUME NEW U, IsFiniteSet(U), \A v \in U : v.validatorIndex \in Nat,
         \A v, w \in U : v.validatorIndex = w.validatorIndex => v = w
  PROVE  LET n == Cardinality(U)
             s == ByIndex(U)
         IN  /\ n \in Nat
             /\ s \in [1 .. n -> U]
             /\ \A i, j \in 1 .. n : s[i].validatorIndex = s[j].validatorIndex => i = j
             /\ \A v \in U : \E k \in 1 .. n : v = s[k]
<1> DEFINE n == Cardinality(U)
           s == ByIndex(U)
<1>1. n \in Nat
  BY FS_CardinalityType
<1>2. /\ s \in [1 .. n -> U]
      /\ \A i, j \in DOMAIN s : i < j => s[i].validatorIndex < s[j].validatorIndex
  BY Ranked DEF ByIndex
<1> HIDE DEF n, s
<1>3. \A i, j \in 1 .. n : s[i].validatorIndex = s[j].validatorIndex => i = j
  <2> SUFFICES ASSUME NEW i \in 1 .. n, NEW j \in 1 .. n, i # j
               PROVE  s[i].validatorIndex # s[j].validatorIndex
    OBVIOUS
  <2>1. s[i].validatorIndex \in Nat /\ s[j].validatorIndex \in Nat
    BY <1>2
  <2>2. i < j \/ j < i
    BY <1>1
  <2> QED
    BY <1>2, <2>1, <2>2
<1>4. s \in Injection(1 .. n, U)
  <2>1. \A i, j \in 1 .. n : s[i] = s[j] => i = j
    BY <1>3
  <2> QED
    BY <1>2, <2>1 DEF Injection, IsInjective
<1>5. Cardinality(1 .. n) = n
  BY <1>1, FS_Interval
<1>6. s \in Surjection(1 .. n, U)
  <2>1. IsFiniteSet(1 .. n) /\ Cardinality(1 .. n) = Cardinality(U)
    BY <1>1, <1>5, FS_Interval DEF n
  <2> QED
    BY <1>4, <2>1, FS_Injection, Zenon
<1>7. \A v \in U : \E k \in 1 .. n : v = s[k]
  BY <1>6 DEF Surjection
<1> QED
  BY <1>1, <1>2, <1>3, <1>7 DEF n, s

LEMMA UniqueFinite ==
  ASSUME NEW vs, IsSequence(vs), NEW U, U = UniqueVotes(vs)
  PROVE  /\ IsFiniteSet(U)
         /\ \A v \in U : \E k \in 1 .. Len(vs) : v = vs[k]
         /\ \A v, w \in U : v.validatorIndex = w.validatorIndex => v = w
<1> DEFINE I == {i \in DOMAIN vs :
                   \A j \in 1 .. i - 1 : vs[j].validatorIndex # vs[i].validatorIndex}
           f == [i \in I |-> vs[i]]
<1>1. DOMAIN vs = 1 .. Len(vs) /\ Len(vs) \in Nat
  BY SequenceOf
<1>2. U = {vs[i] : i \in I}
  BY DEF UniqueVotes
<1>3. IsFiniteSet(I)
  <2>1. I \in SUBSET (1 .. Len(vs))
    BY <1>1
  <2>2. IsFiniteSet(1 .. Len(vs))
    BY <1>1, FS_Interval
  <2> HIDE DEF I
  <2> QED
    BY <2>1, <2>2, FS_Subset
<1>4. f \in Surjection(I, U)
  <2> HIDE DEF I
  <2> QED
    BY <1>2 DEF Surjection
<1>5. IsFiniteSet(U)
  <2> HIDE DEF I, f
  <2> QED
    BY <1>3, <1>4, FS_Surjection
<1>6. \A v \in U : \E k \in 1 .. Len(vs) : v = vs[k]
  BY <1>1, <1>2
<1>7. \A v, w \in U : v.validatorIndex = w.validatorIndex => v = w
  <2> SUFFICES ASSUME NEW v \in U, NEW w \in U, v.validatorIndex = w.validatorIndex
               PROVE  v = w
    OBVIOUS
  <2>1. PICK i \in I : v = vs[i]
    BY <1>2
  <2>2. PICK j \in I : w = vs[j]
    BY <1>2
  <2>3. i \in Nat /\ j \in Nat /\ i >= 1 /\ j >= 1
    BY <1>1
  <2>4. ~(i < j) /\ ~(j < i)
    BY <2>1, <2>2, <2>3
  <2> QED
    BY <2>1, <2>2, <2>3, <2>4
<1> QED
  BY <1>5, <1>6, <1>7

\* A vote as a validator makes it, for the scheme.
Made(v, sch) ==
  /\ v = VoteRecord(v.view, v.nodeHash, v.validatorIndex, v.timestamp, v.signature)
  /\ v.validatorIndex \in Replicas
  /\ \/ /\ v.timestamp # 0
        /\ v.signature =
             Signature(v.validatorIndex,
                       Digest(v.view, v.nodeHash, v.validatorIndex, v.timestamp))
     \/ /\ sch = "bls"
        /\ v.timestamp = 0
        /\ v.signature = Signature(v.validatorIndex, BLSDigest(v.view, v.nodeHash))

\* The certificate NewQC makes of the unique votes.
Formed(view, hash, unique, sch) ==
  LET parts == IF sch = "bls" THEN AggregateBLSSignatures(unique)
               ELSE AggregateEd25519Signatures(unique)
  IN  [ view |-> view, node |-> hash, signers |-> Indices(ByIndex(unique)),
        timestamps |-> parts.timestamps, cryptoScheme |-> sch,
        aggregateSignature |-> parts.aggregate ]

\* The votes it is made of: of a quorum, one of each, all for its view and block.
Collected(view, hash, vs, sch) ==
  LET U == UniqueVotes(vs)
      s == ByIndex(U)
      n == Len(s)
  IN  /\ IsSequence(s) /\ n \in Nat /\ n >= Quorum
      /\ \A k \in 1 .. n : s[k] \in U
      /\ \A i, j \in 1 .. n : s[i].validatorIndex = s[j].validatorIndex => i = j
      /\ \A v \in U : Made(v, sch) /\ v.view = view /\ v.nodeHash = hash
      /\ \A v \in U : \E k \in 1 .. n : v = s[k]
      /\ \A v \in U : \E k \in 1 .. Len(vs) : v = vs[k]

\* What NewQC makes of its parts.
LEMMA NewQCParts ==
  ASSUME NEW view, NEW hash, NEW vs, IsSequence(vs), NEW sch,
         \A k \in 1 .. Len(vs) : Made(vs[k], sch),
         NewQC(view, hash, vs, sch) # NoCertificate
  PROVE  /\ Collected(view, hash, vs, sch)
         /\ NewQC(view, hash, vs, sch) = Formed(view, hash, UniqueVotes(vs), sch)
<1> DEFINE U == UniqueVotes(vs)
           s == ByIndex(U)
           n == Cardinality(U)
<1>1. DOMAIN vs = 1 .. Len(vs) /\ Len(vs) \in Nat
  BY SequenceOf
<1>2. /\ IsFiniteSet(U)
      /\ \A v \in U : \E k \in 1 .. Len(vs) : v = vs[k]
      /\ \A v, w \in U : v.validatorIndex = w.validatorIndex => v = w
  BY UniqueFinite
<1>3. /\ ~( \/ vs = <<>>
            \/ \E k \in DOMAIN vs : vs[k].view # view \/ vs[k].nodeHash # hash
            \/ Cardinality(U) < Quorum )
      /\ NewQC(view, hash, vs, sch) = Formed(view, hash, U, sch)
  <2> DEFINE bad == \/ vs = <<>>
                    \/ \E k \in DOMAIN vs : vs[k].view # view \/ vs[k].nodeHash # hash
                    \/ Cardinality(U) < Quorum
             good == Formed(view, hash, U, sch)
  <2>1. NewQC(view, hash, vs, sch) = IF bad THEN NoCertificate ELSE good
    BY Zenon DEF NewQC, Formed
  <2> HIDE DEF bad, good
  <2>2. ~bad /\ NewQC(view, hash, vs, sch) = good
    BY <2>1, Zenon
  <2> QED
    BY <2>2, Zenon DEF bad, good
<1> HIDE DEF U, s, n
<1>4. \A v \in U : Made(v, sch) /\ v.view = view /\ v.nodeHash = hash
  <2>1. \A k \in 1 .. Len(vs) : vs[k].view = view /\ vs[k].nodeHash = hash
    BY <1>1, <1>3
  <2> SUFFICES ASSUME NEW v \in U
               PROVE  Made(v, sch) /\ v.view = view /\ v.nodeHash = hash
    OBVIOUS
  <2>2. PICK k \in 1 .. Len(vs) : v = vs[k]
    BY <1>2
  <2>3. Made(vs[k], sch)
    BY <2>2
  <2> QED
    BY <2>1, <2>2, <2>3, Zenon
<1>5. \A v \in U : v.validatorIndex \in Nat
  <2>1. \A i \in Replicas : i \in Nat
    BY NAssumption DEF Replicas
  <2> QED
    BY <1>4, <2>1, Zenon DEF Made
<1>6. /\ n \in Nat
      /\ s \in [1 .. n -> U]
      /\ \A i, j \in 1 .. n : s[i].validatorIndex = s[j].validatorIndex => i = j
      /\ \A v \in U : \E k \in 1 .. n : v = s[k]
  BY <1>2, <1>5, Sorted, Zenon DEF s, n
<1>7. Quorum \in Int
  BY NAssumption DEF Quorum, F
<1>8. n >= Quorum
  BY <1>3, <1>6, <1>7 DEF n
<1>9. IsSequence(s) /\ Len(s) = n /\ \A k \in 1 .. n : s[k] \in U
  <2>1. s \in Seq(U)
    BY <1>6, SeqDef
  <2> QED
    BY <1>6, <2>1, LenProperties, ASequence
<1> QED
  BY <1>2, <1>3, <1>4, <1>6, <1>8, <1>9, Zenon DEF Collected, U, s

\* Of the votes in order s the lists that go into the certificate.
LEMMA Lists ==
  ASSUME NEW s, IsSequence(s)
  PROVE  /\ IsSequence(Indices(s)) /\ Len(Indices(s)) = Len(s)
         /\ \A k \in 1 .. Len(s) : Indices(s)[k] = s[k].validatorIndex
         /\ IsSequence(Timestamps(s)) /\ Len(Timestamps(s)) = Len(s)
         /\ \A k \in 1 .. Len(s) : Timestamps(s)[k] = s[k].timestamp
         /\ IsSequence(Signatures(s)) /\ Len(Signatures(s)) = Len(s)
         /\ \A k \in 1 .. Len(s) : Signatures(s)[k] = s[k].signature
<1> DEFINE n == Len(s)
<1>1. DOMAIN s = 1 .. n /\ n \in Nat
  BY SequenceOf
<1> HIDE DEF n
<1>2. /\ Indices(s) = [k \in 1 .. n |-> s[k].validatorIndex]
      /\ Timestamps(s) = [k \in 1 .. n |-> s[k].timestamp]
      /\ Signatures(s) = [k \in 1 .. n |-> s[k].signature]
  BY <1>1 DEF Indices, Timestamps, Signatures
<1>3. ASSUME NEW f, f = [k \in 1 .. n |-> f[k]]
      PROVE  IsSequence(f) /\ Len(f) = n
  <2>1. f \in [1 .. n -> {f[k] : k \in 1 .. n}]
    BY <1>3
  <2>2. f \in Seq({f[k] : k \in 1 .. n})
    BY <1>1, <2>1, SeqDef
  <2>3. Len(f) = n
    BY <1>1, <2>1, <2>2, LenProperties
  <2> QED
    BY <2>2, <2>3, ASequence
<1>4. /\ Indices(s) = [k \in 1 .. n |-> Indices(s)[k]]
      /\ Timestamps(s) = [k \in 1 .. n |-> Timestamps(s)[k]]
      /\ Signatures(s) = [k \in 1 .. n |-> Signatures(s)[k]]
  BY <1>2
<1> QED
  BY <1>2, <1>3, <1>4 DEF n

\* The aggregate of Ed25519: the number of signers, the signers, the signatures.
LEMMA AggregateCells ==
  ASSUME NEW i, IsSequence(i), NEW g, IsSequence(g), Len(g) = Len(i)
  PROVE  LET n == Len(i)
             d == <<n>> \o i \o g
         IN  /\ IsSequence(d) /\ Len(d) = 1 + 2 * n
             /\ d[1] = n
             /\ SubSeq(d, 2, 1 + n) = i
             /\ \A k \in 1 .. n : d[1 + n + k] = g[k]
<1> DEFINE n == Len(i)
           p == <<n>> \o i
           d == p \o g
<1>0. n \in Nat /\ Len(i) = n /\ Len(g) = n
  BY SequenceOf
<1> HIDE DEF n
<1>1. IsSequence(<<n>>) /\ Len(<<n>>) = 1 /\ <<n>>[1] = n
  BY Tuples
<1>2. IsSequence(p) /\ Len(p) = Len(<<n>>) + Len(i) /\ At(p, 0, <<n>>) /\ At(p, Len(<<n>>), i)
  BY <1>1, Concat, Zenon
<1>3. At(p, 1, i) /\ Len(p) = 1 + n
  BY <1>0, <1>1, <1>2
<1> HIDE DEF p
<1>4. IsSequence(d) /\ Len(d) = Len(p) + Len(g) /\ At(d, Len(p), g)
  BY <1>2, Concat, Zenon
<1>5. At(d, 0, <<n>>) /\ At(d, 1, i)
  BY <1>2, <1>3, Extend, Zenon
<1> HIDE DEF d
<1>6. Len(d) = 1 + 2 * n
  BY <1>0, <1>3, <1>4
<1>7. d[0 + 1] = <<n>>[1]
  BY <1>1, <1>5, OneIn DEF At
<1>8. d[1] = n
  BY <1>1, <1>7
<1>9. SubSeq(d, 1 + 1, 1 + Len(i)) = i
  BY <1>4, <1>5, Slice, Zenon
<1>10. SubSeq(d, 2, 1 + n) = i
  BY <1>0, <1>9
<1>11. At(d, 1 + n, g)
  BY <1>3, <1>4
<1>12. \A k \in 1 .. n : d[1 + n + k] = g[k]
  BY <1>0, <1>11 DEF At
<1> QED
  BY <1>4, <1>6, <1>8, <1>10, <1>12, Zenon DEF d, p, n

\* Who signs a certificate that was formed.
LEMMA SignersOf ==
  ASSUME NEW s, IsSequence(s), Len(s) >= Quorum,
         \A i, j \in 1 .. Len(s) : s[i].validatorIndex = s[j].validatorIndex => i = j,
         \A k \in 1 .. Len(s) : s[k].validatorIndex \in Replicas
  PROVE  /\ Len(Indices(s)) >= Quorum
         /\ ToSet(Indices(s)) \subseteq Replicas
         /\ IsInjective(Indices(s))
<1> DEFINE x == Indices(s)
           n == Len(s)
<1>1. IsSequence(x) /\ Len(x) = n /\ \A k \in 1 .. n : x[k] = s[k].validatorIndex
  <2>1. IsSequence(Indices(s)) /\ Len(Indices(s)) = Len(s)
    BY Lists
  <2>2. \A k \in 1 .. Len(s) : Indices(s)[k] = s[k].validatorIndex
    BY Lists
  <2> QED
    BY <2>1, <2>2
<1> HIDE DEF x
<1>2. DOMAIN x = 1 .. n
  BY <1>1, SequenceOf
<1>3. \A k \in 1 .. n : x[k] \in Replicas
  BY <1>1
<1>4. ToSet(x) \subseteq Replicas
  BY <1>2, <1>3 DEF ToSet
<1>5. IsInjective(x)
  BY <1>1, <1>2 DEF IsInjective
<1> QED
  BY <1>1, <1>4, <1>5 DEF x

\* A certificate formed for Ed25519 from verified votes is valid, and has the
\* form that can be encoded.
LEMMA FormedEd25519 ==
  ASSUME NEW view, NEW hash, NEW vs, IsSequence(vs),
         \A k \in 1 .. Len(vs) : Made(vs[k], "ed25519"),
         NewQC(view, hash, vs, "ed25519") # NoCertificate
  PROVE  LET c == NewQC(view, hash, vs, "ed25519")
         IN  Validate(c) /\ Encodable(c)
<1> DEFINE U == UniqueVotes(vs)
           s == ByIndex(U)
           n == Len(s)
           c == NewQC(view, hash, vs, "ed25519")
           d == <<n>> \o Indices(s) \o Signatures(s)
<1>1. /\ IsSequence(s) /\ n \in Nat /\ n >= Quorum
      /\ \A k \in 1 .. n : s[k] \in U
      /\ \A i, j \in 1 .. n : s[i].validatorIndex = s[j].validatorIndex => i = j
      /\ \A v \in U : Made(v, "ed25519") /\ v.view = view /\ v.nodeHash = hash
      /\ c = Formed(view, hash, U, "ed25519")
  <2>1. Collected(view, hash, vs, "ed25519") /\ c = Formed(view, hash, U, "ed25519")
    BY NewQCParts
  <2> QED
    BY <2>1, Zenon DEF Collected
<1> HIDE DEF U, s, c
<1>2. /\ IsSequence(Timestamps(s)) /\ Len(Timestamps(s)) = n
      /\ \A k \in 1 .. n : Timestamps(s)[k] = s[k].timestamp
      /\ IsSequence(Signatures(s)) /\ Len(Signatures(s)) = n
      /\ \A k \in 1 .. n : Signatures(s)[k] = s[k].signature
      /\ \A k \in 1 .. n : Indices(s)[k] = s[k].validatorIndex
  BY <1>1, Lists, Zenon
<1>3. \A v \in U : v.validatorIndex \in Replicas
  BY <1>1 DEF Made
<1>4. /\ IsSequence(Indices(s)) /\ Len(Indices(s)) = n
      /\ Len(Indices(s)) >= Quorum
      /\ ToSet(Indices(s)) \subseteq Replicas
      /\ IsInjective(Indices(s))
  BY <1>1, <1>3, Lists, SignersOf
<1>5. c = [ view |-> view, node |-> hash, signers |-> Indices(s),
            timestamps |-> Timestamps(s), cryptoScheme |-> "ed25519",
            aggregateSignature |-> d ]
  <2>1. "ed25519" # "bls"
    OBVIOUS
  <2>2. AggregateEd25519Signatures(U) = [ aggregate |-> d, timestamps |-> Timestamps(s) ]
    BY <1>2, Zenon DEF AggregateEd25519Signatures, s
  <2> HIDE DEF d
  <2>3. /\ AggregateEd25519Signatures(U).aggregate = d
        /\ AggregateEd25519Signatures(U).timestamps = Timestamps(s)
    BY <2>2
  <2> QED
    BY <1>1, <2>1, <2>3, Zenon DEF Formed, s
<1>6. /\ IsSequence(d) /\ Len(d) = 1 + 2 * n /\ d[1] = n
      /\ SubSeq(d, 2, 1 + n) = Indices(s)
      /\ \A k \in 1 .. n : d[1 + n + k] = Signatures(s)[k]
  <2>1. Len(Indices(s)) = n /\ Len(Signatures(s)) = Len(Indices(s))
    BY <1>2, <1>4
  <2> DEFINE e == <<Len(Indices(s))>> \o Indices(s) \o Signatures(s)
             m == Len(Indices(s))
  <2>2. /\ IsSequence(e) /\ Len(e) = 1 + 2 * m /\ e[1] = m
        /\ SubSeq(e, 2, 1 + m) = Indices(s)
        /\ \A k \in 1 .. m : e[1 + m + k] = Signatures(s)[k]
    BY <1>2, <1>4, <2>1, AggregateCells
  <2> QED
    BY <2>1, <2>2, Zenon
<1> HIDE DEF d
<1>7. ASSUME NEW k \in 1 .. n
      PROVE  d[1 + n + k] =
               Signature(Indices(s)[k], Digest(view, hash, Indices(s)[k], Timestamps(s)[k]))
  <2>1. s[k] \in U
    BY <1>1
  <2>2. /\ s[k].signature = Signature(s[k].validatorIndex,
                              Digest(s[k].view, s[k].nodeHash, s[k].validatorIndex,
                                     s[k].timestamp))
        /\ s[k].view = view /\ s[k].nodeHash = hash
    BY <1>1, <2>1 DEF Made
  <2> QED
    BY <1>2, <1>6, <2>2, Zenon
<1>8. /\ c.view = view /\ c.node = hash /\ c.signers = Indices(s)
      /\ c.timestamps = Timestamps(s) /\ c.cryptoScheme = "ed25519"
      /\ c.aggregateSignature = d
  BY <1>5
<1>9. ValidateEd25519(c)
  <2>1. Len(d) >= 1
    BY <1>1, <1>6
  <2> QED
    BY <1>2, <1>4, <1>6, <1>7, <1>8, <2>1, Zenon DEF ValidateEd25519
<1>10. Validate(c)
  BY <1>4, <1>8, <1>9 DEF Validate, ValidateScheme
<1>11. c = [ view |-> c.view, node |-> c.node, signers |-> c.signers,
             timestamps |-> c.timestamps, cryptoScheme |-> c.cryptoScheme,
             aggregateSignature |-> c.aggregateSignature ]
  BY <1>5, <1>8, Zenon
<1>12. Encodable(c)
  BY <1>2, <1>4, <1>6, <1>8, <1>11, Zenon DEF Encodable
<1> QED
  BY <1>10, <1>12 DEF c

\* A certificate formed for BLS from votes that were all made for it is valid.
LEMMA FormedBLS ==
  ASSUME NEW view, NEW hash, NEW vs, IsSequence(vs),
         \A k \in 1 .. Len(vs) : Made(vs[k], "bls") /\ vs[k].timestamp = 0,
         NewQC(view, hash, vs, "bls") # NoCertificate
  PROVE  Validate(NewQC(view, hash, vs, "bls"))
<1> DEFINE U == UniqueVotes(vs)
           s == ByIndex(U)
           n == Len(s)
           c == NewQC(view, hash, vs, "bls")
           x == Indices(s)
<1>1. /\ IsSequence(s) /\ n \in Nat /\ n >= Quorum
      /\ \A k \in 1 .. n : s[k] \in U
      /\ \A i, j \in 1 .. n : s[i].validatorIndex = s[j].validatorIndex => i = j
      /\ \A v \in U : Made(v, "bls") /\ v.view = view /\ v.nodeHash = hash
      /\ \A v \in U : \E k \in 1 .. n : v = s[k]
      /\ \A v \in U : \E k \in 1 .. Len(vs) : v = vs[k]
      /\ c = Formed(view, hash, U, "bls")
  <2>1. \A k \in 1 .. Len(vs) : Made(vs[k], "bls")
    OBVIOUS
  <2>2. Collected(view, hash, vs, "bls") /\ c = Formed(view, hash, U, "bls")
    BY <2>1, NewQCParts
  <2> QED
    BY <2>2, Zenon DEF Collected
<1> HIDE DEF U, s, c
<1>2. \A v \in U : /\ v.validatorIndex \in Replicas
                   /\ v.signature = Signature(v.validatorIndex, BLSDigest(view, hash))
  BY <1>1 DEF Made
<1>3. /\ IsSequence(x) /\ Len(x) = n /\ Len(x) >= Quorum
      /\ ToSet(x) \subseteq Replicas /\ IsInjective(x)
  BY <1>1, <1>2, Lists, SignersOf
<1>4. \A k \in 1 .. n : x[k] = s[k].validatorIndex
  BY <1>1, Lists, Zenon
<1> HIDE DEF x
<1>5. DOMAIN x = 1 .. n
  BY <1>3, SequenceOf
<1> DEFINE signed == {Signature(x[i], BLSDigest(view, hash)) : i \in DOMAIN x}
<1>6. {v.signature : v \in U} = signed
  <2>1. ASSUME NEW v \in U
        PROVE  v.signature \in signed
    <3>1. PICK k \in 1 .. n : v = s[k]
      BY <1>1
    <3>2. v.signature = Signature(x[k], BLSDigest(view, hash))
      BY <1>2, <1>4, <3>1
    <3> QED
      BY <1>5, <3>2
  <2>2. ASSUME NEW k \in 1 .. n
        PROVE  Signature(x[k], BLSDigest(view, hash)) \in {v.signature : v \in U}
    <3>1. s[k] \in U
      BY <1>1
    <3>2. Signature(x[k], BLSDigest(view, hash)) = s[k].signature
      BY <1>2, <1>4, <3>1
    <3> QED
      BY <3>1, <3>2
  <2> QED
    BY <1>5, <2>1, <2>2
<1> HIDE DEF signed
<1>7. c = [ view |-> view, node |-> hash, signers |-> x, timestamps |-> <<>>,
            cryptoScheme |-> "bls", aggregateSignature |-> <<signed>> ]
  <2>1. AggregateBLSSignatures(U) = [ aggregate |-> <<signed>>, timestamps |-> <<>> ]
    BY <1>6, Zenon DEF AggregateBLSSignatures
  <2>2. /\ AggregateBLSSignatures(U).aggregate = <<signed>>
        /\ AggregateBLSSignatures(U).timestamps = <<>>
    BY <2>1
  <2> QED
    BY <1>1, <2>2, Zenon DEF Formed, x, s
<1>8. /\ c.view = view /\ c.node = hash /\ c.signers = x
      /\ c.cryptoScheme = "bls" /\ c.aggregateSignature = <<signed>>
  BY <1>7
<1>9. ValidateBLS(c)
  BY <1>8, Zenon DEF ValidateBLS, signed
<1> QED
  BY <1>3, <1>8, <1>9 DEF Validate, ValidateScheme, c

\* The signers of any certificate that was formed.
LEMMA SignersFormed ==
  ASSUME NEW view, NEW hash, NEW vs, IsSequence(vs), NEW sch,
         \A k \in 1 .. Len(vs) : Made(vs[k], sch),
         NewQC(view, hash, vs, sch) # NoCertificate
  PROVE  IsSequence(NewQC(view, hash, vs, sch).signers)
<1> DEFINE U == UniqueVotes(vs)
           s == ByIndex(U)
           n == Len(s)
           c == NewQC(view, hash, vs, sch)
<1>1. IsSequence(s) /\ c = Formed(view, hash, U, sch)
  <2>1. Collected(view, hash, vs, sch) /\ c = Formed(view, hash, U, sch)
    BY NewQCParts
  <2> QED
    BY <2>1, Zenon DEF Collected
<1> HIDE DEF U, c
<1>2. IsSequence(Indices(s))
  BY <1>1, Lists
<1>3. c.signers = Indices(s)
  BY <1>1 DEF Formed
<1> QED
  BY <1>2, <1>3 DEF c

\* A valid certificate stands for a quorum, each of which signed.
LEMMA QuorumBehind ==
  ASSUME NEW c, IsSequence(c.signers), Validate(c)
  PROVE  LET backers == ToSet(c.signers)
             k == Len(c.signers)
         IN  /\ backers \subseteq Replicas
             /\ IsQuorum(backers)
             /\ c.cryptoScheme = "ed25519" =>
                  \A i \in backers : \E j \in 1 .. k :
                    c.aggregateSignature[k + 1 + j] =
                      Signature(i, Digest(c.view, c.node, i, c.timestamps[j]))
<1> DEFINE x == c.signers
           backers == ToSet(x)
           k == Len(x)
<1>1. k \in Nat /\ DOMAIN x = 1 .. k /\ x \in [1 .. k -> backers]
  <2>1. k \in Nat /\ DOMAIN x = 1 .. k /\ x = [i \in 1 .. k |-> x[i]]
    BY SequenceOf DEF IsSequence
  <2>2. \A i \in 1 .. k : x[i] \in backers
    BY <2>1 DEF ToSet
  <2> HIDE DEF k, x, backers
  <2> QED
    BY <2>1, <2>2
<1>2. k >= Quorum /\ backers \subseteq Replicas /\ IsInjective(x) /\ ValidateScheme(c)
  BY DEF Validate
<1>3. \A i \in backers : \E j \in 1 .. k : i = x[j]
  BY <1>1 DEF ToSet
<1> HIDE DEF k, x, backers
<1>4. Cardinality(backers) = k
  <2>1. x \in Surjection(1 .. k, backers)
    BY <1>1, <1>3 DEF Surjection
  <2>2. x \in Injection(1 .. k, backers)
    BY <1>1, <1>2 DEF Injection, IsInjective
  <2>3. IsFiniteSet(1 .. k) /\ Cardinality(1 .. k) = k
    BY <1>1, FS_Interval
  <2> QED
    BY <2>1, <2>2, <2>3, FS_Surjection, Zenon
<1>5. IsQuorum(backers)
  BY <1>2, <1>4 DEF IsQuorum
<1>6. ASSUME c.cryptoScheme = "ed25519", NEW i \in backers
      PROVE  \E j \in 1 .. k : c.aggregateSignature[k + 1 + j] =
               Signature(i, Digest(c.view, c.node, i, c.timestamps[j]))
  <2>1. ValidateEd25519(c)
    BY <1>2, <1>6 DEF ValidateScheme
  <2>2. PICK j \in 1 .. k : i = x[j]
    BY <1>3
  <2>3. c.aggregateSignature[1 + k + j] =
          Signature(x[j], Digest(c.view, c.node, x[j], c.timestamps[j]))
    BY <2>1, Zenon DEF ValidateEd25519, k, x
  <2>4. 1 + k + j = k + 1 + j
    BY <1>1
  <2> QED
    BY <2>2, <2>3, <2>4
<1> QED
  BY <1>2, <1>5, <1>6, Zenon DEF k, x, backers

\* Decoding has one of three results.
Result(x) == x.result \in {"decoded", "error", "panic"}

LEMMA Results ==
  ASSUME NEW data
  PROVE  Result(MessageFromBytes(data))
<1>1. Result(Error) /\ Result(Panic) /\ \A x : Result(Ok(x))
  BY DEF Result, Error, Panic, Ok
<1>2. \A p : Result(QCFromBytes(p))
  BY <1>1, Zenon DEF QCFromBytes
<1>3. \A f, p : Result(QCAfterFlag(f, p))
  BY <1>1, <1>2, Zenon DEF QCAfterFlag
<1>4. \A p : Result(VoteFromBytes(p))
  BY <1>1, Zenon DEF VoteFromBytes
<1>5. \A v, i, p : Result(DeserializePropose(v, i, p))
  BY <1>1, <1>3, Zenon DEF DeserializePropose
<1>6. \A v, i, p : Result(DeserializeVote(v, i, p))
  BY <1>1, <1>4, Zenon DEF DeserializeVote
<1>7. \A v, i, p : Result(DeserializeNewView(v, i, p))
  BY <1>1, <1>3, Zenon DEF DeserializeNewView
<1>8. \A t, v, i, p : Result(Payload(t, v, i, p))
  BY <1>1, <1>5, <1>6, <1>7, Zenon DEF Payload
<1>9. MessageFromBytes(data) =
        IF Len(data) < 3 THEN Error ELSE Payload(data[1], data[2], data[3], From(data, 4))
  BY Zenon DEF MessageFromBytes, Payload
<1> QED
  BY <1>1, <1>8, <1>9, Zenon

-----------------------------------------------------------------------------
(* The exchange *)

Answered == {"decoded", "error", "panic"}
Certified == {"formed", "valid", "invalid"}

\* The certificate that goes into a message or is checked.
CertificateOK ==
  phase \in Certified =>
    IF votes = <<>> THEN cert \in Received
    ELSE /\ cert # NoCertificate
         /\ cert = NewQC(votes[1].view, votes[1].nodeHash, votes, scheme)

CheckedOK ==
  /\ phase = "valid" => Validate(cert)
  /\ phase = "invalid" => ~Validate(cert)

\* What was sent is a message, and the wire holds the beginning of its encoding.
WireOK ==
  /\ phase = "sent" => Message(sent) /\ wire = MessageBytes(sent)
  /\ phase \in Answered \cup {"arrived"} =>
       /\ Message(sent)
       /\ \E n \in 0 .. Len(MessageBytes(sent)) : wire = SubSeq(MessageBytes(sent), 1, n)

DecodedOK ==
  phase \in Answered =>
    /\ phase = MessageFromBytes(wire).result
    /\ phase = "decoded" => got = MessageFromBytes(wire).value

VotesOK ==
  /\ scheme \in Schemes
  /\ IsSequence(votes)
  /\ \A k \in 1 .. Len(votes) : Made(votes[k], scheme)

CInv == VotesOK /\ CertificateOK /\ CheckedOK /\ WireOK /\ DecodedOK

LEMMA OneMore ==
  ASSUME NEW s, IsSequence(s), NEW x
  PROVE  /\ IsSequence(Append(s, x))
         /\ Len(Append(s, x)) = Len(s) + 1
         /\ \A k \in 1 .. Len(s) + 1 : Append(s, x)[k] = IF k <= Len(s) THEN s[k] ELSE x
<1> DEFINE S == ToSet(s) \cup {x}
<1>1. s \in Seq(S) /\ x \in S /\ Len(s) \in Nat
  BY SequenceOf, SeqMonotonic
<1> HIDE DEF S
<1>2. Append(s, x) \in Seq(S)
  BY <1>1, AppendProperties
<1>3. /\ Len(Append(s, x)) = Len(s) + 1
      /\ \A k \in 1 .. Len(s) + 1 : Append(s, x)[k] = IF k <= Len(s) THEN s[k] ELSE x
  BY <1>1, AppendProperties
<1> QED
  BY <1>2, <1>3, ASequence

\* One vote more.
LEMMA VoteAdded ==
  ASSUME NEW s, IsSequence(s), NEW sch, NEW v, Made(v, sch),
         \A k \in 1 .. Len(s) : Made(s[k], sch)
  PROVE  IsSequence(Append(s, v)) /\ \A k \in 1 .. Len(Append(s, v)) : Made(Append(s, v)[k], sch)
<1>1. /\ IsSequence(Append(s, v)) /\ Len(s) \in Nat
      /\ Len(Append(s, v)) = Len(s) + 1
      /\ \A k \in 1 .. Len(s) + 1 : Append(s, v)[k] = IF k <= Len(s) THEN s[k] ELSE v
  BY OneMore, SequenceOf
<1>2. ASSUME NEW k \in 1 .. Len(s) + 1
      PROVE  Made(Append(s, v)[k], sch)
  <2>1. CASE k <= Len(s)
    <3>1. k \in 1 .. Len(s) /\ Append(s, v)[k] = s[k]
      BY <1>1, <2>1
    <3> QED
      BY <3>1
  <2>2. CASE ~(k <= Len(s))
    BY <1>1, <2>2
  <2> QED
    BY <2>1, <2>2
<1> QED
  BY <1>1, <1>2

LEMMA CInit == Init => CInv
<1> SUFFICES ASSUME Init PROVE CInv
  OBVIOUS
<1>1. IsSequence(<<>>) /\ Len(<<>>) = 0
  <2>1. <<>> \in Seq({}) /\ Len(<<>>) = 0
    BY EmptySeq
  <2> QED
    BY <2>1, ASequence
<1>2. VotesOK
  BY <1>1 DEF Init, VotesOK
<1> QED
  BY <1>2 DEF Init, CInv, CertificateOK, CheckedOK, WireOK, DecodedOK, Answered, Certified

\* The certificate of an Ed25519 message can be encoded.
LEMMA CertificateEncodable ==
  ASSUME VotesOK, CertificateOK, phase \in Certified, cert.cryptoScheme = "ed25519"
  PROVE  Encodable(cert)
<1>1. CASE votes = <<>>
  <2>1. cert \in Received
    BY <1>1 DEF CertificateOK
  <2> QED
    BY <2>1, ReceivedAssumption DEF Encodable
<1>2. CASE votes # <<>>
  <2>1. /\ cert # NoCertificate
        /\ cert = NewQC(votes[1].view, votes[1].nodeHash, votes, scheme)
    BY <1>2 DEF CertificateOK
  <2>2. /\ IsSequence(votes) /\ scheme \in Schemes
        /\ \A k \in 1 .. Len(votes) : Made(votes[k], scheme)
    BY DEF VotesOK
  <2>3. cert = Formed(votes[1].view, votes[1].nodeHash, UniqueVotes(votes), scheme)
    BY <2>1, <2>2, NewQCParts
  <2>4. scheme = "ed25519"
    BY <2>3 DEF Formed
  <2> QED
    BY <2>1, <2>2, <2>4, FormedEd25519
<1> QED
  BY <1>1, <1>2

LEMMA CNext == CInv /\ [Next]_vars => CInv'
<1> SUFFICES ASSUME CInv, [Next]_vars PROVE CInv'
  OBVIOUS
<1> USE DEF Answered, Certified
<1>1. VotesOK /\ CertificateOK /\ CheckedOK /\ WireOK /\ DecodedOK
  BY DEF CInv
<1>2. CASE CollectVote
  <2>1. /\ phase = "collecting" /\ phase' = "collecting" /\ scheme' = scheme
    BY <1>2 DEF CollectVote
  <2>2. PICK view \in Views, hash \in Hashes, i \in Replicas, timestamp \in Times :
          votes' = Append(votes, NewVote(view, hash, i, timestamp))
    BY <1>2, Zenon DEF CollectVote
  <2>3. Made(NewVote(view, hash, i, timestamp), scheme)
    BY CodecAssumption DEF Made, NewVote, VoteRecord
  <2>4. VotesOK'
    BY <1>1, <2>1, <2>2, <2>3, VoteAdded DEF VotesOK
  <2> QED
    BY <2>1, <2>4 DEF CInv, CertificateOK, CheckedOK, WireOK, DecodedOK
<1>3. CASE CollectBLSVote
  <2>1. /\ phase = "collecting" /\ phase' = "collecting" /\ scheme' = scheme /\ scheme = "bls"
    BY <1>3 DEF CollectBLSVote
  <2>2. PICK view \in Views, hash \in Hashes, i \in Replicas :
          votes' = Append(votes, NewBLSVote(view, hash, i))
    BY <1>3, Zenon DEF CollectBLSVote
  <2>3. Made(NewBLSVote(view, hash, i), scheme)
    BY <2>1 DEF Made, NewBLSVote, VoteRecord
  <2>4. VotesOK'
    BY <1>1, <2>1, <2>2, <2>3, VoteAdded DEF VotesOK
  <2> QED
    BY <2>1, <2>4 DEF CInv, CertificateOK, CheckedOK, WireOK, DecodedOK
<1>4. CASE Form
  <2>1. /\ votes # <<>> /\ UNCHANGED <<scheme, votes>>
        /\ cert' = NewQC(votes[1].view, votes[1].nodeHash, votes, scheme)
        /\ phase' = IF cert' = NoCertificate THEN "not formed" ELSE "formed"
    BY <1>4 DEF Form
  <2>2. VotesOK' /\ CertificateOK'
    BY <1>1, <2>1 DEF VotesOK, CertificateOK
  <2>3. phase' \in {"not formed", "formed"}
    BY <2>1
  <2> QED
    BY <2>2, <2>3 DEF CInv, CheckedOK, WireOK, DecodedOK
<1>5. CASE ReceiveCertificate
  <2>1. /\ votes = <<>> /\ UNCHANGED <<scheme, votes>> /\ cert' \in Received
        /\ phase' = "formed"
    BY <1>5 DEF ReceiveCertificate
  <2>2. VotesOK' /\ CertificateOK'
    BY <1>1, <2>1 DEF VotesOK, CertificateOK
  <2> QED
    BY <2>1, <2>2 DEF CInv, CheckedOK, WireOK, DecodedOK
<1>6. CASE Send
  <2>1. /\ phase = "formed" /\ cert.cryptoScheme = "ed25519" /\ phase' = "sent"
        /\ wire' = MessageBytes(sent') /\ UNCHANGED <<scheme, votes>>
        /\ \/ sent' = [type |-> "PROPOSE", view |-> cert.view, validatorIndex |-> 0,
                       block |-> cert.node, qc |-> cert]
           \/ sent' = [type |-> "NEWVIEW", view |-> cert.view, validatorIndex |-> 0,
                       qc |-> cert]
    BY <1>6 DEF Send
  <2>2. GoodQC(cert)
    BY <1>1, <2>1, CertificateEncodable DEF GoodQC
  <2>3. Message(sent')
    BY <2>1, <2>2 DEF Message
  <2>4. VotesOK'
    BY <1>1, <2>1 DEF VotesOK
  <2> QED
    BY <2>1, <2>3, <2>4 DEF CInv, CertificateOK, CheckedOK, WireOK, DecodedOK
<1>7. CASE SendPlain
  <2>1. /\ Len(votes) = 1 /\ phase' = "sent"
        /\ wire' = MessageBytes(sent') /\ UNCHANGED <<scheme, votes>>
        /\ \/ sent' = [type |-> "VOTE", view |-> votes[1].view,
                       validatorIndex |-> votes[1].validatorIndex, vote |-> votes[1]]
           \/ sent' = [type |-> "PROPOSE", view |-> votes[1].view, validatorIndex |-> 0,
                       block |-> votes[1].nodeHash, qc |-> NoCertificate]
           \/ sent' = [type |-> "NEWVIEW", view |-> votes[1].view, validatorIndex |-> 0,
                       qc |-> NoCertificate]
    BY <1>7 DEF SendPlain
  <2>2. votes[1] = VoteRecord(votes[1].view, votes[1].nodeHash, votes[1].validatorIndex,
                              votes[1].timestamp, votes[1].signature)
    BY <1>1, <2>1 DEF VotesOK, Made
  <2>3. GoodQC(NoCertificate)
    BY DEF GoodQC
  <2>4. Message(sent')
    BY <2>1, <2>2, <2>3 DEF Message
  <2>5. VotesOK'
    BY <1>1, <2>1 DEF VotesOK
  <2> QED
    BY <2>1, <2>4, <2>5 DEF CInv, CertificateOK, CheckedOK, WireOK, DecodedOK
<1>8. CASE Arrive
  <2>1. /\ phase = "sent" /\ phase' = "arrived" /\ UNCHANGED <<scheme, votes, cert, sent>>
        /\ \E n \in 0 .. Len(wire) : wire' = SubSeq(wire, 1, n)
    BY <1>8 DEF Arrive
  <2>2. Message(sent) /\ wire = MessageBytes(sent)
    BY <1>1, <2>1 DEF WireOK
  <2>3. VotesOK'
    BY <1>1, <2>1 DEF VotesOK
  <2>4. Message(sent') /\ MessageBytes(sent') = wire
    BY <2>1, <2>2
  <2> QED
    BY <2>1, <2>3, <2>4 DEF CInv, CertificateOK, CheckedOK, WireOK, DecodedOK
<1>9. CASE Decode
  <2> DEFINE m == MessageFromBytes(wire)
  <2>1. /\ phase = "arrived" /\ UNCHANGED <<scheme, votes, cert, sent, wire>>
        /\ phase' = m.result
        /\ got' = IF Failed(m) THEN NoMessage ELSE m.value
    BY <1>9 DEF Decode
  <2>2. m.result \in {"decoded", "error", "panic"}
    BY Results DEF Result
  <2>3. WireOK'
    BY <1>1, <2>1, <2>2 DEF WireOK
  <2>4. VotesOK'
    BY <1>1, <2>1 DEF VotesOK
  <2>5. DecodedOK'
    BY <2>1 DEF DecodedOK, Failed
  <2> HIDE DEF m
  <2> QED
    BY <2>1, <2>2, <2>3, <2>4, <2>5 DEF CInv, CertificateOK, CheckedOK
<1>10. CASE Check
  <2>1. /\ phase = "formed" /\ UNCHANGED <<scheme, votes, cert>>
        /\ phase' = IF Validate(cert) THEN "valid" ELSE "invalid"
    BY <1>10 DEF Check
  <2>2. phase' \in {"valid", "invalid"}
    BY <2>1
  <2>3. VotesOK' /\ CertificateOK'
    BY <1>1, <2>1 DEF VotesOK, CertificateOK
  <2>4. Validate(cert)' <=> Validate(cert)
    BY <2>1 DEF Validate, ValidateScheme, ValidateEd25519, ValidateBLS
  <2>5. CheckedOK'
    BY <2>1, <2>4 DEF CheckedOK
  <2> QED
    BY <2>2, <2>3, <2>5 DEF CInv, WireOK, DecodedOK
<1>11. CASE UNCHANGED vars
  BY <1>1, <1>11 DEF vars, CInv, VotesOK, CertificateOK, CheckedOK, WireOK, DecodedOK
<1> QED
  BY <1>2, <1>3, <1>4, <1>5, <1>6, <1>7, <1>8, <1>9, <1>10, <1>11, Zenon DEF Next

LEMMA CInvariant == Spec => []CInv
  BY CInit, CNext, PTL DEF Spec

LEMMA HoldsIf == CInv => FormedCertificatesHold
<1> SUFFICES ASSUME CInv, phase = "invalid", votes # <<>>
             PROVE  scheme = "bls" /\ \E k \in DOMAIN votes : votes[k].timestamp # 0
  BY DEF FormedCertificatesHold
<1>1. /\ IsSequence(votes) /\ scheme \in Schemes
      /\ \A k \in 1 .. Len(votes) : Made(votes[k], scheme)
  BY DEF CInv, VotesOK
<1>2. DOMAIN votes = 1 .. Len(votes)
  BY <1>1, SequenceOf
<1>3. /\ cert # NoCertificate
      /\ cert = NewQC(votes[1].view, votes[1].nodeHash, votes, scheme)
      /\ ~Validate(cert)
  BY DEF CInv, CertificateOK, CheckedOK, Certified
<1>4. scheme # "ed25519"
  BY <1>1, <1>3, FormedEd25519
<1>5. scheme = "bls"
  BY <1>1, <1>4 DEF Schemes
<1>6. ~ \A k \in 1 .. Len(votes) : votes[k].timestamp = 0
  BY <1>1, <1>3, <1>5, FormedBLS
<1> QED
  BY <1>2, <1>5, <1>6

LEMMA QuorumsIf == CInv => CertificatesAreQuorums
<1> SUFFICES ASSUME CInv, phase = "valid" PROVE CertificatesAreQuorums
  BY DEF CertificatesAreQuorums
<1>1. Validate(cert)
  BY DEF CInv, CheckedOK
<1>2. IsSequence(cert.signers)
  <2>1. CASE votes = <<>>
    <3>1. cert \in Received
      BY <2>1 DEF CInv, CertificateOK, Certified
    <3> QED
      BY <3>1, ReceivedAssumption
  <2>2. CASE votes # <<>>
    <3>1. /\ cert # NoCertificate
          /\ cert = NewQC(votes[1].view, votes[1].nodeHash, votes, scheme)
      BY <2>2 DEF CInv, CertificateOK, Certified
    <3>2. IsSequence(votes) /\ \A k \in 1 .. Len(votes) : Made(votes[k], scheme)
      BY DEF CInv, VotesOK
    <3> QED
      BY <3>1, <3>2, SignersFormed
  <2> QED
    BY <2>1, <2>2
<1> QED
  BY <1>1, <1>2, QuorumBehind, Zenon DEF CertificatesAreQuorums

\* What the first cells of an encoding are decoded to.
LEMMA WireDecoded ==
  ASSUME Message(sent), Fits, NEW n \in 0 .. Len(MessageBytes(sent)),
         wire = SubSeq(MessageBytes(sent), 1, n)
  PROVE  IsSequence(MessageBytes(sent))
         /\ Decodes(MessageBytes(sent), n, MessageFromBytes(wire), sent)
  BY MessageDecoded DEF Fits

LEMMA DecodedIf == CInv => RoundTrip /\ CutMessagesAreRefused
<1> SUFFICES ASSUME CInv, phase \in Answered, Fits
             PROVE  /\ wire = MessageBytes(sent) => phase = "decoded" /\ got = sent
                    /\ phase = "decoded" => wire = MessageBytes(sent)
  BY DEF RoundTrip, CutMessagesAreRefused, Whole, Answered
<1> DEFINE d == MessageBytes(sent)
           m == MessageFromBytes(wire)
<1>1. Message(sent) /\ \E n \in 0 .. Len(d) : wire = SubSeq(d, 1, n)
  BY DEF CInv, WireOK
<1>2. phase = m.result /\ (phase = "decoded" => got = m.value)
  BY DEF CInv, DecodedOK
<1>3. PICK n \in 0 .. Len(d) : wire = SubSeq(d, 1, n)
  BY <1>1
<1>4. IsSequence(d) /\ Decodes(d, n, m, sent)
  BY <1>1, <1>3, WireDecoded
<1> HIDE DEF d, m
<1>5. SubSeq(d, 1, Len(d)) = d /\ Len(d) \in Nat
  BY <1>4, WholeOf, SequenceOf
<1>6. CASE n = Len(d)
  <2>1. m = Ok(sent)
    BY <1>4, <1>6 DEF Decodes
  <2>2. m.result = "decoded" /\ m.value = sent
    BY <2>1 DEF Ok
  <2> QED
    BY <1>2, <1>3, <1>5, <1>6, <2>2 DEF d
<1>7. CASE n # Len(d)
  <2>1. Failed(m)
    BY <1>4, <1>7 DEF Decodes
  <2>2. phase # "decoded"
    BY <1>2, <2>1 DEF Failed
  <2>3. wire # d
    <3>1. Len(wire) = n
      BY <1>3, <1>4, FrontOf
    <3> QED
      BY <1>7, <3>1
  <2> QED
    BY <2>2, <2>3 DEF d
<1> QED
  BY <1>6, <1>7

\* What a replica forms from the votes it verified is valid for every other one:
\* NewQC puts the signers, the signatures and the timestamps of an Ed25519
\* certificate in one order whatever order the votes came in and however often a
\* validator voted; of BLS votes the same holds unless a vote of NewVote is
\* among them.
THEOREM FormedAreValid == Spec => []FormedCertificatesHold
  BY CInvariant, HoldsIf, PTL

\* A certificate that passes Validate, decoded from anywhere, has a quorum of
\* different validators behind it, and each of an Ed25519 one signed its view
\* and block.
THEOREM ValidAreQuorums == Spec => []CertificatesAreQuorums
  BY CInvariant, QuorumsIf, PTL

\* MessageFromBytes gives back what MessageBytes encoded, for any number of
\* signers whose aggregate fits its length field.
THEOREM DecodingReturnsTheMessage == Spec => []RoundTrip
  BY CInvariant, DecodedIf, PTL

\* Of a message that was cut short anywhere MessageFromBytes makes none.
THEOREM NoMessageFromAPart == Spec => []CutMessagesAreRefused
  BY CInvariant, DecodedIf, PTL
==============================================================================
