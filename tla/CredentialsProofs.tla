------------------------- MODULE CredentialsProofs --------------------------
(***************************************************************************)
(* Proofs about Credentials for salts and hashes of every length and every *)
(* derivation function.                                                    *)
(***************************************************************************)
EXTENDS Credentials, SequenceTheorems, TLAPS

LEMMA DigitsDiffer ==
    \A u, v \in 0 .. 15 : HexDigit[u + 1] = HexDigit[v + 1] => u = v
  BY DEF HexDigit

LEMMA ValueOfDigit ==
    ASSUME NEW v \in 0 .. 15
    PROVE  Value(HexDigit[v + 1]) = v
  BY DigitsDiffer DEF Value

HexChars == {HexDigit[v + 1] : v \in 0 .. 15}

LEMMA DigitsAreNoDollar == "$" \notin HexChars
  BY DEF HexDigit, HexChars

LEMMA Halves ==
    ASSUME NEW b \in Byte
    PROVE  /\ b \div 16 \in 0 .. 15 /\ b % 16 \in 0 .. 15
           /\ 16 * (b \div 16) + (b % 16) = b
<1>1. b \in Nat /\ b < 256
  BY DEF Byte
<1>2. b \div 16 \in 0 .. 15
  BY <1>1
<1>3. b % 16 \in 0 .. 15
  BY <1>1
<1>4. 16 * (b \div 16) + (b % 16) = b
  BY <1>1
<1> QED
  BY <1>2, <1>3, <1>4

LEMMA HexIs ==
    ASSUME NEW data \in Seq(Byte)
    PROVE  /\ toHex(data) \in Seq(HexChars) /\ Len(toHex(data)) = 2 * Len(data)
           /\ \A i \in 1 .. Len(data) :
                /\ toHex(data)[2 * i - 1] = HexDigit[(data[i] \div 16) + 1]
                /\ toHex(data)[2 * i] = HexDigit[(data[i] % 16) + 1]
<1> DEFINE n == Len(data)
           h == toHex(data)
           d(i) == IF i % 2 = 1 THEN data[(i + 1) \div 2] \div 16 ELSE data[(i + 1) \div 2] % 16
<1>0. n \in Nat /\ \A i \in 1 .. n : data[i] \in Byte
  BY LenProperties, ElementOfSeq
<1>1. h = [i \in 1 .. 2 * n |-> HexDigit[1 + d(i)]]
  BY DEF toHex
<1>2. ASSUME NEW i \in 1 .. 2 * n PROVE d(i) \in 0 .. 15 /\ 1 + d(i) = d(i) + 1
  <2>1. (i + 1) \div 2 \in 1 .. n
    BY <1>0
  <2> QED
    BY <1>0, <2>1, Halves
<1>3. \A i \in 1 .. 2 * n : h[i] = HexDigit[d(i) + 1]
  BY <1>1, <1>2
<1>4. \A i \in 1 .. 2 * n : h[i] \in HexChars
  BY <1>2, <1>3 DEF HexChars
<1>5. h \in Seq(HexChars) /\ Len(h) = 2 * n
  <2>1. 2 * n \in Nat /\ DOMAIN h = 1 .. 2 * n
    BY <1>0, <1>1
  <2>2. h \in [1 .. 2 * n -> HexChars]
    BY <1>1, <1>4
  <2> QED
    BY <2>1, <2>2, LenProperties
<1>6. ASSUME NEW i \in 1 .. n
      PROVE  /\ h[2 * i - 1] = HexDigit[(data[i] \div 16) + 1]
             /\ h[2 * i] = HexDigit[(data[i] % 16) + 1]
  <2>1. /\ 2 * i - 1 \in 1 .. 2 * n /\ (2 * i - 1) % 2 = 1 /\ (2 * i - 1 + 1) \div 2 = i
        /\ 2 * i \in 1 .. 2 * n /\ (2 * i) % 2 # 1 /\ (2 * i + 1) \div 2 = i
    BY <1>0
  <2>2. d(2 * i - 1) = data[i] \div 16 /\ d(2 * i) = data[i] % 16
    BY <2>1
  <2> QED
    BY <1>3, <2>1, <2>2
<1> QED
  BY <1>4, <1>5, <1>6

\* What toBinary reads of the digits of a salt is the salt.
THEOREM HexRoundTrip ==
    ASSUME NEW data \in Seq(Byte)
    PROVE  toBinary(toHex(data)) = data
<1> DEFINE n == Len(data)
           h == toHex(data)
           b == toBinary(h)
<1>0. n \in Nat /\ \A i \in 1 .. n : data[i] \in Byte
  BY LenProperties, ElementOfSeq
<1>1. Len(h) = 2 * n /\ (2 * n + 1) \div 2 = n
  BY <1>0, HexIs
<1>2. b = [i \in 1 .. n |-> IF 2 * i <= 2 * n THEN 16 * Value(h[2 * i - 1]) + Value(h[2 * i])
                            ELSE Value(h[2 * i - 1])]
  BY <1>1 DEF toBinary
<1>3. ASSUME NEW i \in 1 .. n PROVE b[i] = data[i]
  <2>1. /\ h[2 * i - 1] = HexDigit[(data[i] \div 16) + 1]
        /\ h[2 * i] = HexDigit[(data[i] % 16) + 1]
    BY HexIs
  <2>2. data[i] \div 16 \in 0 .. 15 /\ data[i] % 16 \in 0 .. 15
        /\ 16 * (data[i] \div 16) + (data[i] % 16) = data[i]
    BY <1>0, Halves
  <2>3. Value(h[2 * i - 1]) = data[i] \div 16 /\ Value(h[2 * i]) = data[i] % 16
    BY <2>1, <2>2, ValueOfDigit
  <2>4. 2 * i <= 2 * n
    BY <1>0
  <2>5. b[i] = 16 * Value(h[2 * i - 1]) + Value(h[2 * i])
    BY <1>2, <2>4
  <2> QED
    BY <2>2, <2>3, <2>5
<1>4. data = [i \in 1 .. n |-> data[i]]
  BY LenProperties
<1> HIDE DEF b, h, n
<1>5. b = data
  BY <1>2, <1>3, <1>4
<1> QED
  BY <1>5 DEF b, h

Chars == HexChars \cup {"$", "pbkdf2", Iterations}

\* Where the parts of a stored text are.
LEMMA Encoded ==
    ASSUME NEW salt \in Seq(Byte), NEW hash \in Seq(Byte)
    PROVE  /\ Len(toHex(salt)) \in Nat /\ Len(toHex(hash)) \in Nat
           /\ encodeResult(salt, hash) \in Seq(Chars)
           /\ Len(encodeResult(salt, hash)) = 6 + Len(toHex(salt)) + Len(toHex(hash))
           /\ encodeResult(salt, hash)[1] = "$" /\ encodeResult(salt, hash)[2] = "pbkdf2"
           /\ encodeResult(salt, hash)[3] = "$" /\ encodeResult(salt, hash)[4] = Iterations
           /\ encodeResult(salt, hash)[5] = "$"
           /\ encodeResult(salt, hash)[6 + Len(toHex(salt))] = "$"
           /\ \A i \in 1 .. Len(toHex(salt)) : encodeResult(salt, hash)[5 + i] = toHex(salt)[i]
           /\ \A i \in 1 .. Len(toHex(hash)) :
                encodeResult(salt, hash)[6 + Len(toHex(salt)) + i] = toHex(hash)[i]
<1> DEFINE hs == toHex(salt)
           hh == toHex(hash)
           a  == Len(hs)
           b  == Len(hh)
           t  == encodeResult(salt, hash)
           p  == <<"$", "pbkdf2", "$", Iterations, "$">>
           q  == <<"$">>
<1>1. /\ p \in Seq(Chars) /\ Len(p) = 5 /\ p[1] = "$" /\ p[2] = "pbkdf2" /\ p[3] = "$"
      /\ p[4] = Iterations /\ p[5] = "$"
      /\ q \in Seq(Chars) /\ Len(q) = 1 /\ q[1] = "$"
  BY DEF Chars
<1>2. hs \in Seq(Chars) /\ hh \in Seq(Chars) /\ a = Len(hs) /\ b = Len(hh)
  <2>1. hs \in Seq(HexChars) /\ hh \in Seq(HexChars)
    BY HexIs
  <2> QED
    BY <2>1, SeqMonotonic DEF Chars
<1>3. t = ((p \o hs) \o q) \o hh
  BY DEF encodeResult
<1> HIDE DEF p, q, hs, hh, t
<1> DEFINE t1 == p \o hs
           t2 == t1 \o q
<1>4. a \in Nat /\ b \in Nat
  BY <1>2, LenProperties
<1> HIDE DEF a, b
<1>5. /\ t1 \in Seq(Chars) /\ Len(t1) = 5 + a
      /\ \A i \in 1 .. 5 + a : t1[i] = IF i <= 5 THEN p[i] ELSE hs[i - 5]
  <2>1. /\ t1 \in Seq(Chars) /\ Len(t1) = Len(p) + Len(hs)
        /\ \A i \in 1 .. Len(p) + Len(hs) : t1[i] = IF i <= Len(p) THEN p[i] ELSE hs[i - Len(p)]
    BY <1>1, <1>2, ConcatProperties
  <2> HIDE DEF t1
  <2> QED
    BY <1>1, <1>2, <2>1
<1> HIDE DEF t1
<1>6. /\ t2 \in Seq(Chars) /\ Len(t2) = 6 + a
      /\ \A i \in 1 .. 6 + a : t2[i] = IF i <= 5 + a THEN t1[i] ELSE q[i - (5 + a)]
  <2>1. /\ t2 \in Seq(Chars) /\ Len(t2) = Len(t1) + Len(q)
        /\ \A i \in 1 .. Len(t1) + Len(q) : t2[i] = IF i <= Len(t1) THEN t1[i] ELSE q[i - Len(t1)]
    BY <1>1, <1>5, ConcatProperties
  <2> HIDE DEF t2
  <2>2. Len(t1) + Len(q) = 6 + a
    BY <1>1, <1>4, <1>5
  <2> QED
    BY <1>5, <2>1, <2>2
<1> HIDE DEF t2
<1>7. /\ t \in Seq(Chars) /\ Len(t) = 6 + a + b
      /\ \A i \in 1 .. 6 + a + b : t[i] = IF i <= 6 + a THEN t2[i] ELSE hh[i - (6 + a)]
  <2> DEFINE t3 == t2 \o hh
  <2>1. t = t3
    BY <1>3 DEF t1, t2
  <2>2. /\ t3 \in Seq(Chars) /\ Len(t3) = Len(t2) + Len(hh)
        /\ \A i \in 1 .. Len(t2) + Len(hh) : t3[i] = IF i <= Len(t2) THEN t2[i] ELSE hh[i - Len(t2)]
    <3>1. t2 \in Seq(Chars) /\ hh \in Seq(Chars)
      BY <1>2, <1>6
    <3> QED
      BY <3>1, ConcatProperties
  <2> HIDE DEF t3
  <2> QED
    BY <1>2, <1>6, <2>1, <2>2
<1>8. ASSUME NEW i \in 1 .. 5 PROVE t[i] = p[i]
  <2>1. i \in 1 .. 5 + a /\ i \in 1 .. 6 + a /\ i \in 1 .. 6 + a + b /\ i <= 5 + a /\ i <= 6 + a
    BY <1>4
  <2>2. t1[i] = p[i]
    BY <1>5, <2>1
  <2>3. t2[i] = t1[i]
    BY <1>6, <2>1
  <2>4. t[i] = t2[i]
    BY <1>7, <2>1
  <2> QED
    BY <2>2, <2>3, <2>4
<1>9. ASSUME NEW i \in 1 .. a PROVE t[5 + i] = hs[i]
  <2>1. ASSUME NEW j \in 1 .. 5 + a, ~(j <= 5), j - 5 = i PROVE t1[j] = hs[i]
    BY <1>5, <2>1
  <2> DEFINE k == 5 + i
  <2>2. /\ k \in 1 .. 5 + a /\ k \in 1 .. 6 + a /\ k \in 1 .. 6 + a + b
        /\ k <= 5 + a /\ k <= 6 + a /\ ~(k <= 5) /\ k - 5 = i
    BY <1>4
  <2> HIDE DEF k
  <2>3. t1[k] = hs[i]
    BY <2>1, <2>2
  <2>4. t2[k] = t1[k]
    BY <1>6, <2>2
  <2>5. t[k] = t2[k]
    BY <1>7, <2>2
  <2> QED
    BY <2>3, <2>4, <2>5 DEF k
<1>10. t[6 + a] = "$"
  <2>1. ASSUME NEW j \in 1 .. 6 + a, ~(j <= 5 + a), j - (5 + a) = 1 PROVE t2[j] = q[1]
    BY <1>6, <2>1
  <2> DEFINE k == 6 + a
  <2>2. /\ k \in 1 .. 6 + a /\ k \in 1 .. 6 + a + b /\ k <= 6 + a /\ ~(k <= 5 + a)
        /\ k - (5 + a) = 1
    BY <1>4
  <2> HIDE DEF k
  <2>3. t2[k] = q[1] /\ t[k] = t2[k]
    BY <1>7, <2>1, <2>2
  <2> QED
    BY <1>1, <2>3 DEF k
<1>11. ASSUME NEW i \in 1 .. b PROVE t[6 + a + i] = hh[i]
  <2>1. ASSUME NEW j \in 1 .. 6 + a + b, ~(j <= 6 + a), j - (6 + a) = i PROVE t[j] = hh[i]
    BY <1>7, <2>1
  <2> DEFINE k == 6 + a + i
  <2>2. k \in 1 .. 6 + a + b /\ ~(k <= 6 + a) /\ k - (6 + a) = i
    BY <1>4
  <2> HIDE DEF k
  <2>3. t[k] = hh[i]
    BY <2>1, <2>2
  <2> QED
    BY <2>3 DEF k
<1>12. t[1] = "$" /\ t[2] = "pbkdf2" /\ t[3] = "$" /\ t[4] = Iterations /\ t[5] = "$"
  <2>1. 1 \in 1 .. 5 /\ 2 \in 1 .. 5 /\ 3 \in 1 .. 5 /\ 4 \in 1 .. 5 /\ 5 \in 1 .. 5
    OBVIOUS
  <2> QED
    BY <1>1, <1>8, <2>1
<1> QED
  BY <1>4, <1>7, <1>9, <1>10, <1>11, <1>12 DEF a, b, t, hs, hh

\* What decodeResult takes out of a stored text are the two parts that
\* encodeResult put there.
THEOREM DecodeEncode ==
    ASSUME NEW salt \in Seq(Byte), NEW hash \in Seq(Byte), Iterations # "$"
    PROVE  decodeResult(encodeResult(salt, hash)) = <<toHex(salt), toHex(hash)>>
<1> DEFINE hs == toHex(salt)
           hh == toHex(hash)
           a  == Len(hs)
           b  == Len(hh)
           t  == encodeResult(salt, hash)
<1>1. /\ a \in Nat /\ b \in Nat /\ t \in Seq(Chars) /\ Len(t) = 6 + a + b
      /\ t[1] = "$" /\ t[2] = "pbkdf2" /\ t[3] = "$" /\ t[4] = Iterations /\ t[5] = "$"
      /\ \A i \in 1 .. a : t[5 + i] = hs[i]
      /\ t[6 + a] = "$"
      /\ \A i \in 1 .. b : t[6 + a + i] = hh[i]
  BY Encoded
<1>2. hs \in Seq(HexChars) /\ hh \in Seq(HexChars)
  BY HexIs
<1>3. hs \in Seq(Chars) /\ hh \in Seq(Chars) /\ a = Len(hs) /\ b = Len(hh)
  BY <1>2, SeqMonotonic DEF Chars
<1>4. \A i \in 1 .. a : hs[i] # "$"
  BY <1>2, ElementOfSeq, DigitsAreNoDollar
<1> HIDE DEF t, hs, hh, a, b
<1>5. t[2] # "$" /\ t[4] # "$"
  BY <1>1
<1>6. \A i \in 1 .. a : t[5 + i] = hs[i] /\ hs[i] # "$"
  BY <1>1, <1>4
<1> USE <1>1, <1>3, <1>5, <1>6
<1>7. ASSUME NEW after \in Nat, NEW m \in Nat, after < m, m <= 6 + a + b, t[m] = "$",
             \A i \in Nat : after < i /\ i < m => t[i] # "$"
      PROVE  FindDollar(t, after) = m
  <2> DEFINE D == {i \in after + 1 .. Len(t) : t[i] = "$"}
  <2>1. m \in D
    BY <1>7
  <2>2. \A j \in D : j \in Nat /\ m <= j
    BY <1>7
  <2>3. \A i \in D : (\A j \in D : i <= j) => i = m
    BY <2>1, <2>2
  <2>4. FindDollar(t, after) = CHOOSE i \in D : \A j \in D : i <= j
    BY <2>1 DEF FindDollar
  <2> HIDE DEF D
  <2> QED
    BY <2>1, <2>2, <2>3, <2>4
<1>8. FindDollar(t, 0) = 1
  <2>1. \A i \in Nat : ~(0 < i /\ i < 1)
    OBVIOUS
  <2>2. 0 \in Nat /\ 1 \in Nat /\ 0 < 1 /\ 1 <= 6 + a + b
    OBVIOUS
  <2> QED
    BY <1>7, <2>1, <2>2
<1>9. FindDollar(t, 1) = 3
  <2>1. \A i \in Nat : 1 < i /\ i < 3 => t[i] # "$"
    <3>1. \A i \in Nat : 1 < i /\ i < 3 => i = 2
      OBVIOUS
    <3> QED
      BY <3>1
  <2>2. 1 \in Nat /\ 3 \in Nat /\ 1 < 3 /\ 3 <= 6 + a + b
    OBVIOUS
  <2> QED
    BY <1>7, <2>1, <2>2
<1>10. FindDollar(t, 3) = 5
  <2>1. \A i \in Nat : 3 < i /\ i < 5 => t[i] # "$"
    <3>1. \A i \in Nat : 3 < i /\ i < 5 => i = 4
      OBVIOUS
    <3> QED
      BY <3>1
  <2>2. 3 \in Nat /\ 5 \in Nat /\ 3 < 5 /\ 5 <= 6 + a + b
    OBVIOUS
  <2> QED
    BY <1>7, <2>1, <2>2
<1>11. FindDollar(t, 5) = 6 + a
  <2>1. ASSUME NEW i \in Nat, 5 < i, i < 6 + a PROVE t[i] # "$"
    <3>1. i - 5 \in 1 .. a /\ 5 + (i - 5) = i
      BY <2>1
    <3> QED
      BY <3>1
  <2>2. 5 \in Nat /\ 6 + a \in Nat /\ 5 < 6 + a /\ 6 + a <= 6 + a + b
    OBVIOUS
  <2> QED
    BY <1>7, <2>1, <2>2
<1>12. SubSeq(t, 6, 5 + a) = hs
  <2> DEFINE u == SubSeq(t, 6, 5 + a)
  <2>1. \A i \in 6 .. 5 + a : t[i] \in Chars
    <3>1. \A i \in 6 .. 5 + a : i \in 1 .. Len(t)
      OBVIOUS
    <3> QED
      BY <3>1, ElementOfSeq
  <2>2. /\ u \in Seq(Chars) /\ Len(u) = IF 6 <= 5 + a THEN (5 + a) - 6 + 1 ELSE 0
        /\ \A i \in 1 .. (5 + a) - 6 + 1 : u[i] = t[6 + i - 1]
    <3>1. 6 \in Int /\ 5 + a \in Int
      OBVIOUS
    <3> QED
      BY <2>1, <3>1, SubSeqProperties
  <2> HIDE DEF u
  <2>3. Len(u) = a
    BY <2>2
  <2>4. ASSUME NEW i \in 1 .. a PROVE u[i] = hs[i]
    <3>1. i \in 1 .. (5 + a) - 6 + 1 /\ 6 + i - 1 = 5 + i
      OBVIOUS
    <3> QED
      BY <2>2, <3>1
  <2>5. u = hs
    BY <2>2, <2>3, <2>4, SeqEqual
  <2> QED
    BY <2>5 DEF u
<1>13. SubSeq(t, 7 + a, 6 + a + b) = hh
  <2> DEFINE u == SubSeq(t, 7 + a, 6 + a + b)
  <2>1. \A i \in 7 + a .. 6 + a + b : t[i] \in Chars
    <3>1. \A i \in 7 + a .. 6 + a + b : i \in 1 .. Len(t)
      OBVIOUS
    <3> QED
      BY <3>1, ElementOfSeq
  <2>2. /\ u \in Seq(Chars)
        /\ Len(u) = IF 7 + a <= 6 + a + b THEN (6 + a + b) - (7 + a) + 1 ELSE 0
        /\ \A i \in 1 .. (6 + a + b) - (7 + a) + 1 : u[i] = t[7 + a + i - 1]
    <3>1. 7 + a \in Int /\ 6 + a + b \in Int
      OBVIOUS
    <3> QED
      BY <2>1, <3>1, SubSeqProperties
  <2> HIDE DEF u
  <2>3. Len(u) = b
    BY <2>2
  <2>4. ASSUME NEW i \in 1 .. b PROVE u[i] = hh[i]
    <3>1. i \in 1 .. (6 + a + b) - (7 + a) + 1 /\ 7 + a + i - 1 = 6 + a + i
      OBVIOUS
    <3>2. u[i] = t[7 + a + i - 1]
      BY <2>2, <3>1
    <3> QED
      BY <3>1, <3>2
  <2>5. u = hh
    BY <2>2, <2>3, <2>4, SeqEqual
  <2> QED
    BY <2>5 DEF u
<1>14. decodeResult(t) = <<SubSeq(t, 6, 5 + a), SubSeq(t, 7 + a, 6 + a + b)>>
  <2> DEFINE f1 == FindDollar(t, 0)
             f2 == FindDollar(t, f1)
             f3 == FindDollar(t, f2)
             f4 == FindDollar(t, f3)
  <2>1. decodeResult(t) =
          IF 0 \in {f1, f2, f3, f4} THEN <<>>
          ELSE <<SubSeq(t, f3 + 1, f4 - 1), SubSeq(t, f4 + 1, Len(t))>>
    BY Zenon DEF decodeResult
  <2>2. f1 = 1 /\ f2 = 3 /\ f3 = 5 /\ f4 = 6 + a
    BY <1>8, <1>9, <1>10, <1>11
  <2> HIDE DEF f1, f2, f3, f4
  <2>3. 0 \notin {f1, f2, f3, f4}
    BY <2>2
  <2>4. decodeResult(t) = <<SubSeq(t, f3 + 1, f4 - 1), SubSeq(t, f4 + 1, Len(t))>>
    BY <2>1, <2>3, Zenon
  <2>5. f3 + 1 = 6 /\ f4 - 1 = 5 + a /\ f4 + 1 = 7 + a /\ Len(t) = 6 + a + b
    BY <2>2
  <2> QED
    BY <2>4, <2>5, Zenon
<1> QED
  BY <1>12, <1>13, <1>14 DEF t, hs, hh

\* A password is accepted exactly if it derives, with the stored salt, what the
\* password of the registration derived: what is lost in the two encodings makes
\* no password wrong and no other one right.
THEOREM AcceptedExactly ==
    ASSUME NEW password, NEW other, NEW salt \in Seq(Byte), Iterations # "$",
           Pbkdf2(password, salt) \in Seq(Byte), Pbkdf2(other, salt) \in Seq(Byte)
    PROVE  verifyPasswords(hashPassword(password, salt), other)
             <=> Pbkdf2(other, salt) = Pbkdf2(password, salt)
<1>1. decodeResult(hashPassword(password, salt)) = <<toHex(salt), toHex(Pbkdf2(password, salt))>>
  BY DecodeEncode DEF hashPassword
<1>2. toBinary(toHex(salt)) = salt
  BY HexRoundTrip
<1>3. verifyPasswords(hashPassword(password, salt), other)
        <=> toHex(Pbkdf2(password, salt)) = toHex(Pbkdf2(other, salt))
  BY <1>1, <1>2 DEF verifyPasswords
<1>4. toHex(Pbkdf2(password, salt)) = toHex(Pbkdf2(other, salt))
        => Pbkdf2(password, salt) = Pbkdf2(other, salt)
  <2>1. /\ toBinary(toHex(Pbkdf2(password, salt))) = Pbkdf2(password, salt)
        /\ toBinary(toHex(Pbkdf2(other, salt))) = Pbkdf2(other, salt)
    BY HexRoundTrip
  <2> QED
    BY <2>1
<1> QED
  BY <1>3, <1>4
=============================================================================
