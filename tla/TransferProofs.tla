--------------------------- MODULE TransferProofs ---------------------------
(***************************************************************************)
(* Proofs about Transfer for every size of files, chunks and buffers and   *)
(* every number of versions.                                               *)
(***************************************************************************)
EXTENDS Transfer, SequenceTheorems, TLAPS

Symbols == Bytes \cup {Text}

\* A piece of a version of the file is a sequence of its bytes.
LEMMA PartProperties ==
    ASSUME NEW v \in Version, NEW from \in Nat, NEW n \in Nat
    PROVE  /\ Part(v, from, n) \in Seq(Bytes)
           /\ Len(Part(v, from, n)) = n
           /\ \A i \in 1 .. n : Part(v, from, n)[i] = <<v, from + i>>
<1>1. Part(v, from, n) \in [1 .. n -> Bytes]
  BY DEF Part, Bytes
<1>2. Part(v, from, n) \in Seq(Bytes)
  BY <1>1, SeqDef
<1>3. DOMAIN Part(v, from, n) = 1 .. n
  BY <1>1
<1>4. Len(Part(v, from, n)) = n
  BY <1>2, <1>3, LenProperties
<1> QED
  BY <1>2, <1>4 DEF Part

\* What stands where in two sequences, one after the other.
LEMMA ConcatAt ==
    ASSUME NEW S, NEW a \in Seq(S), NEW b \in Seq(S)
    PROVE  /\ a \o b \in Seq(S)
           /\ Len(a \o b) = Len(a) + Len(b)
           /\ \A i \in 1 .. Len(a) : (a \o b)[i] = a[i]
           /\ \A i \in 1 .. Len(b) : (a \o b)[Len(a) + i] = b[i]
<1>0. Len(a) \in Nat /\ Len(b) \in Nat
  BY LenProperties
<1>1. /\ a \o b \in Seq(S)
      /\ Len(a \o b) = Len(a) + Len(b)
      /\ \A i \in 1 .. Len(a) + Len(b) :
           (a \o b)[i] = IF i <= Len(a) THEN a[i] ELSE b[i - Len(a)]
  BY ConcatProperties
<1>2. ASSUME NEW i \in 1 .. Len(b)
      PROVE  (a \o b)[Len(a) + i] = b[i]
  <2>1. /\ Len(a) + i \in 1 .. Len(a) + Len(b)
        /\ ~(Len(a) + i <= Len(a)) /\ Len(a) + i - Len(a) = i
    BY <1>0
  <2> QED
    BY <1>1, <2>1
<1>3. ASSUME NEW i \in 1 .. Len(a)
      PROVE  (a \o b)[i] = a[i]
  <2>1. i \in 1 .. Len(a) + Len(b) /\ i <= Len(a)
    BY <1>0
  <2> QED
    BY <1>1, <2>1
<1> QED
  BY <1>1, <1>2, <1>3

\* The first n elements of a sequence and the rest of it.
LEMMA Cut ==
    ASSUME NEW S, NEW w \in Seq(S), NEW n \in 0 .. Len(w)
    PROVE  /\ SubSeq(w, 1, n) \in Seq(S) /\ Len(SubSeq(w, 1, n)) = n
           /\ \A i \in 1 .. n : SubSeq(w, 1, n)[i] = w[i]
           /\ SubSeq(w, n + 1, Len(w)) \in Seq(S)
           /\ Len(SubSeq(w, n + 1, Len(w))) = Len(w) - n
<1>0. Len(w) \in Nat
  BY LenProperties
<1>1. \A i \in 1 .. Len(w) : w[i] \in S
  BY ElementOfSeq
<1> QED
  BY <1>0, <1>1, SubSeqProperties

\* A read moves the first n bytes of what is on the way to what has arrived.
LEMMA ReadMoves ==
    ASSUME NEW S, NEW g \in Seq(S), NEW w \in Seq(S), NEW n \in 0 .. Len(w)
    PROVE  /\ g \o SubSeq(w, 1, n) \in Seq(S)
           /\ Len(g \o SubSeq(w, 1, n)) = Len(g) + n
           /\ SubSeq(w, n + 1, Len(w)) \in Seq(S)
           /\ Len(SubSeq(w, n + 1, Len(w))) = Len(w) - n
           /\ \A i \in 1 .. Len(g) + n : (g \o SubSeq(w, 1, n))[i] = (g \o w)[i]
<1>0. Len(w) \in Nat /\ Len(g) \in Nat
  BY LenProperties
<1>1. \A i \in 1 .. Len(g) + n : (g \o SubSeq(w, 1, n))[i] = (g \o w)[i]
  BY <1>0, Cut, ConcatProperties
<1> QED
  BY <1>0, <1>1, Cut, ConcatProperties

\* ... and keeps what is in both.
LEMMA ReadKeeps ==
    ASSUME NEW S, NEW g \in Seq(S), NEW w \in Seq(S), NEW n \in 0 .. Len(w)
    PROVE  (g \o SubSeq(w, 1, n)) \o SubSeq(w, n + 1, Len(w)) = g \o w
<1> DEFINE a == SubSeq(w, 1, n)
           b == SubSeq(w, n + 1, Len(w))
<1>1. a \in Seq(S) /\ b \in Seq(S)
  BY Cut
<1>2. a \o b = w
  <2>1. 1 \in 1 .. Len(w) + 1 /\ n \in 1 - 1 .. Len(w) /\ Len(w) \in n .. Len(w)
    BY LenProperties
  <2> QED
    BY <2>1, ConcatAdjacentSubSeq, SubSeqFull
<1> HIDE DEF a, b
<1>3. \A x, y, z \in Seq(S) : (x \o y) \o z = x \o (y \o z)
  BY ConcatAssociative
<1>4. (g \o a) \o b = g \o w
  BY <1>1, <1>2, <1>3
<1> QED
  BY <1>4 DEF a, b
-----------------------------------------------------------------------------
(* Types and counts *)

\* What was announced, received, under way and still to be sent.
Sizes ==
    /\ spc = "open" =>
        /\ rpc = "idle" /\ got = <<>> /\ wire = <<>>
        /\ filesize = 0 /\ remaining = 0 /\ bytesRemaining = 0 /\ totalBytesSent = 0
    /\ remaining + Len(got) = filesize
    /\ Len(got) + Len(wire) <= filesize
    /\ spc = "send" => Len(got) + Len(wire) + bytesRemaining <= filesize
    /\ spc = "sent" => bytesRemaining = 0
    /\ rpc = "read" => remaining >= 1
    /\ rpc \in {"marker", "received"} => remaining = 0

\* Nothing is lost while the connection is up or the text at the end is there.
Complete ==
    /\ spc = "open" => ~text /\ ~restarted
    /\ spc = "send" => ~text
    /\ spc \in {"send", "sent"} /\ up => Len(got) + Len(wire) + bytesRemaining = filesize
    /\ spc = "sent" /\ text => Len(got) + Len(wire) + bytesRemaining = filesize

Counted == Sizes /\ Complete

LEMMA CountedInit == Init => TypeOK /\ Counted
<1> SUFFICES ASSUME Init PROVE TypeOK /\ Counted
  OBVIOUS
<1> USE TransferAssumption DEF TransferAssumption
<1>1. <<>> \in Seq(Bytes) /\ <<>> \in Seq(Symbols) /\ Len(<<>>) = 0
  BY EmptySeq
<1>2. 1 \in Version
  BY DEF Version
<1>3. full[1] \in 1 .. MaxSize
  BY <1>2 DEF Init
<1>4. TypeOK
  <2>1. full \in [Version -> 1 .. MaxSize] /\ length \in 0 .. full[version]
    BY <1>3 DEF Init
  <2>2. version \in Version /\ opened \in Version
    BY <1>2 DEF Init
  <2>3. wire \in Seq(Bytes) /\ got \in Seq(Bytes \cup {Text})
    BY <1>1 DEF Init, Symbols
  <2> QED
    BY <2>1, <2>2, <2>3 DEF Init, TypeOK
<1>5. Counted
  BY <1>1 DEF Init, Counted, Sizes, Complete
<1> QED
  BY <1>4, <1>5

\* How long what is on the way and what has arrived are.
LEMMA Lengths ==
    ASSUME TypeOK
    PROVE  Len(wire) \in Nat /\ Len(got) \in Nat /\ wire \in Seq(Symbols) /\ got \in Seq(Symbols)
<1>1. wire \in Seq(Symbols)
  BY SeqMonotonic DEF TypeOK, Symbols
<1> QED
  BY <1>1, LenProperties DEF TypeOK, Symbols

\* A call takes at most what is left, and only from the file.
LEMMA ReadableRange ==
    ASSUME TypeOK
    PROVE  /\ Readable \in Nat /\ Readable <= bytesRemaining
           /\ bytesRemaining > 0 /\ totalBytesSent < length => Readable > 0
<1>1. full[version] \in Nat /\ length \in Nat
  BY TransferAssumption DEF TypeOK, TransferAssumption
<1> QED
  BY <1>1, TransferAssumption DEF TypeOK, Readable, LesserOf, TransferAssumption

\* A read takes some of what is on the way, and leaves the rest.
LEMMA ReadTakes ==
    ASSUME TypeOK, ReceiveUpload \/ ReceiveDownload
    PROVE  \E n \in 0 .. Len(wire) :
             got' = got \o SubSeq(wire, 1, n) /\ wire' = SubSeq(wire, n + 1, Len(wire))
<1>0. bufferSize \in Nat /\ remaining \in Nat /\ Len(wire) \in Nat
  BY TransferAssumption, Lengths DEF TransferAssumption, TypeOK
<1>1. CASE ReceiveUpload
  <2>1. PICK n \in 1 .. LesserOf(LesserOf(remaining, bufferSize), Len(wire)) :
             got' = got \o SubSeq(wire, 1, n) /\ wire' = SubSeq(wire, n + 1, Len(wire))
    BY <1>1 DEF ReceiveUpload
  <2>2. n \in 0 .. Len(wire)
    BY <1>0 DEF LesserOf
  <2> QED
    BY <2>1, <2>2
<1>2. CASE ReceiveDownload
  <2>1. PICK n \in 1 .. LesserOf(bufferSize, Len(wire)) :
             got' = got \o SubSeq(wire, 1, n) /\ wire' = SubSeq(wire, n + 1, Len(wire))
    BY <1>2 DEF ReceiveDownload
  <2>2. n \in 0 .. Len(wire)
    BY <1>0 DEF LesserOf
  <2> QED
    BY <2>1, <2>2
<1> QED
  BY <1>1, <1>2

\* The server reads a text as content only after the client gave up.
LEMMA TextAfterShort ==
    ASSUME TypeOK, Counted, ReceiveText
    PROVE  spc = "short"
<1>1. Len(wire) = 0
  BY EmptySeq DEF ReceiveText
<1>2. spc # "send" /\ spc # "open"
  BY Zenon DEF ReceiveText, Counted, Complete
<1>3. spc = "sent" => Len(got) + Len(wire) + bytesRemaining = filesize
  BY Zenon DEF ReceiveText, Counted, Complete
<1>4. remaining >= 1 /\ remaining \in Nat /\ filesize \in Nat /\ Len(got) \in Nat
  BY Lengths DEF ReceiveText, Counted, Sizes, TypeOK
<1>5. spc # "sent"
  <2>1. remaining + Len(got) = filesize /\ (spc = "sent" => bytesRemaining = 0)
    BY DEF Counted, Sizes
  <2> QED
    BY <1>1, <1>3, <1>4, <2>1
<1> QED
  BY <1>2, <1>5 DEF TypeOK

LEMMA CountedNext == TypeOK /\ Counted /\ [Next]_vars => TypeOK' /\ Counted'
<1> SUFFICES ASSUME TypeOK, Counted, [Next]_vars PROVE TypeOK' /\ Counted'
  OBVIOUS
<1> USE TransferAssumption, Lengths DEF TransferAssumption
<1>0. /\ full[version] \in 1 .. MaxSize /\ length \in Nat /\ full[version] \in Nat
      /\ bytesRemaining \in Nat /\ totalBytesSent \in Nat /\ filesize \in Nat
      /\ remaining \in Nat
  BY DEF TypeOK
<1>1. CASE Truncate
  <2>1. version' \in Version /\ full'[version'] \in 1 .. MaxSize
    BY <1>1 DEF Truncate, TypeOK, Version
  <2>2. length' \in 0 .. full'[version']
    BY <1>1, <2>1 DEF Truncate
  <2>3. TypeOK'
    BY <1>1, <2>1, <2>2 DEF Truncate, TypeOK, sender, stream, receiver
  <2>4. Counted'
    BY <1>1 DEF Truncate, Counted, Sizes, Complete, sender, stream, receiver
  <2> QED
    BY <2>3, <2>4
<1>2. CASE Extend
  <2>1. length' \in 0 .. full'[version']
    BY <1>2, <1>0 DEF Extend, TypeOK
  <2>2. TypeOK'
    BY <1>2, <2>1 DEF Extend, TypeOK, sender, stream, receiver
  <2>3. Counted'
    BY <1>2 DEF Extend, Counted, Sizes, Complete, sender, stream, receiver
  <2> QED
    BY <2>2, <2>3
<1>3. CASE OpenFile
  <2>1. Len(got) = 0 /\ Len(wire) = 0
    BY <1>3, EmptySeq DEF OpenFile, Counted, Sizes, Complete
  <2>2. TypeOK'
    BY <1>3, <1>0 DEF OpenFile, TypeOK, file, stream
  <2>3. Counted'
    BY <1>3, <1>0, <2>1 DEF OpenFile, Counted, Sizes, Complete, TypeOK, file, stream
  <2> QED
    BY <2>2, <2>3
<1>4. CASE SendChunk
  <2>1. PICK n \in 1 .. Readable :
          /\ wire' = wire \o Part(version, totalBytesSent, n)
          /\ bytesRemaining' = bytesRemaining - n
          /\ totalBytesSent' = IF ktls THEN totalBytesSent ELSE totalBytesSent + n
    BY <1>4 DEF SendChunk
  <2>2. n \in Nat /\ n <= bytesRemaining
    BY ReadableRange, <1>0, <2>1
  <2>3. /\ Part(version, totalBytesSent, n) \in Seq(Bytes)
        /\ Len(Part(version, totalBytesSent, n)) = n
    BY <2>2, PartProperties DEF TypeOK
  <2>4. wire' \in Seq(Bytes) /\ Len(wire') = Len(wire) + n
    BY <2>1, <2>3, ConcatProperties DEF TypeOK
  <2>5. bytesRemaining' \in Nat /\ totalBytesSent' \in Nat
    BY <2>1, <2>2 DEF TypeOK
  <2>6. TypeOK'
    BY <1>4, <2>4, <2>5 DEF SendChunk, TypeOK, file, receiver
  <2>7. /\ spc = "send" /\ bytesRemaining' = bytesRemaining - n
        /\ UNCHANGED <<spc, filesize, rpc, remaining, got>>
    BY <1>4, <2>1 DEF SendChunk, file, receiver
  <2>8. Sizes'
    BY <1>0, <2>2, <2>4, <2>7 DEF Counted, Sizes
  <2>9. Len(got') + Len(wire') + bytesRemaining' = Len(got) + Len(wire) + bytesRemaining
    BY <1>0, <2>2, <2>4, <2>7
  <2>10. Complete'
    BY <1>4, <2>7, <2>9, Zenon DEF SendChunk, file, receiver, Counted, Complete
  <2> QED
    BY <2>6, <2>8, <2>10 DEF Counted
<1>5. CASE SendFails
  BY <1>5 DEF SendFails, TypeOK, Counted, Sizes, Complete, file, stream, receiver
<1>6. CASE SendEnds
  BY <1>6 DEF SendEnds, TypeOK, Counted, Sizes, Complete, file, receiver
<1>7. CASE ReceiveUpload
  <2>1. PICK n \in 1 .. LesserOf(LesserOf(remaining, bufferSize), Len(wire)) :
          /\ got' = got \o SubSeq(wire, 1, n)
          /\ wire' = SubSeq(wire, n + 1, Len(wire))
          /\ remaining' = remaining - n
          /\ rpc' \in {IF n = remaining THEN "marker" ELSE "read", "unwritable"}
    BY <1>7 DEF ReceiveUpload
  <2>2. n \in 0 .. Len(wire) /\ n \in Nat /\ n <= remaining
    BY <2>1 DEF LesserOf, TypeOK
  <2>3. got' \in Seq(Symbols) /\ Len(got') = Len(got) + n /\ Len(wire') = Len(wire) - n
    BY <2>1, <2>2, ReadMoves
  <2>4. wire' \in Seq(Bytes)
    BY <2>1, <2>2, ReadMoves DEF TypeOK
  <2>5. remaining' \in Nat
    BY <2>1, <2>2 DEF TypeOK
  <2>6. TypeOK'
    BY <1>7, <2>1, <2>3, <2>4, <2>5 DEF ReceiveUpload, TypeOK, Symbols, file, sender
  <2>7. /\ rpc = "read" /\ remaining' = remaining - n
        /\ rpc' \in {IF n = remaining THEN "marker" ELSE "read", "unwritable"}
        /\ UNCHANGED <<spc, filesize, totalBytesSent, bytesRemaining>>
    BY <1>7, <2>1 DEF ReceiveUpload, file, sender
  <2>8. spc # "open"
    BY <2>7 DEF Counted, Sizes
  <2>9. Sizes'
    <3>1. /\ rpc' = "read" => remaining' >= 1
          /\ rpc' \in {"marker", "received"} => remaining' = 0
      BY <1>0, <2>2, <2>7
    <3>2. remaining' + Len(got') = filesize'
      <4>1. remaining + Len(got) = filesize
        BY DEF Counted, Sizes
      <4>2. remaining' = remaining - n /\ Len(got') = Len(got) + n /\ filesize' = filesize
        BY <2>3, <2>7
      <4> QED
        BY <1>0, <2>2, <4>1, <4>2
    <3>3. Len(got') + Len(wire') = Len(got) + Len(wire)
      BY <2>2, <2>3
    <3> QED
      BY <2>7, <2>8, <3>1, <3>2, <3>3 DEF Counted, Sizes
  <2>10. Len(got') + Len(wire') + bytesRemaining' = Len(got) + Len(wire) + bytesRemaining
    BY <1>0, <2>2, <2>3, <2>7
  <2>11. Complete'
    BY <1>7, <2>8, <2>10, Zenon DEF ReceiveUpload, file, sender, Counted, Complete
  <2> QED
    BY <2>6, <2>9, <2>11 DEF Counted
<1>8. CASE ReceiveText
  <2>1. got' \in Seq(Symbols) /\ Len(got') = Len(got) + 1
    BY <1>8, AppendProperties DEF ReceiveText, Symbols
  <2>2. Len(wire) = 0
    BY <1>8, EmptySeq DEF ReceiveText
  <2>3. /\ rpc = "read" /\ remaining' = remaining - 1
        /\ rpc' \in {IF remaining = 1 THEN "marker" ELSE "read", "unwritable"}
        /\ UNCHANGED <<spc, filesize, totalBytesSent, bytesRemaining, wire>>
    BY <1>8 DEF ReceiveText, file, sender
  <2>4. remaining >= 1 /\ spc # "open"
    BY <2>3 DEF Counted, Sizes
  <2>5. spc = "short"
    BY <1>8, TextAfterShort
  <2>6. TypeOK'
    <3>1. remaining' \in Nat
      BY <1>0, <2>3, <2>4
    <3> QED
      BY <1>8, <2>1, <2>3, <3>1 DEF ReceiveText, TypeOK, Symbols, file, sender
  <2>7. Sizes'
    BY <1>0, <2>1, <2>2, <2>3, <2>4, <2>5 DEF Counted, Sizes
  <2>8. Complete'
    BY <2>3, <2>5 DEF Complete
  <2> QED
    BY <2>6, <2>7, <2>8 DEF Counted
<1>9. CASE ReceiveMarker
  BY <1>9 DEF ReceiveMarker, TypeOK, Counted, Sizes, Complete, file, sender
<1>10. CASE ReceiveDownload
  <2>1. PICK n \in 1 .. LesserOf(bufferSize, Len(wire)) :
          /\ got' = got \o SubSeq(wire, 1, n)
          /\ wire' = SubSeq(wire, n + 1, Len(wire))
          /\ remaining' = remaining - n
          /\ rpc' \in {"spinning", "garbled", "unwritable",
                      IF n = remaining THEN "received" ELSE "read"}
    BY <1>10 DEF ReceiveDownload
  <2>2. n \in 0 .. Len(wire) /\ n \in Nat /\ n <= remaining
    BY <2>1 DEF LesserOf, TypeOK, Counted, Sizes, Complete
  <2>3. got' \in Seq(Symbols) /\ Len(got') = Len(got) + n /\ Len(wire') = Len(wire) - n
    BY <2>1, <2>2, ReadMoves
  <2>4. wire' \in Seq(Bytes)
    BY <2>1, <2>2, ReadMoves DEF TypeOK
  <2>5. remaining' \in Nat
    BY <2>1, <2>2 DEF TypeOK
  <2>6. TypeOK'
    BY <1>10, <2>1, <2>3, <2>4, <2>5 DEF ReceiveDownload, TypeOK, Symbols, file, sender
  <2>7. /\ rpc = "read" /\ remaining' = remaining - n
        /\ rpc' \in {"spinning", "garbled", "unwritable",
                      IF n = remaining THEN "received" ELSE "read"}
        /\ UNCHANGED <<spc, filesize, totalBytesSent, bytesRemaining>>
    BY <1>10, <2>1 DEF ReceiveDownload, file, sender
  <2>8. spc # "open"
    BY <2>7 DEF Counted, Sizes
  <2>9. Sizes'
    <3>1. /\ rpc' = "read" => remaining' >= 1
          /\ rpc' \in {"marker", "received"} => remaining' = 0
      BY <1>0, <2>2, <2>7
    <3>2. remaining' + Len(got') = filesize'
      <4>1. remaining + Len(got) = filesize
        BY DEF Counted, Sizes
      <4>2. remaining' = remaining - n /\ Len(got') = Len(got) + n /\ filesize' = filesize
        BY <2>3, <2>7
      <4> QED
        BY <1>0, <2>2, <4>1, <4>2
    <3>3. Len(got') + Len(wire') = Len(got) + Len(wire)
      BY <2>2, <2>3
    <3> QED
      BY <2>7, <2>8, <3>1, <3>2, <3>3 DEF Counted, Sizes
  <2>10. Len(got') + Len(wire') + bytesRemaining' = Len(got) + Len(wire) + bytesRemaining
    BY <1>0, <2>2, <2>3, <2>7
  <2>11. Complete'
    BY <1>10, <2>8, <2>10, Zenon DEF ReceiveDownload, file, sender, Counted, Complete
  <2> QED
    BY <2>6, <2>9, <2>11 DEF Counted
<1>11. CASE ReceiveFails
  BY <1>11 DEF ReceiveFails, TypeOK, Counted, Sizes, Complete, file, sender, stream
<1>12. CASE Break
  <2>1. PICK n \in 0 .. Len(wire) :
          /\ wire' = SubSeq(wire, 1, n)
          /\ text' \in IF n = Len(wire) THEN {text, FALSE} ELSE {FALSE}
    BY <1>12 DEF Break
  <2>2. wire' \in Seq(Bytes) /\ Len(wire') = n
    BY <2>1, Cut DEF TypeOK
  <2>3. TypeOK'
    BY <1>12, <2>1, <2>2 DEF Break, TypeOK, file, sender, receiver
  <2>4. wire = <<>> => wire' = <<>>
    BY <2>2, EmptySeq DEF TypeOK
  <2>5. UNCHANGED <<spc, filesize, totalBytesSent, bytesRemaining, rpc, remaining, got>>
    BY <1>12 DEF Break, file, sender, receiver
  <2>6. Sizes'
    BY <1>0, <2>2, <2>4, <2>5 DEF Counted, Sizes
  <2>7. text' => text /\ Len(wire') = Len(wire)
    BY <2>1, <2>2 DEF TypeOK
  <2>8. ~up' /\ restarted' = restarted
    BY <1>12 DEF Break, sender
  <2>9. Complete'
    BY <2>5, <2>7, <2>8, Zenon DEF Counted, Complete
  <2> QED
    BY <2>3, <2>6, <2>9 DEF Counted
<1>13. CASE NextText
  BY <1>13 DEF NextText, TypeOK, Counted, Sizes, Complete, file, sender, receiver
<1>14. CASE UNCHANGED vars
  BY <1>14 DEF vars, file, sender, stream, receiver, TypeOK, Counted, Sizes, Complete, Readable
<1> QED
  BY <1>1, <1>2, <1>3, <1>4, <1>5, <1>6, <1>7, <1>8, <1>9, <1>10, <1>11, <1>12, <1>13, <1>14
     DEF Next, SenderStep, ReceiverStep

\* Every variable keeps its type; in particular the server's count of the bytes
\* that are still to come, a size_t, never goes below 0.
THEOREM Typing == Spec => []TypeOK
  BY CountedInit, CountedNext, PTL DEF Spec

\* Both ends count the same bytes.
THEOREM BothCountTheSame == Spec => []CountsAgree
<1>1. Counted => CountsAgree
  BY DEF Counted, Sizes, Complete, CountsAgree
<1> QED
  BY <1>1, CountedInit, CountedNext, PTL DEF Spec
-----------------------------------------------------------------------------
(* Where the sender is in the file *)

\* What was announced is still there as long as nobody writes the file again;
\* an offset that is advanced counts what was sent, and that of SSL_sendfile is 0.
Offsets ==
    /\ opened <= version
    /\ spc # "open" /\ version = opened => filesize <= length
    /\ spc # "open" /\ ~ktls => totalBytesSent + bytesRemaining = filesize
    /\ ktls => totalBytesSent = 0

LEMMA OffsetsInit == Init => Offsets
  BY TransferAssumption DEF Init, Offsets, TransferAssumption

LEMMA OffsetsNext == TypeOK /\ Counted /\ Offsets /\ [Next]_vars => Offsets'
<1> SUFFICES ASSUME TypeOK, Counted, Offsets, [Next]_vars PROVE Offsets'
  OBVIOUS
<1>0. /\ version \in Nat /\ opened \in Nat /\ length \in Nat
      /\ bytesRemaining \in Nat /\ totalBytesSent \in Nat /\ filesize \in Nat
  BY TransferAssumption DEF TransferAssumption, TypeOK, Version
<1>1. CASE Truncate
  <2>1. version' # opened'
    BY <1>0, <1>1 DEF Truncate, Offsets, sender
  <2> QED
    BY <1>0, <1>1, <2>1 DEF Truncate, Offsets, sender
<1>2. CASE Extend
  <2>1. length' >= length
    BY <1>0, <1>2, TransferAssumption DEF TransferAssumption, TypeOK, Extend
  <2>2. length' \in Nat
    BY <1>0, <1>2, TransferAssumption DEF TransferAssumption, TypeOK, Extend
  <2> QED
    BY <1>0, <1>2, <2>1, <2>2 DEF Extend, Offsets, sender
<1>3. CASE OpenFile
  BY <1>0, <1>3 DEF OpenFile, Offsets, Counted, Sizes, file
<1>4. CASE SendChunk
  <2>1. PICK n \in 1 .. Readable :
          /\ bytesRemaining' = bytesRemaining - n
          /\ totalBytesSent' = IF ktls THEN totalBytesSent ELSE totalBytesSent + n
    BY <1>4 DEF SendChunk
  <2>2. n \in Nat
    BY ReadableRange, <2>1
  <2>3. ~ktls => totalBytesSent' + bytesRemaining' = totalBytesSent + bytesRemaining
    BY <1>0, <2>1, <2>2
  <2>4. ktls => totalBytesSent' = totalBytesSent
    BY <2>1
  <2> QED
    BY <1>4, <2>3, <2>4, Zenon DEF SendChunk, Offsets, file
<1>5. CASE SendFails \/ SendEnds \/ NextText
  BY <1>5 DEF SendFails, SendEnds, NextText, Offsets, file, sender
<1>6. CASE ReceiverStep
  BY <1>6 DEF ReceiverStep, ReceiveUpload, ReceiveText, ReceiveMarker, ReceiveDownload,
              ReceiveFails, Offsets, file, sender
<1>7. CASE Break
  BY <1>7 DEF Break, Offsets, file, sender
<1>8. CASE UNCHANGED vars
  BY <1>8 DEF vars, file, sender, Offsets
<1> QED
  BY <1>1, <1>2, <1>3, <1>4, <1>5, <1>6, <1>7, <1>8 DEF Next, SenderStep

\* A file that is written again is not the one that was opened any more.
LEMMA WrittenAgain ==
    ASSUME TypeOK, Offsets, [Next]_vars, spc # "open", version' = opened'
    PROVE  version = opened /\ opened' = opened
<1>0. version \in Nat /\ opened \in Nat
  BY TransferAssumption DEF TransferAssumption, TypeOK, Version
<1>1. CASE Truncate
  <2>1. version' = version + 1 /\ opened' = opened
    BY <1>1 DEF Truncate, sender
  <2>2. opened <= version
    BY DEF Offsets
  <2>3. version + 1 # opened
    BY <1>0, <2>2
  <2> QED
    BY <2>1, <2>3, Zenon
<1>2. CASE ~Truncate
  BY <1>2 DEF Next, SenderStep, ReceiverStep, Extend, OpenFile, SendChunk, SendFails, SendEnds, NextText,
              ReceiveUpload, ReceiveText, ReceiveMarker, ReceiveDownload, ReceiveFails, Break,
              vars, file, sender
<1> QED
  BY <1>1, <1>2
-----------------------------------------------------------------------------
(* The text that follows *)

\* Where the sender gave up, bytes are missing or a text has taken their place.
Missing ==
    spc = "short" =>
        Len(got) + Len(wire) < filesize \/ \E i \in 1 .. Len(got) : got[i] = Text

Marked == Missing /\ MarkerIsNotContent

LEMMA MarkedInit == Init => Marked
  BY EmptySeq DEF Init, Marked, Missing, MarkerIsNotContent

LEMMA MarkedNext == TypeOK /\ Counted /\ Marked /\ [Next]_vars => Marked'
<1> SUFFICES ASSUME TypeOK, Counted, Marked, [Next]_vars PROVE Marked'
  OBVIOUS
<1>0. /\ Len(got) \in Nat /\ Len(wire) \in Nat /\ filesize \in Nat /\ bytesRemaining \in Nat
      /\ Len(got) + Len(wire) <= filesize
      /\ spc = "send" => Len(got) + Len(wire) + bytesRemaining <= filesize
  BY Lengths DEF TypeOK, Counted, Sizes
<1>1. Missing'
  <2> SUFFICES ASSUME spc' = "short"
               PROVE  \/ Len(got') + Len(wire') < filesize'
                      \/ \E i \in 1 .. Len(got') : got'[i] = Text
    BY DEF Missing
  <2>1. CASE spc # "short"
    <3>1. SendFails
      BY <2>1 DEF Next, SenderStep, ReceiverStep, Truncate, Extend, OpenFile, SendChunk,
                  SendEnds, NextText, ReceiveUpload, ReceiveText, ReceiveMarker,
                  ReceiveDownload, ReceiveFails, Break, vars, sender
    <3> QED
      BY <1>0, <3>1 DEF SendFails, stream, receiver
  <2>2. CASE spc = "short" /\ (ReceiveUpload \/ ReceiveDownload)
    <3>1. PICK n \in 0 .. Len(wire) :
            got' = got \o SubSeq(wire, 1, n) /\ wire' = SubSeq(wire, n + 1, Len(wire))
      BY <2>2, ReadTakes
    <3>2. /\ Len(got') = Len(got) + n /\ Len(wire') = Len(wire) - n
          /\ \A i \in 1 .. Len(got) + n : got'[i] = (got \o wire)[i]
      BY <3>1, Lengths, ReadMoves
    <3>3. \A i \in 1 .. Len(got) : (got \o wire)[i] = got[i]
      BY Lengths, ConcatAt
    <3>4. \A i \in 1 .. Len(got) : i \in 1 .. Len(got') /\ got'[i] = got[i]
      BY <1>0, <3>2, <3>3
    <3>5. Len(got') + Len(wire') = Len(got) + Len(wire) /\ filesize' = filesize
      BY <1>0, <2>2, <3>2 DEF ReceiveUpload, ReceiveDownload, sender
    <3> QED
      BY <2>2, <3>4, <3>5 DEF Marked, Missing
  <2>3. CASE ReceiveText
    <3>1. /\ Len(got') = Len(got) + 1
          /\ got'[Len(got) + 1] = Text
      BY <2>3, Lengths, AppendProperties DEF ReceiveText, Symbols
    <3>2. Len(got) + 1 \in 1 .. Len(got')
      BY <1>0, <3>1
    <3> QED
      BY <3>1, <3>2
  <2>4. CASE spc = "short" /\ Break
    <3>1. Len(wire') <= Len(wire) /\ Len(wire') \in Nat
      BY <1>0, <2>4, Cut DEF Break, TypeOK
    <3>2. got' = got /\ filesize' = filesize
      BY <2>4 DEF Break, receiver, sender
    <3> QED
      BY <1>0, <2>4, <3>1, <3>2 DEF Marked, Missing
  <2>5. CASE spc = "short" /\ ~(ReceiveUpload \/ ReceiveDownload \/ ReceiveText \/ Break)
    <3>1. got' = got /\ wire' = wire /\ filesize' = filesize
      BY <2>5 DEF Next, SenderStep, ReceiverStep, Truncate, Extend, OpenFile, SendChunk,
                  SendFails, SendEnds, NextText, ReceiveMarker, ReceiveFails, vars,
                  sender, stream, receiver
    <3> QED
      BY <2>5, <3>1 DEF Marked, Missing
  <2> QED
    BY <2>1, <2>2, <2>3, <2>4, <2>5
<1>2. MarkerIsNotContent'
  <2>1. spc = "short" => spc' = "short"
    BY DEF Next, SenderStep, ReceiverStep, Truncate, Extend, OpenFile, SendChunk, SendFails,
           SendEnds, NextText, ReceiveUpload, ReceiveText, ReceiveMarker, ReceiveDownload, ReceiveFails,
           Break, vars, sender
  <2>2. CASE ReceiveUpload \/ ReceiveDownload
    <3>1. PICK n \in 0 .. Len(wire) : got' = got \o SubSeq(wire, 1, n)
      BY <2>2, ReadTakes
    <3>2. /\ Len(got') = Len(got) + n
          /\ \A i \in 1 .. Len(got) + n : got'[i] = (got \o wire)[i]
      BY <3>1, Lengths, ReadMoves
    <3>3. \A i \in 1 .. Len(got) + n :
            (got \o wire)[i] = IF i <= Len(got) THEN got[i] ELSE wire[i - Len(got)]
      BY Lengths, ConcatProperties
    <3>4. \A i \in 1 .. Len(wire) : wire[i] # Text
      BY TransferAssumption, ElementOfSeq DEF TransferAssumption, TypeOK
    <3>5. ASSUME NEW i \in 1 .. Len(got) + n, got'[i] = Text
          PROVE  i \in 1 .. Len(got) /\ got[i] = Text
      BY <3>2, <3>3, <3>4, <3>5, Lengths
    <3> QED
      BY <2>1, <3>2, <3>5 DEF Marked, MarkerIsNotContent
  <2>3. CASE ReceiveText
    BY <2>1, <2>3, TextAfterShort DEF MarkerIsNotContent
  <2>4. CASE ~(ReceiveUpload \/ ReceiveDownload \/ ReceiveText)
    <3>1. got' = got
      BY <2>4 DEF Next, SenderStep, ReceiverStep, Truncate, Extend, OpenFile, SendChunk,
                  SendFails, SendEnds, NextText, ReceiveMarker, ReceiveFails, Break, vars, receiver
    <3> QED
      BY <2>1, <3>1 DEF Marked, MarkerIsNotContent
  <2> QED
    BY <2>2, <2>3, <2>4
<1> QED
  BY <1>1, <1>2 DEF Marked

\* The text that follows an upload becomes content only if the client gave up.
THEOREM MarkerNeverContent == Spec => []MarkerIsNotContent
<1>1. Marked => MarkerIsNotContent
  BY DEF Marked
<1> QED
  BY <1>1, CountedInit, CountedNext, MarkedInit, MarkedNext, PTL DEF Spec
-----------------------------------------------------------------------------
(* The order of what arrives *)

Arrived == got \o wire

\* A second call of SSL_sendfile sends the first byte again, unless it is lost.
Rewound ==
    \/ \E i \in 2 .. Len(Arrived) : Arrived[i] = <<opened, 1>>
    \/ ~up /\ Len(Arrived) < filesize

\* A command of a client that gave up.
IsText(i) == spc = "short" /\ dir = "upload" /\ Arrived[i] = Text

InOrder ==
    version = opened =>
        /\ ~restarted => \A i \in 1 .. Len(Arrived) : Arrived[i] = <<opened, i>> \/ IsText(i)
        /\ restarted /\ spc # "short" => Rewound
        /\ Len(Arrived) >= 1 => Arrived[1] = <<opened, 1>> \/ IsText(1)

LEMMA InOrderInit == Init => InOrder
<1>1. <<>> \o <<>> = <<>> /\ Len(<<>>) = 0
  BY EmptySeq, ConcatEmptySeq
<1> QED
  BY <1>1 DEF Init, InOrder, Arrived

\* A step that neither sends, loses nor receives a text leaves Arrived as it is.
LEMMA ArrivedKept ==
    ASSUME TypeOK, [Next]_vars, ~SendChunk, ~Break, ~ReceiveText
    PROVE  Arrived' = Arrived
<1>1. CASE ReceiveUpload \/ ReceiveDownload
  <2>1. PICK n \in 0 .. Len(wire) :
          got' = got \o SubSeq(wire, 1, n) /\ wire' = SubSeq(wire, n + 1, Len(wire))
    BY <1>1, ReadTakes
  <2>2. (got \o SubSeq(wire, 1, n)) \o SubSeq(wire, n + 1, Len(wire)) = got \o wire
    BY Lengths, ReadKeeps
  <2> QED
    BY <2>1, <2>2 DEF Arrived
<1>2. CASE ~(ReceiveUpload \/ ReceiveDownload)
  BY <1>2 DEF Next, SenderStep, ReceiverStep, Truncate, Extend, OpenFile, SendFails, SendEnds, NextText,
              ReceiveMarker, ReceiveFails, vars, stream, receiver, Arrived
<1> QED
  BY <1>1, <1>2

\* A chunk goes on where the last one ended, or begins the file again.
LEMMA ChunkInOrder ==
    ASSUME TypeOK, Counted, Offsets, InOrder, SendChunk
    PROVE  InOrder'
<1> SUFFICES ASSUME version' = opened' PROVE InOrder'
  BY DEF InOrder
<1>0. /\ version = opened /\ opened' = opened /\ filesize' = filesize
      /\ spc = "send" /\ bytesRemaining > 0
  BY DEF SendChunk, file
<1>1. PICK n \in 1 .. Readable :
        /\ wire' = wire \o Part(version, totalBytesSent, n)
        /\ bytesRemaining' = bytesRemaining - n
  BY DEF SendChunk
<1>2. n \in Nat /\ n >= 1 /\ n <= bytesRemaining
  BY <1>1, ReadableRange DEF TypeOK
<1>3. /\ filesize \in Nat /\ bytesRemaining \in Nat /\ totalBytesSent \in Nat
      /\ Len(got) \in Nat /\ Len(wire) \in Nat
  BY Lengths DEF TypeOK
<1>4. Len(got) + Len(wire) + bytesRemaining = filesize
  BY <1>0, Zenon DEF Counted, Complete, SendChunk
<1> DEFINE part == Part(version, totalBytesSent, n)
<1>5. /\ part \in Seq(Symbols) /\ Len(part) = n
      /\ \A i \in 1 .. n : part[i] = <<opened, totalBytesSent + i>>
  <2>1. /\ part \in Seq(Bytes) /\ Len(part) = n
        /\ \A i \in 1 .. n : part[i] = <<opened, totalBytesSent + i>>
    BY <1>0, <1>2, PartProperties DEF TypeOK
  <2> QED
    BY <2>1, SeqMonotonic DEF Symbols
<1>6. wire' = wire \o part /\ got' = got
  BY <1>1 DEF SendChunk, receiver
<1> HIDE DEF part
<1>7. Arrived' = Arrived \o part
  <2>1. \A a, b, c \in Seq(Symbols) : (a \o b) \o c = a \o (b \o c)
    BY ConcatAssociative
  <2>2. got \o (wire \o part) = (got \o wire) \o part
    BY <1>5, <2>1, Lengths
  <2> QED
    BY <1>6, <2>2 DEF Arrived
<1>8. Arrived \in Seq(Symbols) /\ Len(Arrived) = Len(got) + Len(wire)
  BY Lengths, ConcatAt DEF Arrived
<1>9. /\ Len(Arrived') = Len(Arrived) + n
      /\ \A i \in 1 .. Len(Arrived) : Arrived'[i] = Arrived[i]
      /\ \A i \in 1 .. n : Arrived'[Len(Arrived) + i] = <<opened, totalBytesSent + i>>
  <2> DEFINE before == Arrived
  <2>1. before \in Seq(Symbols) /\ Arrived' = before \o part
    BY <1>7, <1>8
  <2> HIDE DEF before
  <2>2. /\ Len(before \o part) = Len(before) + Len(part)
        /\ \A i \in 1 .. Len(before) : (before \o part)[i] = before[i]
        /\ \A i \in 1 .. Len(part) : (before \o part)[Len(before) + i] = part[i]
    <3>1. part \in Seq(Symbols)
      BY <1>5
    <3> QED
      BY <2>1, <3>1, ConcatAt
  <2> QED
    BY <1>5, <2>1, <2>2, Zenon DEF before
<1>10. restarted' <=> restarted \/ (ktls /\ bytesRemaining < filesize)
  BY DEF SendChunk
<1> DEFINE L == Len(Arrived)
<1>11. L \in Nat /\ L + bytesRemaining = filesize
  BY <1>3, <1>4, <1>8
<1>12. /\ ~ktls => totalBytesSent = L
       /\ ktls => totalBytesSent = 0
  BY <1>0, <1>3, <1>11 DEF Offsets
<1> HIDE DEF L
<1>13. ASSUME ~restarted'
       PROVE  \A i \in 1 .. Len(Arrived') : Arrived'[i] = <<opened', i>>
  <2>1. ~restarted /\ ~(ktls /\ bytesRemaining < filesize)
    BY <1>10, <1>13, Zenon
  <2>2. totalBytesSent = L
    <3>1. CASE ktls
      BY <1>3, <1>11, <1>12, <2>1, <3>1
    <3>2. CASE ~ktls
      BY <1>12, <3>2
    <3> QED
      BY <3>1, <3>2
  <2> SUFFICES ASSUME NEW i \in 1 .. Len(Arrived') PROVE Arrived'[i] = <<opened, i>>
    BY <1>0
  <2>3. CASE i <= L
    <3>1. i \in 1 .. L
      BY <2>3, <1>11
    <3> QED
      BY <1>0, <1>9, <2>1, <3>1 DEF InOrder, IsText, L
  <2>4. CASE ~(i <= L)
    <3>1. i - L \in 1 .. n /\ L + (i - L) = i
      BY <1>2, <1>9, <1>11, <2>4 DEF L
    <3>2. Arrived'[L + (i - L)] = <<opened, totalBytesSent + (i - L)>>
      BY <1>9, <3>1 DEF L
    <3> QED
      BY <2>2, <3>1, <3>2
  <2> QED
    BY <2>3, <2>4
<1>14. ASSUME restarted'
       PROVE  \E i \in 2 .. Len(Arrived') : Arrived'[i] = <<opened', 1>>
  <2>1. CASE restarted
    <3>1. Rewound /\ up
      BY <1>0, <2>1, Zenon DEF InOrder, SendChunk
    <3>2. PICK i \in 2 .. L : Arrived[i] = <<opened, 1>>
      BY <3>1 DEF Rewound, L
    <3>3. i \in 1 .. L /\ i \in 2 .. Len(Arrived')
      BY <1>2, <1>9, <1>11 DEF L
    <3>4. Arrived'[i] = <<opened, 1>>
      BY <1>9, <3>2, <3>3 DEF L
    <3> QED
      BY <1>0, <3>3, <3>4
  <2>2. CASE ~restarted
    <3>1. ktls /\ bytesRemaining < filesize
      BY <1>10, <1>14, <2>2, Zenon
    <3>2. 1 \in 1 .. n /\ L + 1 \in 2 .. Len(Arrived') /\ totalBytesSent + 1 = 1
      BY <1>2, <1>3, <1>9, <1>11, <1>12, <3>1 DEF L
    <3>3. Arrived'[L + 1] = <<opened, totalBytesSent + 1>>
      BY <1>9, <3>2 DEF L
    <3> QED
      BY <1>0, <3>2, <3>3
  <2> QED
    BY <2>1, <2>2
<1>15. Arrived'[1] = <<opened', 1>>
  <2>1. CASE L = 0
    <3>1. totalBytesSent + 1 = 1 /\ 1 \in 1 .. n /\ L + 1 = 1
      BY <1>2, <1>3, <1>12, <2>1
    <3>2. Arrived'[L + 1] = <<opened, totalBytesSent + 1>>
      BY <1>9, <3>1 DEF L
    <3> QED
      BY <1>0, <3>1, <3>2
  <2>2. CASE L # 0
    <3>1. 1 \in 1 .. L /\ L >= 1
      BY <1>11, <2>2
    <3> QED
      BY <1>0, <1>9, <3>1 DEF InOrder, IsText, L
  <2> QED
    BY <2>1, <2>2
<1> QED
  BY <1>13, <1>14, <1>15, Zenon DEF InOrder, Rewound

\* What is lost when the connection breaks is lost at the end.
LEMMA BreakInOrder ==
    ASSUME TypeOK, Counted, InOrder, Break
    PROVE  InOrder'
<1>1. PICK n \in 0 .. Len(wire) : wire' = SubSeq(wire, 1, n)
  BY DEF Break
<1>2. /\ Len(got \o SubSeq(wire, 1, n)) = Len(got) + n
      /\ \A i \in 1 .. Len(got) + n : (got \o SubSeq(wire, 1, n))[i] = (got \o wire)[i]
  BY Lengths, ReadMoves
<1>3. /\ Len(Arrived') = Len(got) + n
      /\ \A i \in 1 .. Len(got) + n : Arrived'[i] = Arrived[i]
  BY <1>1, <1>2 DEF Break, receiver, Arrived
<1>4. Len(Arrived) = Len(got) + Len(wire) /\ Len(got) \in Nat /\ Len(wire) \in Nat
  BY Lengths, ConcatAt DEF Arrived
<1>5. UNCHANGED <<version, opened, restarted, filesize, spc, dir>> /\ ~up'
  BY DEF Break, file, sender
<1>6. Len(got) + Len(wire) <= filesize /\ filesize \in Nat
  BY DEF Counted, Sizes, TypeOK
<1> DEFINE before == Arrived
           after == Arrived'
<1>7. /\ Len(after) = Len(got) + n /\ Len(before) = Len(got) + Len(wire)
      /\ \A i \in 1 .. Len(after) : i \in 1 .. Len(before) /\ after[i] = before[i]
  BY <1>3, <1>4
<1> HIDE DEF before, after
<1>8. /\ \A i \in 1 .. Len(after) : i \in 1 .. Len(before) /\ after[i] = before[i]
      /\ Len(after) >= 1 => Len(before) >= 1 /\ after[1] = before[1]
  BY <1>4, <1>7
<1>9. ASSUME \/ \E i \in 2 .. Len(before) : before[i] = <<opened, 1>>
             \/ Len(before) < filesize
      PROVE  \/ \E i \in 2 .. Len(after) : after[i] = <<opened, 1>>
             \/ Len(after) < filesize
  <2>1. CASE n = Len(wire)
    <3>1. Len(after) = Len(before)
      BY <1>7, <2>1
    <3>2. \A i \in 2 .. Len(before) : i \in 1 .. Len(after)
      BY <1>4, <1>7, <3>1
    <3> QED
      BY <1>7, <1>9, <3>1, <3>2
  <2>2. CASE n # Len(wire)
    BY <1>4, <1>6, <1>7, <2>2
  <2> QED
    BY <2>1, <2>2
<1> QED
  BY <1>5, <1>8, <1>9, Zenon DEF InOrder, IsText, Rewound, before, after

\* Before the file is opened nothing has been sent.
LEMMA NothingBeforeOpen ==
    ASSUME TypeOK, Counted, [Next]_vars, spc = "open"
    PROVE  InOrder'
<1>0. <<>> \o <<>> = <<>> /\ Len(<<>>) = 0 /\ SubSeq(<<>>, 1, 0) = <<>>
  BY EmptySeq, ConcatEmptySeq, SubSeqEmpty
<1>1. rpc = "idle" /\ got = <<>> /\ wire = <<>> /\ ~restarted
  BY Zenon DEF Counted, Sizes, Complete
<1>2. got' = <<>> /\ ~restarted' /\ wire' = <<>>
  <2>1. CASE Break
    BY <1>0, <1>1, <2>1 DEF Break, receiver, sender
  <2>2. CASE ~Break
    BY <1>1, <2>2 DEF Next, SenderStep, ReceiverStep, Truncate, Extend, OpenFile, SendChunk,
                      SendFails, SendEnds, NextText, ReceiveUpload, ReceiveText, ReceiveMarker,
                      ReceiveDownload, ReceiveFails, vars, sender, stream, receiver
  <2> QED
    BY <2>1, <2>2
<1> QED
  BY <1>0, <1>2 DEF InOrder, Arrived

LEMMA InOrderNext ==
    TypeOK /\ Counted /\ Offsets /\ InOrder /\ [Next]_vars => InOrder'
<1> SUFFICES ASSUME TypeOK, Counted, Offsets, InOrder, [Next]_vars PROVE InOrder'
  OBVIOUS
<1>1. CASE SendChunk
  BY <1>1, ChunkInOrder
<1>2. CASE Break
  BY <1>2, BreakInOrder
<1>3. CASE spc = "open"
  BY <1>3, NothingBeforeOpen
<1>4. CASE ReceiveText /\ spc # "open"
  <2>1. spc = "short" /\ dir = "upload" /\ UNCHANGED <<version, opened, restarted, spc, dir>>
    BY <1>4, TextAfterShort DEF ReceiveText, file, sender
  <2>2. Arrived = got /\ Arrived' = Append(got, Text)
    <3>1. Append(got, Text) \in Seq(Symbols)
      BY Lengths, AppendProperties DEF Symbols
    <3>2. wire = <<>> /\ wire' = <<>> /\ got' = Append(got, Text)
      BY <1>4 DEF ReceiveText
    <3> QED
      BY <3>1, <3>2, Lengths, ConcatEmptySeq DEF Arrived
  <2>3. /\ Len(Arrived') = Len(Arrived) + 1 /\ Len(Arrived) \in Nat
        /\ \A i \in 1 .. Len(Arrived) : Arrived'[i] = Arrived[i]
        /\ Arrived'[Len(Arrived) + 1] = Text
    BY <2>2, Lengths, AppendProperties DEF Symbols
  <2>4. \A i \in 1 .. Len(Arrived') :
          \/ i \in 1 .. Len(Arrived) /\ Arrived'[i] = Arrived[i]
          \/ Arrived'[i] = Text
    BY <2>3
  <2>5. (Len(Arrived) >= 1 /\ Arrived'[1] = Arrived[1]) \/ Arrived'[1] = Text
    BY <2>3
  <2> QED
    BY <2>1, <2>4, <2>5, Zenon DEF InOrder, IsText
<1>5. CASE spc # "open" /\ ~SendChunk /\ ~Break /\ ~ReceiveText
  <2> SUFFICES ASSUME version' = opened' PROVE InOrder'
    BY DEF InOrder
  <2>1. Arrived' = Arrived
    BY <1>5, ArrivedKept
  <2>2. version = opened /\ opened' = opened
    BY <1>5, WrittenAgain
  <2>3. /\ restarted' <=> restarted
        /\ up' <=> up
        /\ filesize' = filesize /\ dir' = dir
        /\ spc = "short" => spc' = "short"
    BY <1>5 DEF Next, SenderStep, ReceiverStep, Truncate, Extend, OpenFile, SendFails,
                SendEnds, NextText, ReceiveUpload, ReceiveMarker, ReceiveDownload,
                ReceiveFails, vars, sender, stream
  <2> QED
    BY <2>1, <2>2, <2>3, Zenon DEF InOrder, IsText, Rewound
<1> QED
  BY <1>1, <1>2, <1>3, <1>4, <1>5

\* As long as nobody writes the file and no SSL_sendfile begins again at 0, what
\* arrives is the file from its first byte on, and then, if the sender gave up,
\* the commands of a client that goes on.
THEOREM InOrderFromTheStart == Spec => []ArrivesInOrder
<1>1. InOrder => ArrivesInOrder
  BY DEF InOrder, IsText, Arrived, ArrivesInOrder
<1> QED
  BY <1>1, CountedInit, CountedNext, OffsetsInit, OffsetsNext, InOrderInit, InOrderNext, PTL
     DEF Spec
-----------------------------------------------------------------------------
(* What the receiver makes of it *)

\* A receiver that is done has everything that was announced.
LEMMA WholeThen ==
    ASSUME TypeOK, Counted, Marked, InOrder
    PROVE  WholeUnlessRestarted
<1> SUFFICES ASSUME rpc = "received", version = opened
             PROVE  got = Part(opened, 0, filesize) <=> ~restarted /\ spc # "short"
  BY DEF WholeUnlessRestarted
<1>0. filesize \in Nat /\ opened \in Version /\ Len(got) \in Nat /\ Len(wire) \in Nat
  BY Lengths DEF TypeOK
<1>1. remaining = 0 /\ remaining + Len(got) = filesize /\ Len(got) + Len(wire) <= filesize
  BY DEF Counted, Sizes
<1>2. Len(got) = filesize /\ Len(wire) = 0
  BY <1>0, <1>1
<1>3. wire = <<>>
  BY <1>2, EmptySeq DEF TypeOK
<1>4. Arrived = got
  BY <1>3, Lengths, ConcatEmptySeq DEF Arrived
<1>5. /\ Part(opened, 0, filesize) \in Seq(Symbols) /\ Len(Part(opened, 0, filesize)) = filesize
      /\ \A i \in 1 .. filesize : Part(opened, 0, filesize)[i] = <<opened, i>>
  <2>1. /\ Part(opened, 0, filesize) \in Seq(Bytes)
        /\ Len(Part(opened, 0, filesize)) = filesize
        /\ \A i \in 1 .. filesize : Part(opened, 0, filesize)[i] = <<opened, 0 + i>>
    BY <1>0, PartProperties
  <2>2. Part(opened, 0, filesize) \in Seq(Symbols)
    BY <2>1, SeqMonotonic DEF Symbols
  <2>3. \A i \in 1 .. filesize : 0 + i = i
    BY <1>0
  <2> QED
    BY <2>1, <2>2, <2>3, Zenon
<1>6. ASSUME ~restarted, spc # "short" PROVE got = Part(opened, 0, filesize)
  <2>1. \A i \in 1 .. filesize : got[i] = <<opened, i>>
    BY <1>2, <1>4, <1>6, Zenon DEF InOrder, IsText
  <2>2. \A i \in 1 .. filesize : got[i] = Part(opened, 0, filesize)[i]
    BY <1>5, <2>1, Zenon
  <2> DEFINE whole == Part(opened, 0, filesize)
  <2>3. whole \in Seq(Symbols) /\ Len(whole) = Len(got) /\ got \in Seq(Symbols)
    BY <1>2, <1>5, Lengths
  <2>4. \A i \in 1 .. Len(got) : got[i] = whole[i]
    BY <1>2, <2>2
  <2> HIDE DEF whole
  <2>5. got = whole
    BY <2>3, <2>4, SeqEqual
  <2> QED
    BY <2>5 DEF whole
<1>7. ASSUME restarted, spc # "short" PROVE got # Part(opened, 0, filesize)
  <2>1. Rewound
    BY <1>7, Zenon DEF InOrder
  <2>2. PICK i \in 2 .. filesize : got[i] = <<opened, 1>>
    BY <1>0, <1>2, <1>4, <2>1 DEF Rewound
  <2>3. i \in 1 .. filesize /\ i # 1
    BY <1>0
  <2>4. Part(opened, 0, filesize)[i] # <<opened, 1>>
    BY <1>5, <2>3
  <2> QED
    BY <2>2, <2>4
<1>8. ASSUME spc = "short" PROVE got # Part(opened, 0, filesize)
  <2>1. PICK i \in 1 .. Len(got) : got[i] = Text
    BY <1>0, <1>2, <1>8 DEF Marked, Missing
  <2>2. <<opened, i>> \in Bytes
    BY <1>0 DEF Bytes
  <2>3. Part(opened, 0, filesize)[i] # Text
    BY <1>2, <1>5, <2>2, TransferAssumption DEF TransferAssumption
  <2> QED
    BY <2>1, <2>3
<1> QED
  BY <1>6, <1>7, <1>8

\* A file that nobody writes meanwhile is received as it is exactly if its sender
\* did not give up and no SSL_sendfile began again at 0.
THEOREM WholeOrRestarted == Spec => []WholeUnlessRestarted
  BY CountedInit, CountedNext, OffsetsInit, OffsetsNext, MarkedInit, MarkedNext,
     InOrderInit, InOrderNext, WholeThen, PTL DEF Spec

\* Bytes that arrive in order, and no more of them than the file has, go on the stream.
LEMMA GoodStream ==
    ASSUME NEW v \in Version, NEW b \in Seq(Symbols), full[v] \in Nat,
           Len(b) >= 1, Len(b) <= full[v],
           \A i \in 1 .. Len(b) : b[i] = <<v, i>>
    PROVE  Stream(b) /\ ~Overruns(b)
<1>0. Len(b) \in Nat
  BY LenProperties
<1>1. b[1][1] = v
  BY <1>0
<1>2. /\ Part(v, 0, Len(b)) \in Seq(Bytes) /\ Len(Part(v, 0, Len(b))) = Len(b)
      /\ \A i \in 1 .. Len(b) : Part(v, 0, Len(b))[i] = <<v, 0 + i>>
  BY <1>0, PartProperties
<1>3. \A i \in 1 .. Len(b) : 0 + i = i
  BY <1>0
<1> DEFINE whole == Part(v, 0, Len(b))
<1>4. /\ whole \in Seq(Symbols) /\ Len(whole) = Len(b)
      /\ \A i \in 1 .. Len(b) : b[i] = whole[i]
  <2>1. whole \in Seq(Symbols)
    BY <1>2, SeqMonotonic DEF Symbols
  <2> QED
    BY <1>2, <1>3, <2>1, Zenon
<1> HIDE DEF whole
<1>5. b = whole
  BY <1>4, SeqEqual
<1>6. Stream(b)
  BY <1>1, <1>5, Zenon DEF Stream, whole
<1>7. ~(Len(b) > full[v])
  BY <1>0
<1> QED
  BY <1>1, <1>6, <1>7, Zenon DEF Overruns

\* A file sent in the wrong order stays so.
LEMMA StaysRestarted ==
    ASSUME [Next]_vars
    PROVE  restarted => restarted'
<1>1. CASE SendChunk
  BY <1>1 DEF SendChunk
<1>2. CASE ~SendChunk
  BY <1>2 DEF Next, SenderStep, ReceiverStep, Truncate, Extend, OpenFile, SendFails,
              SendEnds, NextText, ReceiveUpload, ReceiveText, ReceiveMarker, ReceiveDownload,
              ReceiveFails, Break, vars, sender
<1> QED
  BY <1>1, <1>2

\* The client can make a file of what has arrived, as long as nothing disturbs it.
LEMMA GarbledNext ==
    /\ TypeOK /\ Counted /\ Offsets /\ InOrder /\ GarbledOnlyIfDisturbed
    /\ [Next]_vars
    => GarbledOnlyIfDisturbed'
<1> SUFFICES ASSUME TypeOK, Counted, Offsets, InOrder, GarbledOnlyIfDisturbed, [Next]_vars,
                    rpc' \in {"garbled", "spinning"},
                    version' = opened', rpc' = "garbled" => ~restarted'
             PROVE  FALSE
  BY DEF GarbledOnlyIfDisturbed
<1>1. spc # "open"
  <2>1. CASE OpenFile
    BY <2>1 DEF OpenFile
  <2>2. CASE ~OpenFile
    BY <2>2 DEF Counted, Sizes, Next, SenderStep, ReceiverStep, Truncate, Extend, SendChunk,
           SendFails, SendEnds, NextText, ReceiveUpload, ReceiveText, ReceiveMarker,
           ReceiveDownload, ReceiveFails, Break, vars, receiver
  <2> QED
    BY <2>1, <2>2
<1>2. version = opened
  BY <1>1, WrittenAgain
<1>3. rpc' = "garbled" => ~restarted
  BY StaysRestarted, Zenon
<1>4. rpc' # rpc
  BY <1>2, <1>3 DEF GarbledOnlyIfDisturbed
<1>5. ReceiveDownload
  BY <1>1, <1>4 DEF Next, SenderStep, ReceiverStep, Truncate, Extend, OpenFile, SendChunk,
           SendFails, SendEnds, NextText, ReceiveUpload, ReceiveText, ReceiveMarker,
           ReceiveFails, Break, vars, receiver
<1>6. PICK n \in 1 .. LesserOf(bufferSize, Len(wire)) :
        LET b == got \o SubSeq(wire, 1, n) IN
        \/ Overruns(b) /\ rpc' = "spinning"
        \/ ~Stream(b) /\ rpc' = "garbled"
  BY <1>5 DEF ReceiveDownload
<1>7. n \in 0 .. Len(wire) /\ n >= 1
  BY <1>6, Lengths, TransferAssumption DEF TransferAssumption, LesserOf
<1> DEFINE b == got \o SubSeq(wire, 1, n)
<1>8. /\ b \in Seq(Symbols) /\ Len(b) = Len(got) + n
      /\ \A i \in 1 .. Len(got) + n : b[i] = Arrived[i]
  BY <1>7, Lengths, ReadMoves DEF Arrived
<1>9. Overruns(b) \/ (~Stream(b) /\ ~restarted)
  BY <1>3, <1>6
<1> HIDE DEF b
<1>10. Len(Arrived) = Len(got) + Len(wire) /\ Len(got) \in Nat /\ Len(wire) \in Nat
  BY Lengths, ConcatAt DEF Arrived
<1>11. Len(b) >= 1 /\ Len(b) <= filesize /\ Len(b) \in Nat
  <2>1. Len(got) + Len(wire) <= filesize /\ filesize \in Nat
    BY DEF Counted, Sizes, TypeOK
  <2> QED
    BY <1>7, <1>8, <1>10, <2>1
<1>12. \A i \in 1 .. Len(b) : i \in 1 .. Len(Arrived) /\ b[i] = Arrived[i]
  BY <1>7, <1>8, <1>10
<1>13. ~IsText(1) /\ \A i \in 1 .. Len(b) : ~IsText(i)
  BY <1>5 DEF IsText, ReceiveDownload
<1>14. full[opened] \in Nat /\ Len(b) <= full[opened] /\ opened \in Version
  <2>1. full[opened] \in Nat /\ length <= full[opened] /\ length \in Nat /\ opened \in Version
    BY <1>2, TransferAssumption DEF TransferAssumption, TypeOK
  <2>2. filesize <= length /\ filesize \in Nat
    BY <1>1, <1>2 DEF Offsets, TypeOK
  <2> QED
    BY <1>11, <2>1, <2>2
<1>15. b[1] = <<opened, 1>>
  <2>1. Len(Arrived) >= 1 /\ 1 \in 1 .. Len(b)
    BY <1>7, <1>10, <1>11
  <2> QED
    BY <1>2, <1>12, <1>13, <2>1 DEF InOrder
<1>16. ~Overruns(b)
  <2>1. b[1][1] = opened
    BY <1>15
  <2>2. ~(Len(b) > full[opened])
    BY <1>11, <1>14
  <2> QED
    BY <2>1, <2>2, Zenon DEF Overruns
<1>17. ~restarted => Stream(b)
  <2> SUFFICES ASSUME ~restarted PROVE Stream(b)
    OBVIOUS
  <2>1. \A i \in 1 .. Len(b) : b[i] = <<opened, i>>
    BY <1>2, <1>12, <1>13, Zenon DEF InOrder
  <2> QED
    BY <1>8, <1>11, <1>14, <2>1, GoodStream
<1> QED
  BY <1>9, <1>16, <1>17

\* The client fails to decompress only what was sent in the wrong order or written
\* again meanwhile, and goes round for ever only after a rewrite: no breakdown, no
\* partial read and no error on a disk has either effect.
THEOREM GarbledForAReason == Spec => []GarbledOnlyIfDisturbed
<1>1. Init => GarbledOnlyIfDisturbed
  BY DEF Init, GarbledOnlyIfDisturbed
<1> QED
  BY <1>1, CountedInit, CountedNext, OffsetsInit, OffsetsNext, InOrderInit, InOrderNext,
     GarbledNext, PTL DEF Spec
-----------------------------------------------------------------------------
(* Without kernel TLS *)

RestartsUnderKtls == restarted => ktls

LEMMA RestartsNext == RestartsUnderKtls /\ [Next]_vars => RestartsUnderKtls'
  BY DEF RestartsUnderKtls, Next, SenderStep, ReceiverStep, Truncate, Extend, OpenFile, SendChunk,
         SendFails, SendEnds, NextText, ReceiveUpload, ReceiveText, ReceiveMarker, ReceiveDownload,
         ReceiveFails, Break, vars, sender

WholeByPread ==
    ~ktls /\ rpc = "received" /\ spc # "short" /\ version = opened =>
        got = Part(opened, 0, filesize)

\* The loop of pread and SSL_write is right for every size of chunk, buffer and
\* file: what is received to its end of a file that nobody writes meanwhile is that
\* file.  What WholeUnlessRestarted leaves open of a sender that does not give up
\* is a fault of the other branch alone, the one that never advances the offset of
\* SSL_sendfile.
THEOREM PreadIsRight == Spec => []WholeByPread
<1>1. Init => RestartsUnderKtls
  BY DEF Init, RestartsUnderKtls
<1>2. RestartsUnderKtls /\ WholeUnlessRestarted => WholeByPread
  BY DEF RestartsUnderKtls, WholeUnlessRestarted, WholeByPread
<1> QED
  BY <1>1, <1>2, RestartsNext, WholeOrRestarted, PTL DEF Spec
-----------------------------------------------------------------------------
(* A receiver that waits *)

\* A read of the receiver returns: with bytes, with the text, or with an error.
ReadReturns ==
    \/ wire # <<>> /\ rpc = "read"
    \/ wire = <<>> /\ text /\ dir = "upload"
    \/ wire = <<>> /\ ~text /\ ~up

\* While a receiver waits its read returns, or the sender has a call to make
\* (one that sends, fails or ends); else the sender gave up.
NeverStranded ==
    rpc \in {"read", "marker"} => ReadReturns \/ spc \in {"send", "short"}

\* The text after an upload is there until the receiver has had it.
Closing ==
    /\ text \/ rpc = "marker" => dir = "upload"
    /\ spc = "sent" /\ up /\ dir = "upload" => text \/ rpc = "received"

LEMMA ClosingInit == Init => Closing
  BY DEF Init, Closing

LEMMA ClosingNext ==
    TypeOK /\ Counted /\ Closing /\ [Next]_vars => Closing'
<1> SUFFICES ASSUME TypeOK, Counted, Closing, [Next]_vars PROVE Closing'
  OBVIOUS
<1>1. (text \/ rpc = "marker" => dir = "upload")'
  BY DEF Closing, Next, SenderStep, ReceiverStep, Truncate, Extend, OpenFile, SendChunk,
         SendFails, SendEnds, NextText, ReceiveUpload, ReceiveText, ReceiveMarker, ReceiveDownload,
         ReceiveFails, Break, vars, sender, stream, receiver
<1>2. (spc = "sent" /\ up /\ dir = "upload" => text \/ rpc = "received")'
  <2>1. CASE ReceiveText
    <3>1. spc = "short" /\ spc' = spc
      BY <2>1, TextAfterShort DEF ReceiveText, sender
    <3> QED
      BY <3>1
  <2>2. CASE ReceiveFails
    BY <2>2 DEF ReceiveFails, stream
  <2>3. CASE ~ReceiveText /\ ~ReceiveFails
    BY <2>3 DEF Closing, Next, SenderStep, ReceiverStep, Truncate, Extend, OpenFile, SendChunk,
                SendFails, SendEnds, NextText, ReceiveUpload, ReceiveMarker, ReceiveDownload, Break,
                vars, sender, stream, receiver
  <2> QED
    BY <2>1, <2>2, <2>3
<1> QED
  BY <1>1, <1>2 DEF Closing

LEMMA NobodyStranded == TypeOK /\ Counted /\ Closing => NeverStranded
<1> SUFFICES ASSUME TypeOK, Counted, Closing, rpc \in {"read", "marker"}, ~ReadReturns,
                    spc # "send"
             PROVE  spc = "short"
  BY DEF NeverStranded
<1>0. /\ Len(got) \in Nat /\ Len(wire) \in Nat /\ remaining \in Nat /\ filesize \in Nat
      /\ spc \in {"open", "send", "sent", "short"}
      /\ wire \in Seq(Symbols)
  BY Lengths DEF TypeOK
<1>1. spc # "open"
  BY DEF Counted, Sizes
<1>2. wire = <<>>
  <2>1. CASE rpc = "read"
    BY <2>1 DEF ReadReturns
  <2>2. CASE rpc = "marker"
    <3>1. remaining = 0 /\ remaining + Len(got) = filesize /\ Len(got) + Len(wire) <= filesize
      BY <2>2 DEF Counted, Sizes
    <3>2. Len(wire) = 0
      BY <1>0, <3>1
    <3> QED
      BY <1>0, <3>2, EmptySeq
  <2> QED
    BY <2>1, <2>2
<1>3. ~text /\ up
  BY <1>2 DEF ReadReturns, Closing
<1>4. spc # "sent"
  <2> SUFFICES ASSUME spc = "sent" PROVE FALSE
    OBVIOUS
  <2>1. CASE rpc = "marker"
    BY <1>3, <2>1 DEF Closing
  <2>2. CASE rpc = "read"
    <3>1. /\ Len(got) + Len(wire) + bytesRemaining = filesize /\ bytesRemaining = 0
          /\ remaining + Len(got) = filesize /\ remaining >= 1
      BY <1>3, <2>2 DEF Counted, Sizes, Complete
    <3>2. Len(wire) = 0
      BY <1>2, EmptySeq
    <3> QED
      BY <1>0, <3>1, <3>2
  <2> QED
    BY <2>1, <2>2
<1> QED
  BY <1>0, <1>1, <1>3, <1>4 DEF Closing

\* A receiver waits for ever on an open connection only for a sender that gave up:
\* whatever the chunks and the partial reads, and whoever writes the file, a sender
\* that gets to its end has sent as much as it announced, and its end marker is
\* never swallowed.  This is what TransferEnds has of safety.
THEOREM OnlyAGivenUpSenderStrands == Spec => []NeverStranded
  BY CountedInit, CountedNext, ClosingInit, ClosingNext, NobodyStranded, PTL DEF Spec
=============================================================================
