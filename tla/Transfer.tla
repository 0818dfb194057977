------------------------------ MODULE Transfer ------------------------------
(***************************************************************************)
(* The content of one file on its way from one program to the other.       *)
(*                                                                         *)
(* uploadFile of the client and downloadFile of the server send a file in  *)
(* the same loop: chunks of at most chunkSize bytes, by SSL_sendfile under *)
(* kernel TLS and by pread and SSL_write otherwise.  uploadFile of the     *)
(* server and downloadFile of the client receive it.  The file that is     *)
(* sent can be written again meanwhile: no mutex is taken for a download.  *)
(*                                                                         *)
(* A byte is named by the version of the file it belongs to and its place. *)
(***************************************************************************)
EXTENDS Integers, Sequences, SequencesExt

CONSTANTS chunkSize,   \* of the sender
          bufferSize,  \* of the receiver
          MaxSize,     \* bound: the length of a file
          MaxVersion,  \* bound: the versions of the file
          Text         \* the marker, or the next command, that follows an upload

Version == 1 .. MaxVersion
Bytes   == Version \X Nat

ASSUME TransferAssumption ==
    /\ chunkSize \in Nat \ {0} /\ bufferSize \in Nat \ {0}
    /\ MaxSize \in Nat \ {0} /\ MaxVersion \in Nat \ {0}
    /\ Text \notin Bytes

VARIABLES
    \* the file
    version, length,   \* the version on disk, and how much of it is written
    full,              \* the length of each version when it is written to its end
    \* the sender
    dir, ktls,         \* "upload" or "download"; is kernel TLS on?
    spc,               \* "open", "send", "sent", or "short": it gave up
    filesize, totalBytesSent, bytesRemaining,
    opened,            \* history: the version whose length was announced
    restarted,         \* history: a second call of SSL_sendfile began at offset 0
    \* on the way
    up, wire, text,    \* bytes written and not read, and is there a text after them?
    \* the receiver
    rpc,               \* "idle", "read", "marker", or how it ended
    remaining, got     \* what is still to come, and what SSL_read has returned

file     == <<version, length, full>>
sender   == <<dir, ktls, spc, filesize, totalBytesSent, bytesRemaining, opened, restarted>>
stream   == <<up, wire, text>>
receiver == <<rpc, remaining, got>>
vars     == <<file, sender, stream, receiver>>

Part(v, from, n) == [i \in 1 .. n |-> <<v, from + i>>]

LesserOf(a, b) == IF a < b THEN a ELSE b

Init ==
    /\ version = 1
    /\ full \in [Version -> 1 .. MaxSize]
    /\ length = full[1]
    /\ dir \in {"upload", "download"} /\ ktls \in BOOLEAN
    /\ spc = "open"
    /\ filesize = 0 /\ totalBytesSent = 0 /\ bytesRemaining = 0
    /\ opened = 1 /\ restarted = FALSE
    /\ up = TRUE /\ wire = <<>> /\ text = FALSE
    /\ rpc = "idle" /\ remaining = 0 /\ got = <<>>
-----------------------------------------------------------------------------
(* Somebody writes the file again: for a download, uploadFile in another session *)

\* gzopen with "wb": the file is truncated where it is.
Truncate ==
    /\ version < MaxVersion
    /\ length = full[version]
    /\ version' = version + 1
    /\ length' = 0
    /\ UNCHANGED <<full, sender, stream, receiver>>

\* gzwrite, or gzclose, moves some of what is compressed to the disk.
Extend ==
    /\ \E n \in 1 .. full[version] - length : length' = length + n
    /\ UNCHANGED <<version, full, sender, stream, receiver>>
-----------------------------------------------------------------------------
(* The sender *)

\* Mutant: the receiver waits for one byte more than the file has.
OpenFileWithNul ==
    /\ spc = "open"
    /\ dir = "upload" => length > 0
    /\ filesize' = length + 1 /\ bytesRemaining' = length /\ remaining' = length + 1
    /\ opened' = version
    /\ spc' = "send"
    /\ rpc' = "read"
    /\ UNCHANGED <<file, dir, ktls, totalBytesSent, restarted, stream, got>>

\* The length of the file is announced, and acknowledged; an upload of nothing is not.
OpenFile ==
    /\ spc = "open"
    /\ dir = "upload" => length > 0
    /\ filesize' = length /\ bytesRemaining' = length /\ remaining' = length
    /\ opened' = version
    /\ spc' = "send"
    /\ rpc' = IF length = 0 THEN "received" ELSE "read"
    /\ UNCHANGED <<file, dir, ktls, totalBytesSent, restarted, stream, got>>

\* How many bytes a call can take from the file at totalBytesSent.
Readable ==
    LET toSend == LesserOf(bytesRemaining, chunkSize) IN
    IF length <= totalBytesSent THEN 0 ELSE LesserOf(toSend, length - totalBytesSent)

\* Mutant: the next pread begins where the last chunk ought to have ended.
SendChunkByChunks ==
    /\ spc = "send" /\ bytesRemaining > 0
    /\ up
    /\ \E n \in 1 .. Readable :
        /\ wire' = wire \o Part(version, totalBytesSent, n)
        /\ bytesRemaining' = bytesRemaining - n
        /\ totalBytesSent' = totalBytesSent + chunkSize
    /\ UNCHANGED <<file, dir, ktls, spc, filesize, opened, restarted, up, text, receiver>>

\* SSL_sendfile may take less than it is asked for, and its offset is never
\* advanced; pread and SSL_write take what there is.
SendChunk ==
    /\ spc = "send" /\ bytesRemaining > 0
    /\ up
    /\ \E n \in 1 .. Readable :
        /\ ~ktls => n = Readable
        /\ wire' = wire \o Part(version, totalBytesSent, n)
        /\ bytesRemaining' = bytesRemaining - n
        /\ totalBytesSent' = IF ktls THEN totalBytesSent ELSE totalBytesSent + n
    /\ restarted' = (restarted \/ (ktls /\ bytesRemaining < filesize))
    /\ UNCHANGED <<file, dir, ktls, spc, filesize, opened, up, text, receiver>>

\* A call that returns 0 or -1 ends the loop and the command, and says nothing to
\* the other side.  The file has become shorter, it cannot be read (it may be a
\* directory, or the disk may fail), or the connection is gone.
SendFails ==
    /\ spc = "send" /\ bytesRemaining > 0
    /\ spc' = "short"
    /\ UNCHANGED <<file, dir, ktls, filesize, totalBytesSent, bytesRemaining, opened, restarted,
                   stream, receiver>>

\* A client that gave up is at its menu again, and its next command follows.
NextText ==
    /\ spc = "short" /\ dir = "upload"
    /\ up /\ ~text
    /\ text' = TRUE
    /\ UNCHANGED <<file, sender, up, wire, receiver>>

\* Everything is sent; the client adds UPLOAD_COMPLETE.
SendEnds ==
    /\ spc = "send" /\ bytesRemaining = 0
    /\ spc' = "sent"
    /\ text' = (text \/ (up /\ dir = "upload"))
    /\ UNCHANGED <<file, dir, ktls, filesize, totalBytesSent, bytesRemaining, opened, restarted,
                   up, wire, receiver>>
-----------------------------------------------------------------------------
(* The receiver *)

Ended == IF dir = "upload" THEN "marker" ELSE "received"

\* Mutant: every read of the server asks for a whole buffer.
ReceiveUploadWholeBuffer ==
    /\ dir = "upload" /\ rpc = "read"
    /\ \E n \in 1 .. LesserOf(bufferSize, Len(wire)) :
        LET more == IF n = Len(wire) /\ text /\ n < bufferSize THEN <<Text>> ELSE <<>> IN
        /\ got' = got \o SubSeq(wire, 1, n) \o more
        /\ wire' = SubSeq(wire, n + 1, Len(wire))
        /\ text' = (text /\ more = <<>>)
        /\ remaining' = remaining - (n + Len(more))
        /\ rpc' = IF remaining' = 0 THEN "marker" ELSE "read"
    /\ UNCHANGED <<file, sender, up>>

\* uploadFile of the server: a read asks for no more than is still to come.  If
\* gzwrite does not take it all, the handler closes the file and returns.
ReceiveUpload ==
    /\ dir = "upload" /\ rpc = "read"
    /\ \E n \in 1 .. LesserOf(LesserOf(remaining, bufferSize), Len(wire)) :
        /\ got' = got \o SubSeq(wire, 1, n)
        /\ wire' = SubSeq(wire, n + 1, Len(wire))
        /\ remaining' = remaining - n
        /\ rpc' \in {IF n = remaining THEN "marker" ELSE "read", "unwritable"}
    /\ UNCHANGED <<file, sender, up, text>>

\* ... and takes for content whatever comes next.
ReceiveText ==
    /\ dir = "upload" /\ rpc = "read"
    /\ wire = <<>> /\ text
    /\ got' = Append(got, Text)
    /\ text' = FALSE
    /\ remaining' = remaining - 1
    /\ rpc' \in {IF remaining = 1 THEN "marker" ELSE "read", "unwritable"}
    /\ UNCHANGED <<file, sender, up, wire>>

ReceiveMarker ==
    /\ rpc = "marker"
    /\ wire = <<>> /\ text
    /\ text' = FALSE
    /\ rpc' = "received"
    /\ UNCHANGED <<file, sender, up, wire, remaining, got>>

\* Are the bytes the beginning of a compressed stream, and do they go on after its end?
Stream(b)   == b = Part(b[1][1], 0, Len(b))
Overruns(b) == /\ Len(b) > full[b[1][1]]
               /\ Stream(SubSeq(b, 1, full[b[1][1]]))

\* Mutant: whatever inflate returns is an error but Z_OK.
ReceiveDownloadToTheEnd ==
    /\ dir = "download" /\ rpc = "read"
    /\ \E n \in 1 .. LesserOf(bufferSize, Len(wire)) :
        LET b == got \o SubSeq(wire, 1, n) IN
        /\ got' = b
        /\ wire' = SubSeq(wire, n + 1, Len(wire))
        /\ remaining' = remaining - n
        /\ rpc' = IF Len(b) = full[b[1][1]] THEN "garbled"
                  ELSE IF n = remaining THEN "received" ELSE "read"
    /\ UNCHANGED <<file, sender, up, text>>

\* downloadFile of the client: a read takes what there is, inflate gets it, and
\* what inflate makes of it is written to a file, which may fail.  Bytes that do
\* not go on the stream make inflate fail, sooner or later; after the end of the
\* stream it consumes nothing, and the inner loop goes round for ever.
ReceiveDownload ==
    /\ dir = "download" /\ rpc = "read"
    /\ \E n \in 1 .. LesserOf(bufferSize, Len(wire)) :
        LET b == got \o SubSeq(wire, 1, n) IN
        /\ got' = b
        /\ wire' = SubSeq(wire, n + 1, Len(wire))
        /\ remaining' = remaining - n
        /\ \/ Overruns(b) /\ rpc' = "spinning"
           \/ ~Overruns(b) /\ rpc' = IF n = remaining THEN "received" ELSE "read"
           \/ ~Overruns(b) /\ ~Stream(b) /\ rpc' = "garbled"
           \/ rpc' = "unwritable"
    /\ UNCHANGED <<file, sender, up, text>>

ReceiveFails ==
    /\ rpc \in {"read", "marker"}
    /\ ~up /\ wire = <<>> /\ ~text
    /\ rpc' = "broken"
    /\ UNCHANGED <<file, sender, stream, remaining, got>>

\* The connection breaks and the last part of what is on the way is lost.
Break ==
    /\ up
    /\ up' = FALSE
    /\ \E n \in 0 .. Len(wire) :
        /\ wire' = SubSeq(wire, 1, n)
        /\ text' \in IF n = Len(wire) THEN {text, FALSE} ELSE {FALSE}
    /\ UNCHANGED <<file, sender, receiver>>
-----------------------------------------------------------------------------
SenderStep   == SendChunk \/ SendFails \/ SendEnds
ReceiverStep == \/ ReceiveUpload \/ ReceiveText \/ ReceiveMarker
                \/ ReceiveDownload \/ ReceiveFails

Next == \/ Truncate \/ Extend
        \/ OpenFile \/ SenderStep \/ NextText
        \/ ReceiverStep \/ Break

Spec == Init /\ [][Next]_vars

\* Both threads run; nobody has to give a further command.
FairSpec == Spec /\ WF_vars(SenderStep) /\ WF_vars(ReceiverStep)
-----------------------------------------------------------------------------
(* Properties *)

TypeOK ==
    /\ version \in Version
    /\ full \in [Version -> 1 .. MaxSize]
    /\ length \in 0 .. full[version]
    /\ dir \in {"upload", "download"}
    /\ ktls \in BOOLEAN
    /\ spc \in {"open", "send", "sent", "short"}
    /\ filesize \in Nat /\ totalBytesSent \in Nat /\ bytesRemaining \in Nat
    /\ opened \in Version
    /\ restarted \in BOOLEAN
    /\ up \in BOOLEAN
    /\ wire \in Seq(Bytes)
    /\ text \in BOOLEAN
    /\ rpc \in {"idle", "read", "marker", "received", "broken", "unwritable", "garbled", "spinning"}
    /\ remaining \in Nat
    /\ got \in Seq(Bytes \cup {Text})

\* Each byte that was announced is still to be sent, under way or received, and
\* both ends count the same: with either way of sending, the two loops end after
\* the same number of bytes.
CountsAgree ==
    /\ spc \in {"send", "sent"} /\ up => Len(got) + Len(wire) + bytesRemaining = filesize
    /\ remaining + Len(got) = filesize

\* As long as nobody writes the file and no SSL_sendfile begins again at 0, what
\* has arrived or is under way is the file from its first byte on; only the
\* commands of a client that gave up can follow it.
ArrivesInOrder ==
    version = opened /\ ~restarted =>
        \A i \in 1 .. Len(got \o wire) :
            \/ (got \o wire)[i] = <<opened, i>>
            \/ spc = "short" /\ dir = "upload" /\ (got \o wire)[i] = Text

\* A file that nobody writes meanwhile is received as it is exactly if its sender
\* did not give up and made no second SSL_sendfile: under kernel TLS, a file that
\* one call does not take is never received right, and everything else is.
WholeUnlessRestarted ==
    rpc = "received" /\ version = opened =>
        (got = Part(opened, 0, filesize) <=> ~restarted /\ spc # "short")

\* The text that follows an upload becomes part of its content only if the
\* sender gave up before the size it announced.
MarkerIsNotContent ==
    \A i \in 1 .. Len(got) : got[i] = Text => spc = "short"

\* What the client cannot decompress was sent in the wrong order or written again
\* meanwhile, and it goes round for ever after the end of the stream only if the
\* file was written again: a transfer that breaks off, a partial read or an error
\* on either side's disk has neither effect.
GarbledOnlyIfDisturbed ==
    /\ rpc = "garbled" => version # opened \/ restarted
    /\ rpc = "spinning" => version # opened

\* The ends of a receiver's handler; going round for ever is none of them.
Finished == rpc \in {"received", "broken", "unwritable", "garbled"}

\* A receiver's handler ends, unless the sender gave up and left it waiting or the
\* file was written again, after which the client may go round for ever.
TransferEnds == rpc = "read" ~> Finished \/ spc = "short" \/ version # opened
=============================================================================
