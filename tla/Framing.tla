------------------------------- MODULE Framing -------------------------------
(***************************************************************************)
(* Reading an aws-chunked body (internal/s3/chunked.go) and holding it to  *)
(* what its request says of it (internal/s3/payload.go, and chunkSigner in *)
(* internal/s3/sigv4.go).  A client frames a content in chunks, with their *)
(* signatures and a trailer; what arrives may be cut, dropped or damaged;  *)
(* the server reads it with buffers of any size.                           *)
(*                                                                         *)
(* The wire is a sequence of tokens, of a byte of data, a digit of a size, *)
(* the end of a line, a whole signature or a whole checksum.  A hash is    *)
(* what it is of, and a signature the sequence of what it is chained from, *)
(* so that two are equal only if they are of the same.                     *)
(***************************************************************************)
EXTENDS Integers, SequencesExt

CONSTANTS
    Content,    \* contents that are sent: sequences of bytes, numbers from 1
    ChunkSize,  \* sizes of chunks, and of the server's buffers
    Base        \* base of the digits of a chunk's size (16 in the code)

VARIABLES
    sent,       \* what the client meant to send, and how
    wire,       \* the tokens that arrive
    ending,     \* how the stream ends after them: "eof" or "error"
    reader,     \* the chunked reader
    out,        \* the bytes handed to the caller
    result      \* "none", "accepted" or "refused"

vars == <<sent, wire, ending, reader, out, result>>

Token(kind, value) == [kind |-> kind, value |-> value]
EndOfLine == Token("line", 0)

\* The three ways to frame a body; whether the server has the secret to check
\* signatures with (it has none with auth disabled); what else the request
\* says: the decoded length, and a checksum, in a header or in the trailer.
Modes == {"signed", "signedTrailer", "unsignedTrailer"}
Checksums == {"none", "header", "trailer"}
NoRequest == [mode |-> "signed", auth |-> FALSE, length |-> FALSE, checksum |-> "none",
              content |-> <<>>, altered |-> FALSE, cut |-> FALSE]
NoReader == [pc |-> "idle", at |-> 1, remaining |-> 0, chunk |-> <<>>, chunkSig |-> <<>>,
             prev |-> <<>>, trailer |-> <<>>]

Init ==
    /\ sent = NoRequest
    /\ wire = <<>>
    /\ ending = "eof"
    /\ reader = NoReader
    /\ out = <<>>
    /\ result = "none"

----------------------------------------------------------------------------
(* What the client sends. *)

\* Each signature is over a chunk's hash and the signature before it.
Sign(prev, data) == Append(prev, data)
Trailer(checksum) == <<0>> \o checksum   \* what a trailer's signature is over

RECURSIVE Digits(_)
Digits(n) == IF n < Base THEN <<Token("digit", n)>>
             ELSE Append(Digits(n \div Base), Token("digit", n % Base))

Signature(mode, sig) ==
    IF mode = "unsignedTrailer" THEN <<>> ELSE <<Token("signature", sig)>>

Header(mode, size, sig) == Digits(size) \o Signature(mode, sig) \o <<EndOfLine>>
Data(chunk) == [n \in DOMAIN chunk |-> Token("data", chunk[n])] \o <<EndOfLine>>

Trailers(request, sig) ==
    LET c == request.content
        carried == IF request.checksum = "trailer" THEN c ELSE <<>>
    IN (IF request.checksum = "trailer" THEN <<Token("checksum", c), EndOfLine>> ELSE <<>>)
       \o (IF request.mode = "signedTrailer"
           THEN <<Token("trailerSignature", Sign(sig, Trailer(carried))), EndOfLine>> ELSE <<>>)
       \o <<EndOfLine>>

\* The whole body: the content in chunks of a size, and what is left.
RECURSIVE Body(_, _, _, _)
Body(request, size, from, sig) ==
    LET chunk == SubSeq(request.content, from, Min({from + size - 1, Len(request.content)}))
        next == Sign(sig, chunk)
    IN IF chunk = <<>>
       THEN Header(request.mode, 0, next) \o Trailers(request, next)
       ELSE Header(request.mode, Len(chunk), next) \o Data(chunk)
                \o Body(request, size, from + size, next)

\* A checksum that is announced for the trailer is sent where trailers may be.
BodyRequest ==
    {r \in [mode : Modes, auth : BOOLEAN, length : BOOLEAN, checksum : Checksums,
            content : Content, altered : {FALSE}, cut : {FALSE}] :
        r.checksum = "trailer" => r.mode # "signed"}

Other(byte) == byte + 1

----------------------------------------------------------------------------
(* Sending. *)

Arrives(request, tokens, end) ==
    /\ sent' = request
    /\ wire' = tokens
    /\ ending' = end
    /\ reader' = [NoReader EXCEPT !.pc = "header"]
    /\ UNCHANGED <<out, result>>

Send(request, size) ==
    /\ reader.pc = "idle"
    /\ Arrives(request, Body(request, size, 1, <<>>), "eof")

\* The client, or what is between, sends less than it framed (its stream ends
\* in order), or the connection fails (net/http reports an error).
SendPart(request, size, end) ==
    /\ reader.pc = "idle"
    /\ \E n \in 0..Len(Body(request, size, 1, <<>>)) - 1 :
          Arrives([request EXCEPT !.cut = TRUE], SubSeq(Body(request, size, 1, <<>>), 1, n), end)

\* A byte of data is damaged on the way.
SendAltered(request, size) ==
    LET body == Body(request, size, 1, <<>>) IN
    /\ reader.pc = "idle"
    /\ \E n \in DOMAIN body :
          /\ body[n].kind = "data"
          /\ Arrives([request EXCEPT !.altered = TRUE], [body EXCEPT ![n].value = Other(@)], "eof")

----------------------------------------------------------------------------
(* Reading. *)

Signed == sent.auth /\ sent.mode # "unsignedTrailer"

\* readLine: the tokens of the line at a place, and where the next one begins.
LineEnds(p) == {n \in p..Len(wire) : wire[n].kind = "line"}
Line(p) == SubSeq(wire, p, IF LineEnds(p) = {} THEN Len(wire) ELSE Min(LineEnds(p)) - 1)
After(p) == p + Len(Line(p)) + 1

\* A last line that is not ended is still one, but for an empty one.
LineResult(p) ==
    IF LineEnds(p) # {} THEN "line"
    ELSE IF ending = "error" THEN "error"
    ELSE IF p > Len(wire) THEN "eof" ELSE "line"

Select(line, kind) == SelectSeq(line, LAMBDA t : t.kind = kind)
Number(digits) == FoldLeft(LAMBDA n, t : n * Base + t.value, 0, digits)

Refuse ==
    /\ result' = "refused"
    /\ reader' = [reader EXCEPT !.pc = "done"]
    /\ UNCHANGED <<sent, wire, ending, out>>

Goes(r) == reader' = r /\ UNCHANGED <<sent, wire, ending, out, result>>

\* readChunkHeader; the end of the stream is not expected here.  The final
\* chunk's signature is checked at once.
ReadChunkHeader ==
    LET line == Line(reader.at)
        size == Number(Select(line, "digit"))
        sigs == Select(line, "signature")
    IN /\ reader.pc = "header"
       /\ IF \/ LineResult(reader.at) # "line"
             \/ Select(line, "digit") = <<>>
             \/ Signed /\ sigs = <<>>
          THEN Refuse
          ELSE Goes([reader EXCEPT
                  !.pc = IF size = 0 THEN "final" ELSE "data",
                  !.at = After(reader.at),
                  !.remaining = size,
                  !.chunk = <<>>,
                  !.chunkSig = IF Signed THEN sigs[1].value ELSE <<>>])

\* Read, with a buffer that holds n bytes: what is there of them is handed
\* back, and if they are not all there the body is refused.  So it is if it is
\* longer than was declared.
ReadData(n) ==
    LET want == Min({n, reader.remaining})
        got == SubSeq(wire, reader.at, Min({reader.at + want - 1, Len(wire)}))
        bytes == [k \in DOMAIN got |-> got[k].value]
        whole == Len(got) = want /\ (sent.length => Len(out) + want <= Len(sent.content))
    IN /\ reader.pc = "data"
       /\ out' = out \o bytes
       /\ result' = IF whole THEN result ELSE "refused"
       /\ reader' = [reader EXCEPT
             !.pc = IF ~whole THEN "done" ELSE IF want = reader.remaining THEN "crlf" ELSE "data",
             !.at = @ + Len(got),
             !.remaining = @ - want,
             !.chunk = @ \o bytes]
       /\ UNCHANGED <<sent, wire, ending>>

\* verifyChunk: the chunk carries the signature of its data.
Verified == Signed => reader.chunkSig = Sign(reader.prev, reader.chunk)

\* expectCRLF, and verifyChunk.  If the stream ends where the line should be,
\* that is the error expectCRLF returns, and what Read passes on: the end.
EndChunk ==
    /\ reader.pc = "crlf"
    /\ CASE LineResult(reader.at) = "eof" -> Goes([reader EXCEPT !.pc = "ended"])
         [] LineResult(reader.at) = "error" \/ Line(reader.at) # <<>> \/ ~Verified -> Refuse
         [] OTHER -> Goes([reader EXCEPT !.pc = "header", !.at = After(reader.at),
                                         !.prev = reader.chunkSig])

TrailerTokens == SubSeq(wire, reader.at, Len(wire))

\* verifyChunk of the final chunk and consumeTrailers, which takes what lines
\* there are, up to the end of the stream.  (A connection that fails does so
\* before the last of them.)
ConsumeTrailers ==
    LET sums == Select(TrailerTokens, "checksum")
        sigs == Select(TrailerTokens, "trailerSignature")
        carried == IF sums = <<>> THEN <<>> ELSE sums[1].value
    IN /\ reader.pc = "final"
       /\ IF \/ ~Verified
             \/ ending = "error"
             \/ sent.mode = "signed" /\ sums \o sigs # <<>>
             \/ /\ Signed /\ sent.mode = "signedTrailer"
                /\ sigs = <<>> \/ sigs[1].value # Sign(reader.chunkSig, Trailer(carried))
          THEN Refuse
          ELSE Goes([reader EXCEPT !.pc = "ended", !.trailer = sums])

\* Mutant of Check: a checksum that was announced and did not come is let be.
CheckWhatCame ==
    /\ reader.pc = "ended"
    /\ IF \/ sent.length /\ Len(out) < Len(sent.content)
          \/ sent.checksum = "trailer" /\ reader.trailer # <<>> /\ reader.trailer[1].value # out
          \/ sent.checksum = "header" /\ out # sent.content
       THEN Refuse
       ELSE /\ result' = "accepted"
            /\ reader' = [reader EXCEPT !.pc = "done"]
            /\ UNCHANGED <<sent, wire, ending, out>>

\* The end of the body, as the reader sees it: lengthCheckedReader, takeTrailer
\* and check.
Check ==
    /\ reader.pc = "ended"
    /\ IF \/ sent.length /\ Len(out) < Len(sent.content)
          \/ sent.checksum = "trailer" /\ (reader.trailer = <<>> \/ reader.trailer[1].value # out)
          \/ sent.checksum = "header" /\ out # sent.content
       THEN Refuse
       ELSE /\ result' = "accepted"
            /\ reader' = [reader EXCEPT !.pc = "done"]
            /\ UNCHANGED <<sent, wire, ending, out>>

\* The handler is done with the request, and serves another.
Finish ==
    /\ reader.pc = "done"
    /\ sent' = NoRequest
    /\ wire' = <<>>
    /\ ending' = "eof"
    /\ reader' = NoReader
    /\ out' = <<>>
    /\ result' = "none"

Next ==
    \/ \E request \in BodyRequest, size \in ChunkSize :
          \/ Send(request, size)
          \/ \E end \in {"eof", "error"} : SendPart(request, size, end)
          \/ SendAltered(request, size)
    \/ ReadChunkHeader
    \/ \E n \in ChunkSize : ReadData(n)
    \/ EndChunk
    \/ ConsumeTrailers
    \/ Check
    \/ Finish

Spec == Init /\ [][Next]_vars

----------------------------------------------------------------------------
(* Properties. *)

Whole == out = sent.content

\* Types.
TypeOK ==
    /\ sent \in [mode : Modes, auth : BOOLEAN, length : BOOLEAN, checksum : Checksums,
                 content : Content \cup {<<>>}, altered : BOOLEAN, cut : BOOLEAN]
    /\ ending \in {"eof", "error"}
    /\ reader.pc \in {"idle", "header", "data", "crlf", "final", "ended", "done"}
    /\ reader.at \in 1..Len(wire) + 2 /\ reader.remaining \in Nat
    /\ result \in {"none", "accepted", "refused"}

\* The reader, with buffers of whatever size, accepts what a client sent whole,
\* however it framed it; and it accepts no body that is not what a checksum
\* says, nor one of another length than was declared, nor, having read its
\* final chunk, one that is not signed, nor one that is not a part of the
\* content unless a byte of it was damaged.
BodiesMeetTheirClaims ==
    /\ result = "refused" => sent.altered \/ sent.cut
    /\ result = "accepted" =>
          /\ sent.checksum # "none" => Whole
          /\ sent.length => Len(out) = Len(sent.content)
          /\ Signed /\ reader.remaining = 0 /\ reader.chunk = <<>> => Whole
          /\ IsPrefix(out, sent.content) \/ sent.altered

\* chunked.go's comments: a body that ends before its terminating chunk is "a
\* prefix of the object, not the object", and "a truncated chunk means the client
\* stopped mid-body": a body that was cut is not taken for whole.
BodiesAreWhole == result = "accepted" /\ sent.cut => Whole
=============================================================================
