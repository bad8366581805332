------------------------- MODULE EvdHttpConnection -------------------------
(***************************************************************************)
(* EvdHttpConnection (src/evd/evd-http-connection.c) with the chunked      *)
(* decoder (src/evd/evd-http-chunked-decoder.c): the framing of HTTP       *)
(* messages on a stream, seen from both ends of a connection.  The client  *)
(* goes through its requests the way the JSON-RPC client does, the server  *)
(* reads each with its content and responds.                               *)
(*                                                                         *)
(* A byte is a pair <<kind, value>>: <<"h", d>> opens the headers d        *)
(* describes, <<"c", 0>> is any other byte of a header line, <<"r", 0>>    *)
(* and <<"n", 0>> are CR and LF, <<"d", k>> a hexadecimal digit of a chunk *)
(* header and <<"b", k>> the k-th byte of a content.  A read returns all   *)
(* that was sent and not yet read, or one of Pieces bytes of it.           *)
(***************************************************************************)
EXTENDS Integers, Sequences, SequencesExt

CONSTANTS HEADER_BLOCK_SIZE, MAX_HEADERS_SIZE, CONTENT_BLOCK_SIZE,
          OUTBUF_SIZE,  \* 1024, the piece a block is decoded by
          Pieces,       \* sizes of a short read
          Setups        \* the exchanges of a connection, see Setup

VARIABLE http

Ends == {"client", "server"}
Other(e) == IF e = "client" THEN "server" ELSE "client"

\* shape: lengths of the header lines, two bytes (a name and a colon) at least:
\* the scan for their end need not stop on shorter ones; post: the request has
\* a content, of len bytes; keep: it asks to keep the connection; how: the server responds at
\* once, in chunks, or up to the end of the connection.
Exchange == [shape : Seq(Nat), post : BOOLEAN, len : Nat, keep : BOOLEAN,
             how : {"respond", "chunked", "eof"}, rlen : Nat]
Setup == [exchanges : Seq(Exchange), quits : BOOLEAN]

CR == <<"r", 0>>
LF == <<"n", 0>>
CRLF == <<CR, LF>>

Content(n) == [k \in 1..n |-> <<"b", k>>]
Line(n) == [k \in 1..n |-> <<"c", 0>>] \o CRLF

\* The first byte of a header block carries what the lines would say.
Headers(shape, d) ==
  LET lines == FlattenSeq([i \in 1..Len(shape) |-> Line(shape[i])]) \o CRLF
  IN [lines EXCEPT ![1] = <<"h", d>>]

Describes(enc, len, keep) == [enc |-> enc, len |-> len, keep |-> keep]

(***************************************************************************)
(* Chunked decoder.                                                        *)
(***************************************************************************)

\* reset
FreshDecoder == [status |-> "HEADER", chunk_left |-> 0, hdr_buf |-> <<>>, crlf |-> 0]

Hex(digits) == FoldLeft(LAMBDA v, b : 16 * v + b[2], 0, digits)

Turn(d, eats, out, result) == [d |-> d, eats |-> eats, out |-> out, result |-> result]

ReadHeader(d, c) ==
  IF c[1] = "d" THEN Turn([d EXCEPT !.hdr_buf = Append(@, c)], 1, <<>>, "CONVERTED")
  ELSE IF d.hdr_buf # <<>>
  THEN Turn([d EXCEPT !.chunk_left = Hex(d.hdr_buf), !.hdr_buf = <<>>,
                      !.status = "CRLF_1"], 0, <<>>, "CONVERTED")
  ELSE Turn(d, 0, <<>>, "ERROR")

ReadCRLF(d, c) ==
  IF c # (IF d.crlf = 0 THEN CR ELSE LF) THEN Turn(d, 0, <<>>, "ERROR")
  ELSE IF d.crlf = 0 THEN Turn([d EXCEPT !.crlf = 1], 1, <<>>, "CONVERTED")
  ELSE IF d.status = "CRLF_2"
  THEN Turn([d EXCEPT !.status = "HEADER", !.crlf = 0], 1, <<>>, "CONVERTED")
  ELSE IF d.chunk_left > 0
  THEN Turn([d EXCEPT !.status = "CONTENT", !.crlf = 0], 1, <<>>, "CONVERTED")
  ELSE Turn([d EXCEPT !.crlf = 0], 1, <<>>, "FINISHED")

ReadContent(d, c) ==
  Turn([d EXCEPT !.chunk_left = @ - 1,
                 !.status = IF d.chunk_left = 1 THEN "CRLF_2" ELSE @],
       1, <<c>>, "CONVERTED")

\* Input left over is for the next call, as is what does not fit in `room`.
RECURSIVE convert(_, _, _)

\* The rest of the buffer after the turn t.
Converted(t, left, room) ==
  IF t.result # "CONVERTED" THEN [d |-> t.d, left |-> left, out |-> t.out, result |-> t.result]
  ELSE [convert(t.d, left, room - Len(t.out)) EXCEPT !.out = t.out \o @]

ConvertedAfter(t, inbuf, room) == Converted(t, SubSeq(inbuf, t.eats + 1, Len(inbuf)), room)

convert(d, inbuf, room) ==
  IF inbuf = <<>> \/ room = 0 THEN [d |-> d, left |-> inbuf, out |-> <<>>, result |-> "CONVERTED"]
  ELSE ConvertedAfter(CASE d.status = "HEADER" -> ReadHeader(d, Head(inbuf))
                        [] d.status \in {"CRLF_1", "CRLF_2"} -> ReadCRLF(d, Head(inbuf))
                        [] d.status = "CONTENT" -> ReadContent(d, Head(inbuf)),
                      inbuf, room)

\* The loop of evd_http_connection_process_read_content: done is set on an error
\* too, which is then not reported.  What follows the last chunk is dropped.
RECURSIVE DecodeBlock(_, _)

Decoded(r) ==
  IF r.result \in {"ERROR", "FINISHED"} THEN [d |-> FreshDecoder, out |-> r.out, done |-> TRUE]
  ELSE IF r.left = <<>> THEN [d |-> r.d, out |-> r.out, done |-> FALSE]
  ELSE [DecodeBlock(r.d, r.left) EXCEPT !.out = r.out \o @]

DecodeBlock(d, block) == Decoded(convert(d, block, OUTBUF_SIZE))

(***************************************************************************)
(* The end of the headers.  buf is indexed from 0; the byte after the last *)
(* one is the NUL of the GString.                                          *)
(***************************************************************************)

At(buf, i) == IF i \in 0..(Len(buf) - 1) THEN buf[i + 1] ELSE <<"0", 0>>
EndOfLine(b) == b \in {CR, LF}

MarkAt(buf, i) ==
  At(buf, i) = CR /\ At(buf, i + 1) = LF /\ At(buf, i + 2) = CR /\ At(buf, i + 3) = LF

\* Where the scan looks next if the mark is not at i.
NextLook(buf, i) ==
  IF ~EndOfLine(At(buf, i)) THEN i + 4
  ELSE IF ~EndOfLine(At(buf, i + 1)) THEN i - 3
  ELSE IF At(buf, i + 2) = CR /\ At(buf, i + 3) = LF THEN i + 4
  ELSE i - 1

\* A negative position is a large one when it is compared with the length.
RECURSIVE evd_http_connection_find_end_headers_mark(_, _)
evd_http_connection_find_end_headers_mark(buf, i) ==
  IF i < 0 \/ i >= Len(buf) THEN -1
  ELSE IF MarkAt(buf, i) THEN i + 4
  ELSE evd_http_connection_find_end_headers_mark(buf, NextLook(buf, i))

(***************************************************************************)
(* One end.  result is the operation to answer (its source tag), reading   *)
(* the size of the stream read under way, block the reads of it; phase is  *)
(* what the application is at, reply what it is about to be told.          *)
(***************************************************************************)

evd_http_connection_init ==
  [ pending |-> FALSE, result |-> "none", reading |-> 0,
    buf |-> <<>>, last_headers_pos |-> 0, encoding |-> "UNRECOGNIZED",
    content_len |-> 0, content_read |-> 0, keepalive |-> FALSE,
    dec |-> FreshDecoder, writing |-> FALSE,
    connected |-> TRUE, closed |-> FALSE,
    phase |-> "idle", reply |-> "none", asked |-> 0, answered |-> 0,
    heard |-> 0, headers |-> <<>>, content |-> <<>>,
    early |-> FALSE, late |-> FALSE, tiny |-> FALSE, stale |-> FALSE, cut |-> FALSE ]

Init ==
  \E st \in Setups :
    http = [ setup |-> st, request |-> 0, response |-> 0,
             pipe |-> [e \in Ends |-> <<>>],
             end |-> [e \in Ends |-> evd_http_connection_init] ]

\* g_simple_async_result_complete, now or in idle.
Answer(c, reply) == [c EXCEPT !.result = "none", !.reply = reply, !.answered = @ + 1]

\* The block to read is the rest of MAX_HEADERS_SIZE at most.
evd_http_connection_read_headers_block(c) ==
  LET size == Min({MAX_HEADERS_SIZE, Len(c.buf) + HEADER_BLOCK_SIZE}) - Len(c.buf)
  IN IF size <= 0 THEN c ELSE [c EXCEPT !.reading = size]

\* GIO refuses an operation while another one is pending or after the close.
Start(c, tag) ==
  [c EXCEPT !.pending = TRUE, !.asked = @ + 1, !.result = tag]
Refused(c) == c.pending \/ c.closed
Refuse(c) == Answer([c EXCEPT !.asked = @ + 1], "error")

evd_http_connection_read_headers_async(c) ==
  IF Refused(c) THEN Refuse(c)
  ELSE evd_http_connection_read_headers_block(
         [Start(c, "headers") EXCEPT !.keepalive = FALSE, !.buf = <<>>,
                                     !.last_headers_pos = 12, !.tiny = FALSE])

\* The operation is answered in idle.  An empty line before the headers is
\* skipped by the parser.
evd_http_connection_on_read_headers(c, buf) ==
  LET text == IF buf[1] = CR THEN SubSeq(buf, 3, Len(buf)) ELSE buf
      d == text[1][2]
  IN IF c.result = "none" THEN c
     ELSE IF text[1][1] # "h" THEN Answer([c EXCEPT !.pending = FALSE], "error")
     ELSE Answer([c EXCEPT !.pending = FALSE, !.encoding = d.enc, !.content_len = d.len,
                           !.keepalive = d.keep, !.heard = @ + 1, !.headers = text],
                 "headers")

(***************************************************************************)
(* Reading.  Each operator takes the end and the data its stream read      *)
(* returned and gives the end and what goes back to the stream.            *)
(***************************************************************************)

Back(c, unread) == [c |-> c, unread |-> unread]

\* Deviation: what lies beyond the headers is dropped.
DropsBeyond(c, data) ==
  LET whole == c.buf \o data
      buf == SubSeq(whole, 1, Len(c.buf) + c.reading - (HEADER_BLOCK_SIZE - Len(data)))
      pos == evd_http_connection_find_end_headers_mark(buf, c.last_headers_pos)
      t == [c EXCEPT !.reading = 0]
  IN IF pos > 0
     THEN Back([evd_http_connection_on_read_headers(t, SubSeq(buf, 1, pos))
                  EXCEPT !.buf = <<>>, !.last_headers_pos = 0],
               <<>>)
     ELSE IF Len(buf) < MAX_HEADERS_SIZE
     THEN Back(evd_http_connection_read_headers_block(
                 [t EXCEPT !.buf = buf, !.last_headers_pos = Len(buf) - 3,
                           !.tiny = @ \/ Len(buf) < 3,
                           !.late = \E i \in 0..Len(buf) : MarkAt(buf, i)]), <<>>)
     ELSE Back(Answer([t EXCEPT !.buf = buf], "error"), <<>>)

\* The buffer is cut by what a whole block has more than was read.  late: the
\* end of the headers is there, but the scan missed it; tiny: it starts before
\* the buffer, fewer than three bytes being read.
evd_http_connection_on_read_headers_block(c, data) ==
  LET whole == c.buf \o data
      buf == SubSeq(whole, 1, Len(c.buf) + c.reading - (HEADER_BLOCK_SIZE - Len(data)))
      pos == evd_http_connection_find_end_headers_mark(buf, c.last_headers_pos)
      t == [c EXCEPT !.reading = 0]
  IN IF pos > 0
     THEN Back([evd_http_connection_on_read_headers(t, SubSeq(buf, 1, pos))
                  EXCEPT !.buf = <<>>, !.last_headers_pos = 0],
               SubSeq(buf, pos + 1, Len(buf)))
     ELSE IF Len(buf) < MAX_HEADERS_SIZE
     THEN Back(evd_http_connection_read_headers_block(
                 [t EXCEPT !.buf = buf, !.last_headers_pos = Len(buf) - 3,
                           !.tiny = @ \/ Len(buf) < 3,
                           !.late = \E i \in 0..Len(buf) : MarkAt(buf, i)]), <<>>)
     ELSE Back(Answer([t EXCEPT !.buf = buf], "error"), <<>>)

\* Content of a known length is never read beyond.
evd_http_connection_read_next_content_block(c) ==
  [c EXCEPT !.reading = IF c.encoding = "CONTENT_LENGTH"
                        THEN Min({c.content_len - c.content_read, CONTENT_BLOCK_SIZE})
                        ELSE CONTENT_BLOCK_SIZE]

\* early: there is nothing to read, and the stream stays pending for ever.
evd_http_connection_read_all_content(c) ==
  IF Refused(c) THEN Refuse(c)
  ELSE IF c.encoding = "NONE" \/ (c.encoding = "CONTENT_LENGTH" /\ c.content_len = 0)
  THEN Answer([Start(c, "content") EXCEPT !.early = TRUE, !.content = <<>>], "content")
  ELSE evd_http_connection_read_next_content_block(
         [Start(c, "content") EXCEPT !.content_read = 0, !.buf = <<>>])

\* The content read so far, and whether it is the last of it.
Chunks(c, r) ==
  [c |-> [c EXCEPT !.dec = r.d, !.buf = @ \o r.out, !.content_read = @ + Len(r.out)], done |-> r.done]

evd_http_connection_process_read_content(c, data) ==
  LET t == [c EXCEPT !.buf = @ \o data, !.content_read = @ + Len(data)]
  IN IF c.encoding = "CHUNKED" THEN Chunks(c, DecodeBlock(c.dec, data))
     ELSE [c |-> t, done |-> ~t.connected \/ (t.encoding = "CONTENT_LENGTH"
                                              /\ t.content_read >= t.content_len)]

ContentRead(p) ==
  IF p.done THEN Answer([p.c EXCEPT !.pending = FALSE, !.content = p.c.buf, !.buf = <<>>], "content")
  ELSE evd_http_connection_read_next_content_block(p.c)

evd_http_connection_on_read_content_block(c, data) ==
  ContentRead(evd_http_connection_process_read_content([c EXCEPT !.reading = 0], data))

(***************************************************************************)
(* Writing: the bytes sent.                                                *)
(***************************************************************************)

evd_http_connection_write_chunk(data) == <<<<"d", Len(data)>>>> \o CRLF \o data \o CRLF

\* Deviation: the chunk of length 0 that ends a content is left out.
NoLastChunk(c, data, more) ==
  IF c.encoding # "CHUNKED" THEN data
  ELSE IF data = <<>> THEN <<>> ELSE evd_http_connection_write_chunk(data)

evd_http_connection_write_content(c, data, more) ==
  IF c.encoding # "CHUNKED" THEN data
  ELSE (IF data = <<>> THEN <<>> ELSE evd_http_connection_write_chunk(data))
       \o (IF more THEN <<>> ELSE evd_http_connection_write_chunk(<<>>))

RequestHeaders(x) ==
  Headers(x.shape, Describes(IF x.post THEN "CONTENT_LENGTH" ELSE "NONE", x.len, x.keep))

Encoding(how) == CASE how = "respond" -> "CONTENT_LENGTH"
                   [] how = "chunked" -> "CHUNKED"
                   [] how = "eof" -> "EOF"

ResponseHeaders(x) == Headers(x.shape, Describes(Encoding(x.how), x.rlen, x.keep))

\* evd_http_connection_respond, or write_response_headers and two parts of the
\* content.  The encoding is the response's from here on.
Response(c, x) ==
  LET t == [c EXCEPT !.encoding = Encoding(x.how)]
      half == x.rlen \div 2
  IN ResponseHeaders(x)
     \o (IF x.how = "respond" THEN evd_http_connection_write_content(t, Content(x.rlen), FALSE)
         ELSE evd_http_connection_write_content(t, SubSeq(Content(x.rlen), 1, half), TRUE)
              \o evd_http_connection_write_content(t, SubSeq(Content(x.rlen), half + 1, x.rlen), FALSE))

(***************************************************************************)
(* Steps of the connection.                                                *)
(***************************************************************************)

Closed(e) == http.end[e].closed
Stale == http.end["client"].stale

\* The scan goes on among bytes that are no headers: not modelled further.
Lost(e) == http.end[e].late \/ (Stale /\ e = "server" /\ http.end[e].heard = http.request)

\* The stream answers its read with an error, which ends the operation; what
\* is left is answered here.
evd_http_connection_close(c) ==
  [IF c.result # "none" THEN Answer(c, "error") ELSE c
     EXCEPT !.closed = TRUE, !.connected = FALSE, !.reading = 0, !.pending = FALSE]

\* k bytes arrive.  seen: the connection has noticed that the other end is
\* gone, and closes as soon as everything is read.
StreamRead(e) ==
  LET c == http.end[e]
      pipe == http.pipe[e]
  IN /\ c.reading > 0 /\ (c.result = "headers" => ~Lost(e))
     /\ pipe # <<>>
     /\ \E k \in {Min({c.reading, Len(pipe), i}) : i \in Pieces \cup {c.reading}}, seen \in {FALSE, Closed(Other(e))} :
          LET data == SubSeq(pipe, 1, k)
              t == [c EXCEPT !.connected = ~(seen /\ k = Len(pipe))]
          IN \E r \in {IF c.result = "headers"
                       THEN evd_http_connection_on_read_headers_block(t, data)
                       ELSE Back(evd_http_connection_on_read_content_block(t, data), <<>>)} :
               http' = [http EXCEPT !.end[e] = r.c,
                                    !.pipe[e] = r.unread \o SubSeq(pipe, k + 1, Len(pipe))]

\* The operation may have been answered by a close.
evd_http_connection_on_write_request_headers(e) ==
  LET c == http.end[e]
      t == [c EXCEPT !.writing = FALSE, !.pending = FALSE]
  IN /\ c.writing
     /\ http' = [http EXCEPT !.end[e] = IF c.result = "none" THEN t ELSE Answer(t, "written")]

\* evd_connection_close_in_idle_cb after a hang-up, put off while data are read,
\* or an end that breaks off: only a part of what it wrote, which may stop
\* anywhere inside a message, gets to the other end (cut).
HangUp(e) ==
  LET o == Other(e)
      closed == [http EXCEPT !.end[e] = evd_http_connection_close(@)]
  IN /\ ~Closed(e)
     /\ \/ Closed(o) /\ (http.end[e].reading = 0 \/ http.pipe[e] = <<>>) /\ http' = closed
        \/ /\ http.setup.quits
           /\ \E k \in 0..Len(http.pipe[o]) :
                http' = [closed EXCEPT !.pipe[o] = SubSeq(@, 1, k),
                                       !.end[o].cut = k < Len(http.pipe[o])]

(***************************************************************************)
(* The client and the server.                                              *)
(***************************************************************************)

Told(e, phase, reply) == http.end[e].phase = phase /\ http.end[e].reply = reply
Goes(c, phase) == [c EXCEPT !.phase = phase, !.reply = "none"]
X(n) == http.setup.exchanges[n]

\* stale: the last response was chunked, and so will be the next content.
evd_http_connection_write_request_headers ==
  LET c == http.end["client"]
      n == http.request + 1
  IN /\ Told("client", "idle", "none") /\ ~c.closed
     /\ n <= Len(http.setup.exchanges)
     /\ http' = IF Refused(c)
                THEN [http EXCEPT !.end["client"] = Refuse(Goes(c, "sending"))]
                ELSE [http EXCEPT !.request = n,
                        !.pipe["server"] = @ \o RequestHeaders(X(n)),
                        !.end["client"] = [Start(Goes(c, "sending"), "write")
                           EXCEPT !.writing = TRUE,
                                  !.stale = X(n).post /\ c.encoding = "CHUNKED"]]

ClientWritesContent ==
  LET c == http.end["client"]
      x == X(http.request)
  IN /\ Told("client", "sending", "written")
     /\ http' = [http EXCEPT
                   !.pipe["server"] = IF c.closed \/ ~x.post THEN @
                     ELSE @ \o evd_http_connection_write_content(c, Content(x.len), FALSE),
                   !.end["client"] = evd_http_connection_read_headers_async(Goes(c, "headers"))]

ReadsContent(e) ==
  /\ Told(e, "headers", "headers")
  /\ e = "server" => X(http.end[e].heard).post
  /\ http' = [http EXCEPT !.end[e] = evd_http_connection_read_all_content(Goes(@, "content"))]

ClientDone ==
  /\ Told("client", "content", "content")
  /\ http' = [http EXCEPT !.response = @ + 1, !.end["client"] = Goes(@, "idle")]

ServerListens ==
  /\ Told("server", "idle", "none") /\ ~Closed("server")
  /\ http' = [http EXCEPT !.end["server"] =
                evd_http_connection_read_headers_async(Goes(@, "headers"))]

\* A connection that is not kept is closed after the response.
ServerResponds ==
  LET c == http.end["server"]
      x == X(c.heard)
      t == [Goes(c, "idle") EXCEPT !.encoding = Encoding(x.how)]
  IN /\ Told("server", "content", "content") \/ (Told("server", "headers", "headers") /\ ~x.post)
     /\ http' = [http EXCEPT
                   !.pipe["client"] = IF c.closed THEN @ ELSE @ \o Response(c, x),
                   !.end["server"] = IF c.keepalive /\ x.how # "eof" THEN t
                                     ELSE evd_http_connection_close(t)]

\* g_io_stream_close is refused while an operation is pending.
GivesUp(e) ==
  /\ http.end[e].reply = "error"
  /\ http' = [http EXCEPT !.end[e] =
                IF @.pending THEN Goes(@, "failed") ELSE evd_http_connection_close(Goes(@, "failed"))]

Next ==
  \/ \E e \in Ends : \/ StreamRead(e) \/ evd_http_connection_on_write_request_headers(e)
                     \/ HangUp(e) \/ ReadsContent(e) \/ GivesUp(e)
  \/ evd_http_connection_write_request_headers \/ ClientWritesContent \/ ClientDone
  \/ ServerListens \/ ServerResponds

Spec == Init /\ [][Next]_http

CanRead(e) ==
  LET c == http.end[e]
  IN c.reading > 0 /\ http.pipe[e] # <<>> /\ (c.result = "headers" => ~Lost(e))

\* Reads, idle callbacks and the two applications go on.  Each disjunction is
\* weak fairness of its action, which is enabled exactly when the guard holds.
Fairness ==
  /\ \A e \in Ends : /\ ([]<>~(CanRead(e)) \/ []<><<StreamRead(e)>>_http)
                     /\ ([]<>~(http.end[e].writing) \/ []<><<evd_http_connection_on_write_request_headers(e)>>_http)
                     /\ ([]<>~(http.end[e].reply = "error") \/ []<><<GivesUp(e)>>_http)
                     /\ WF_http(ReadsContent(e)) /\ WF_http(HangUp(e) /\ Closed(Other(e)))
  /\ ([]<>~(Told("client", "sending", "written")) \/ []<><<ClientWritesContent>>_http)
  /\ ([]<>~(Told("client", "content", "content")) \/ []<><<ClientDone>>_http)
  /\ WF_http(ServerListens) /\ WF_http(ServerResponds)

(***************************************************************************)
(* Properties.                                                             *)
(***************************************************************************)

\* Headers that end in the last block allowed: the cut of a shorter block takes
\* bytes that were read.
TooLong(x) == Len(RequestHeaders(x)) > MAX_HEADERS_SIZE - HEADER_BLOCK_SIZE

TypeOK ==
  \A e \in Ends :
    LET c == http.end[e]
    IN /\ c.reading \in 0..Max({HEADER_BLOCK_SIZE, CONTENT_BLOCK_SIZE})
       /\ Len(c.buf) <= MAX_HEADERS_SIZE /\ c.content_read \in Nat
       /\ c.dec.chunk_left \in Nat /\ c.dec.crlf \in 0..1
       /\ c.result \in {"none", "headers", "content", "write"}
       /\ c.reply \in {"none", "headers", "content", "written", "error"}

\* However the bytes arrive, the headers told are the whole headers of the next
\* message and nothing else, unless these are TooLong.  Their end is not missed
\* but where a first read gave one or two bytes, or where the line that ends a
\* chunked content comes before the headers.
HeadersWhole ==
  \A e \in Ends :
    LET c == http.end[e]
    IN /\ c.late => c.tiny \/ Head(c.buf) = CR
       /\ c.heard > 0 /\ ~TooLong(X(c.heard))
          => c.headers = IF e = "server" THEN RequestHeaders(X(c.heard)) ELSE ResponseHeaders(X(c.heard))

\* A content told without an error is the whole content of that message, for
\* each of the three encodings; but where the other end broke off and the
\* connection has noticed it, a content that is not chunked is told as far as it
\* came, even one of a known length: evd_http_connection_process_read_content
\* takes the end of the connection for the end of the content.
ContentWhole ==
  \A e \in Ends :
    LET c == http.end[e]
        whole == Content(IF e = "server" THEN X(c.heard).len ELSE X(c.heard).rlen)
    IN c.reply = "content" /\ ~Stale
       => /\ IsPrefix(c.content, whole)
          /\ c.content # whole => c.cut /\ ~c.connected /\ c.encoding # "CHUNKED"

\* After an exchange both directions are empty, but for the line that ends a
\* chunked content: the next message starts where it should.
InStep ==
  http.end["client"].phase = "idle" /\ http.response > 0 /\ ~Stale
    /\ ~Closed("client") /\ ~Closed("server")
  => /\ http.pipe["server"] = <<>>
     /\ http.pipe["client"] \in IF X(http.response).how = "chunked" THEN {<<>>, <<LF>>, CRLF} ELSE {<<>>}

\* The stream is pending exactly while an operation is under way, so that the
\* next one is not refused.
PendingMatches ==
  \A e \in Ends :
    LET c == http.end[e]
    IN ~c.closed /\ ~c.early /\ c.phase # "failed" /\ c.reply # "error"
       => (c.pending <=> c.result # "none" \/ c.writing)

\* Every operation is answered once, closing included.
AnsweredOnce ==
  \A e \in Ends :
    LET c == http.end[e]
    IN c.asked - c.answered = IF c.result = "none" THEN 0 ELSE 1

\* Messages pass whole and operations end, however the bytes are cut.
MessagesWhole == HeadersWhole /\ ContentWhole /\ InStep /\ PendingMatches /\ AnsweredOnce

\* An exchange that was started ends, with the response or with an error.
ExchangesEnd ==
  http.end["client"].phase \in {"sending", "headers", "content"}
    ~> \/ http.end["client"].phase \in {"idle", "failed"} \/ Stale \/ TooLong(X(http.request))
       \/ \E e \in Ends : http.end[e].early \/ http.end[e].late
=============================================================================
