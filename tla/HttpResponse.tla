---------------------------- MODULE HttpResponse ----------------------------
(***************************************************************************)
(* How the proxy takes an origin server's answer apart (proxyserver/       *)
(* proxy-conn.cpp, http_headers.cpp): process_until_header_end finds the   *)
(* end of the header in the reads, process_rawbody undoes the chunked      *)
(* transfer encoding and notices the last chunk, http_browser_write        *)
(* decides whether to read on.  The server's bytes arrive in reads of any  *)
(* length; ProxyConnection has the operations around these handlers.       *)
(*                                                                         *)
(* Symbols: 0 .. 15 are the hexadecimal digits, CR and LF the line ends,   *)
(* Other everything else.  Chunk extensions and trailers are not sent.     *)
(***************************************************************************)
EXTENDS Integers, Sequences, FiniteSets, SequencesExt

CONSTANT Streams    \* the answers servers give, see StreamType

Other == 16
CR == 17
LF == 18
Symbol == 0 .. 18

\* What parse() finds in a header.  contentlen is -1 when it is not announced.
Answers ==
    [chunked : BOOLEAN, contentlen : Nat \cup {-1}, is_html : BOOLEAN,
     not_modified : BOOLEAN]

\* parts: the body, in chunks (size: the digits in the chunk's header) or whole.
IsStream(s) ==
    /\ DOMAIN s = {"answer", "header", "parts"}
    /\ s.answer \in Answers
    /\ s.answer.contentlen >= 0 => ~s.answer.chunked

Size(digits) == FoldLeft(LAMBDA n, d : 16 * n + d, 0, digits)

ASSUME StreamsAssumption ==
    \A s \in Streams :
        /\ IsStream(s)
        /\ \A i \in DOMAIN s.parts : Size(s.parts[i].size) = Len(s.parts[i].data)

VARIABLES
    stream,     \* what the server sends on this connection
    read,       \* how many of its symbols have been read
    phase,      \* the operation awaited: "headers", "start" (the header is being
                \* written to the browser), "body", "relay" (the read is being
                \* written), "page" (an HTML page is), "closed"
    resp,       \* what parse() made of the header
    original,   \* resp.original, the header collected
    left,       \* what srv_buff holds from srv_buff_endpos on
    body_read,  \* stat.body_bytes_srv_read
    raw,        \* response_raw, kept for an HTML page
    ck,         \* in_chunk, current_chunk_pos, size of chunks.back(),
                \* current_chunk_header, got_last_chunk, response_unchunked
    browser,    \* history: what the browser has received
    awkward,    \* history: reads cut where the code does not expect it
    cut         \* history: the connection broke or the server closed early

vars == <<stream, read, phase, resp, original, left, body_read, raw, ck, browser,
          awkward, cut>>
----------------------------------------------------------------------------
(* What the server sends. *)

Encoded(part) == part.size \o <<CR, LF>> \o part.data \o <<CR, LF>>
LastChunk == <<0, CR, LF, CR, LF>>

Body(s) ==
    IF s.answer.chunked
    THEN FlattenSeq([i \in DOMAIN s.parts |-> Encoded(s.parts[i])]) \o LastChunk
    ELSE FlattenSeq([i \in DOMAIN s.parts |-> s.parts[i].data])

Text(s) == s.header \o Body(s)

\* The place in the body of the first symbol of a chunk's data.
First(s, i) ==
    Len(FlattenSeq([j \in 1 .. i - 1 |-> Encoded(s.parts[j])]))
        + Len(s.parts[i].size) + 3

Places(s, i) == First(s, i) .. First(s, i) + Len(s.parts[i].data) - 1

\* The data among the first n symbols of the body.
DataOf(s, n) ==
    SubSeq(FlattenSeq([i \in DOMAIN s.parts |-> s.parts[i].data]), 1,
           Cardinality({p \in UNION {Places(s, i) : i \in DOMAIN s.parts} : p <= n}))
----------------------------------------------------------------------------
(* process_until_header_end *)

HasSub(seq, sub) ==
    \E i \in 1 .. Len(seq) - Len(sub) + 1 : SubSeq(seq, i, i + Len(sub) - 1) = sub

IsHeaderEnd(hdr) == \/ HasSub(hdr, <<CR, LF, CR, LF>>)
                    \/ HasSub(hdr, <<CR, CR>>)
                    \/ HasSub(hdr, <<LF, LF>>)

LineEnds(data) == {i \in DOMAIN data : data[i] \in {CR, LF}}

MutSplit(hdr, data) ==
    IF LineEnds(data) = {}
    THEN [hdr |-> hdr, processed |-> 0, found |-> FALSE]
    ELSE LET pos == CHOOSE i \in LineEnds(data) : \A j \in LineEnds(data) : i <= j
             atOnce == pos > 2
             Upto(i) == hdr \o SubSeq(data, IF atOnce THEN 1 ELSE pos, i)
             Ends == {i \in LineEnds(data) :
                         (i > pos \/ ~atOnce) /\ IsHeaderEnd(Upto(i))}
             stop == IF Ends = {} THEN Len(data)
                     ELSE CHOOSE i \in Ends : \A j \in Ends : i <= j
         IN [hdr |-> Upto(stop), found |-> Ends # {}, processed |-> stop - pos + 1]

\* Everything up to the first line end is taken at once when it is longer than
\* one symbol, else only the line end is; from there on one symbol at a time.
\* Without a line end find_first_of returns the end, and nothing is taken.
Split(hdr, data) ==
    IF LineEnds(data) = {}
    THEN [hdr |-> hdr, processed |-> 0, found |-> FALSE]
    ELSE LET pos == CHOOSE i \in LineEnds(data) : \A j \in LineEnds(data) : i <= j
             atOnce == pos > 2
             Upto(i) == hdr \o SubSeq(data, IF atOnce THEN 1 ELSE pos, i)
             Ends == {i \in LineEnds(data) :
                         (i > pos \/ ~atOnce) /\ IsHeaderEnd(Upto(i))}
             stop == IF Ends = {} THEN Len(data)
                     ELSE CHOOSE i \in Ends : \A j \in Ends : i <= j
         IN [hdr |-> Upto(stop), found |-> Ends # {},
             processed |-> IF atOnce THEN stop ELSE stop - pos + 1]

\* A read of the header that Split does not take whole.
AwkwardFragment(data) ==
    \/ LineEnds(data) = {}
    \/ 1 \notin LineEnds(data) /\ 2 \in LineEnds(data)
----------------------------------------------------------------------------
(* process_rawbody, for a chunked answer *)

MutEndsHere(c, data) == c.datasize <= c.pos + Len(data)

\* The chunk is taken to end in this read: the test adds the length of the
\* whole read, wherever in it the chunk begins.
EndsHere(c, data) == c.datasize < c.pos + Len(data)

Kept(symbols) == IF resp.is_html THEN symbols ELSE <<>>

LeaveChunk(c, data, n) ==
    [c EXCEPT !.in_chunk = FALSE, !.header = <<>>, !.unchunked = @ \o Kept(SubSeq(data, 1, n))]

StayInChunk(c, data) ==
    [c EXCEPT !.pos = @ + Len(data), !.unchunked = @ \o Kept(data)]

\* current_chunk_header after one more symbol: line ends before it are skipped,
\* and symbols that are neither digits nor line ends always.
Longer(header, symbol) ==
    IF symbol # Other /\ (header # <<>> \/ symbol \notin {CR, LF})
    THEN Append(header, symbol) ELSE header

HeaderSize(header) ==
    LET crlf == CHOOSE i \in 1 .. Len(header) - 1 :
                    /\ SubSeq(header, i, i + 1) = <<CR, LF>>
                    /\ \A j \in 1 .. i - 1 : SubSeq(header, j, j + 1) # <<CR, LF>>
    IN Size(SubSeq(header, 1, crlf - 1))

\* With the header complete: the last chunk, a chunk of data, or nothing yet.
HeaderRead(c, header) ==
    LET d == [c EXCEPT !.header = header] IN
    IF ~HasSub(header, <<CR, LF>>) THEN d
    ELSE IF HasSub(header, LastChunk) THEN [d EXCEPT !.last = TRUE]
    ELSE IF HeaderSize(header) > 0
         THEN [d EXCEPT !.in_chunk = TRUE, !.pos = 0, !.datasize = HeaderSize(header)]
    ELSE d

\* The loop over a read, from its symbol at on.
RECURSIVE Unchunk(_, _, _)
Unchunk(c, data, at) ==
    LET rest == SubSeq(data, at, Len(data)) IN
    IF at > Len(data) THEN c
    ELSE IF c.in_chunk /\ EndsHere(c, data)
         THEN LET lastsize == c.datasize - c.pos
                  n == IF lastsize > Len(rest) THEN Len(rest) ELSE lastsize
              IN Unchunk(LeaveChunk(c, rest, n), data, at + n)
    ELSE IF c.in_chunk THEN StayInChunk(c, rest)
    ELSE LET d == HeaderRead(c, Longer(c.header, data[at])) IN
         IF d.last THEN d ELSE Unchunk(d, data, at + 1)

\* A chunk that begins inside the read, does not end in it and is shorter than
\* it: the read for which EndsHere is mistaken.
AwkwardRead(from, to) ==
    stream.answer.chunked /\
    \E i \in DOMAIN stream.parts :
        LET first == First(stream, i)
            last == first + Len(stream.parts[i].data) - 1
        IN first > from + 1 /\ first <= to /\ last > to /\ last - first + 1 < to - from

\* process_rawbody.
ProcessRawbody(data) ==
    /\ raw' = raw \o Kept(data)
    /\ ck' = IF resp.chunked THEN Unchunk(ck, data, 1) ELSE ck
----------------------------------------------------------------------------
Init ==
    /\ stream \in Streams
    /\ read = 0
    /\ phase = "headers"
    /\ resp = [chunked |-> FALSE, contentlen |-> -1, is_html |-> FALSE,
               not_modified |-> FALSE]
    /\ original = <<>>
    /\ left = <<>>
    /\ body_read = 0
    /\ raw = <<>>
    /\ ck = [in_chunk |-> FALSE, pos |-> 0, datasize |-> 0, header |-> <<>>,
             last |-> FALSE, unchunked |-> <<>>]
    /\ browser = <<>>
    /\ awkward = {}
    /\ cut = FALSE

\* What parse() may find: the server's answer, or anything in a header that lost
\* a part of it.
Parsed(hdr) ==
    IF hdr = stream.header THEN {stream.answer} ELSE {s.answer : s \in Streams}

\* http_server_read_headers, for a read of n symbols.
ReadHeaders(n) ==
    LET data == SubSeq(Text(stream), read + 1, read + n)
        s == Split(original, data)
    IN /\ phase = "headers"
       /\ read + n <= Len(Text(stream))
       /\ read' = read + n
       /\ original' = s.hdr
       /\ left' = SubSeq(data, s.processed + 1, n)
       /\ body_read' = body_read + n - s.processed
       /\ awkward' = awkward \cup IF AwkwardFragment(data) THEN {"header"} ELSE {}
       /\ \/ /\ ~s.found
             /\ UNCHANGED <<phase, resp>>
          \/ /\ s.found
             /\ resp' \in Parsed(s.hdr)
             /\ phase' = "start"
          \/ /\ s.found /\ s.hdr # stream.header    \* parse() fails: shutdown
             /\ phase' = "closed"
             /\ UNCHANGED resp
       /\ UNCHANGED <<stream, raw, ck, browser, cut>>

MutMore(answer, count, lastChunk) ==
    /\ answer.contentlen = -1 \/ count <= answer.contentlen
    /\ ~answer.chunked \/ ~lastChunk

\* Whether http_browser_write reads on.
More(answer, count, lastChunk) ==
    /\ answer.contentlen = -1 \/ count < answer.contentlen
    /\ ~answer.chunked \/ ~lastChunk

\* http_browser_write: read on, send the page that has been kept, or close.
BrowserWrite(count, lastChunk) ==
    phase' = IF resp.not_modified THEN "closed"
             ELSE IF More(resp, count, lastChunk) THEN "body"
             ELSE IF resp.is_html /\ count > 0 THEN "page" ELSE "closed"

\* http_browser_start_write: the header is written; what was read after it is
\* the first of the body.
StartWrite ==
    /\ phase = "start"
    /\ browser' = browser \o original
    /\ IF left = <<>>
       THEN /\ BrowserWrite(body_read, ck.last)
            /\ UNCHANGED <<raw, ck, awkward>>
       ELSE /\ ProcessRawbody(left)
            /\ awkward' = awkward \cup
                   IF AwkwardRead(0, read - Len(stream.header)) THEN {"chunk"} ELSE {}
            /\ IF resp.is_html THEN BrowserWrite(body_read, ck'.last)
                               ELSE phase' = "relay"
    /\ UNCHANGED <<stream, read, resp, original, left, body_read, cut>>

\* http_server_read_body, for a read of n symbols.
ReadBody(n) ==
    LET data == SubSeq(Text(stream), read + 1, read + n)
        from == read - Len(stream.header)
    IN /\ phase = "body"
       /\ read + n <= Len(Text(stream))
       /\ read' = read + n
       /\ left' = data
       /\ body_read' = body_read + n
       /\ ProcessRawbody(data)
       /\ awkward' = awkward \cup IF AwkwardRead(from, from + n) THEN {"chunk"} ELSE {}
       /\ IF resp.is_html THEN BrowserWrite(body_read', ck'.last) ELSE phase' = "relay"
       /\ UNCHANGED <<stream, resp, original, browser, cut>>

\* http_server_read_body at the end of the server's stream.
ReadEof ==
    /\ phase = "body"
    /\ phase' = IF resp.is_html THEN "page" ELSE "closed"
    /\ cut' = (cut \/ read < Len(Text(stream)))
    /\ UNCHANGED <<stream, read, resp, original, left, body_read, raw, ck, browser, awkward>>

\* http_browser_write, when the write of a read completes.
Relayed ==
    /\ phase = "relay"
    /\ browser' = browser \o left
    /\ BrowserWrite(body_read, ck.last)
    /\ UNCHANGED <<stream, read, resp, original, left, body_read, raw, ck, awkward, cut>>

\* http_browser_start_write_html and http_browser_write_html.
PageWritten ==
    /\ phase = "page"
    /\ browser' = browser \o raw
    /\ phase' = "closed"
    /\ UNCHANGED <<stream, read, resp, original, left, body_read, raw, ck, awkward, cut>>

\* Any operation may fail; every handler then shuts the connection down.
Fails ==
    /\ phase # "closed"
    /\ phase' = "closed"
    /\ cut' = TRUE
    /\ UNCHANGED <<stream, read, resp, original, left, body_read, raw, ck, browser, awkward>>

Next ==
    \/ \E n \in 1 .. Len(Text(stream)) - read : ReadHeaders(n) \/ ReadBody(n)
    \/ StartWrite
    \/ ReadEof
    \/ Relayed
    \/ PageWritten
    \/ Fails

Spec == Init /\ [][Next]_vars
----------------------------------------------------------------------------
\* However the server's bytes are cut into reads, the browser receives them in
\* order, none lost, none twice; and when the connection ends without an error
\* it has received all of them (of a 304 the header only).  Excepted are a
\* header with an awkward fragment, and for the end an awkward read of a chunk.
RelayExact ==
    "header" \notin awkward =>
        /\ IsPrefix(browser, Text(stream))
        /\ phase = "closed" /\ ~cut /\ awkward = {} =>
               browser = IF stream.answer.not_modified THEN stream.header ELSE Text(stream)

\* The text of an HTML page that is searched for forbidden words is the data
\* of the chunks read so far, without their headers.
BodyExact ==
    phase \in {"body", "page"} /\ awkward = {} /\ resp.chunked /\ resp.is_html =>
        ck.unchunked = DataOf(stream, read - Len(stream.header))

\* The proxy never waits for a server that has sent the whole of an answer
\* that says where it ends: that server may keep the connection open.
StopsAtEnd ==
    phase = "body" /\ awkward = {} /\ (resp.chunked \/ resp.contentlen >= 0) =>
        read < Len(Text(stream))
=============================================================================
