-------------------------- MODULE ProxyConnection --------------------------
(***************************************************************************)
(* One connection of the proxy server (utm::connection, proxyserver/       *)
(* proxy-conn.cpp): a chain of asynchronous operations on the browser's    *)
(* and the origin server's socket.  An operation is named after what it    *)
(* does; the action that completes it is the handler of the code, up to    *)
(* the operations it starts.  Any outstanding operation may fail.          *)
(*                                                                         *)
(* Contents are numbered units: 1 .. n of the data the browser posts and   *)
(* 1 .. n of the body (or page) it is answered with.  A write hands over   *)
(* what its buffer holds when it completes, so a buffer that is reused too *)
(* early shows.  Headers are not counted; a header arrives in one or more  *)
(* reads, the last of which may hold the first units of the contents.      *)
(* process_until_header_end and response_http_headers::process_rawbody are *)
(* taken for what they do to the relay: they lose the place in a header or *)
(* in the chunks after some reads (astray), collect the units of an HTML   *)
(* page, notice the last chunk and never ask for the page to be blocked    *)
(* (parse_html returns true).  Which reads these are: HttpResponse.        *)
(***************************************************************************)
EXTENDS Integers, Sequences, SequencesExt

CONSTANTS
    BUFFER_SIZE,    \* units brw_buff and srv_buff hold
    Requests,       \* requests browsers send
    Responses,      \* responses servers and the web server give
    MaxTunnel,      \* bound on the units each side sends through a tunnel
    MaxEndpoints,   \* bound on the addresses a host name resolves to
    MaxParts,       \* bound on the reads a header takes
    MaxRequests     \* bound on the requests of one connection

\* action: what becomes of the request: "bad" (cannot be parsed), "deny" (not
\* configured, not accepting, refused by a rule or not categorised), "web" (the
\* built-in web server), "http", "https".
RequestType == [action : {"bad", "deny", "web", "http", "https"}, contentlen : Nat]

\* total: units of the body; contentlen: total, or -1 when not announced; keep:
\* keep_connection, set by the web server only.
ResponseType ==
    [total : Nat, contentlen : Nat \cup {-1}, chunked : BOOLEAN, is_html : BOOLEAN,
     not_modified : BOOLEAN, keep : BOOLEAN]

ASSUME ConnectionAssumption ==
    /\ BUFFER_SIZE \in Nat \ {0}
    /\ Requests \subseteq RequestType
    /\ Responses \subseteq ResponseType
    /\ \A r \in Responses : r.contentlen \in {r.total, -1}
    /\ \A r \in Requests : r.action = "https" => r.contentlen = 0   \* CONNECT has no contents

VARIABLES
    ops,            \* the outstanding operations
    sock,           \* [brw, srv]: the socket is open
    req, resp,
    raw,            \* response_raw
    last_chunk,     \* got_last_chunk
    astray,         \* history: the place in what the server sends is lost (below)
    stat,           \* [parts, post_read, post_sent, body_read, body_sent, units]
    buf,            \* [brw, srv]: what the two buffers hold
    endpoints,      \* addresses of the server not tried yet
    proxy_closed,
    got,            \* history: [brw, srv], the units each side has received
    failed,         \* history: an operation failed or a peer closed too early
    requests        \* request_counter

vars == <<ops, sock, req, resp, raw, last_chunk, astray, stat, buf, endpoints,
          proxy_closed, got, failed, requests>>

NoRequest == [action |-> "none", contentlen |-> 0]
NoResponse == [total |-> 0, contentlen |-> -1, chunked |-> FALSE, is_html |-> FALSE,
               not_modified |-> FALSE, keep |-> FALSE]
\* units is a history: the units of the body read.  body_read is what the code
\* counts of them, which is more when bytes of the header are counted too.
NoStat == [parts |-> 0, post_read |-> 0, post_sent |-> 0, body_read |-> 0, body_sent |-> 0,
           units |-> 0]
Empty == [brw |-> <<>>, srv |-> <<>>]
Closed == [brw |-> FALSE, srv |-> FALSE]

\* The units that follow the first n.
Units(n, k) == [i \in 1 .. k |-> n + i]

\* start, as called by the acceptor
Init ==
    /\ ops = {"brw_headers"}
    /\ sock = [brw |-> TRUE, srv |-> FALSE]
    /\ req = NoRequest /\ resp = NoResponse
    /\ raw = <<>>
    /\ last_chunk = FALSE
    /\ astray = FALSE
    /\ stat = NoStat
    /\ buf = Empty
    /\ endpoints = 0
    /\ proxy_closed = FALSE
    /\ got = Empty
    /\ failed = FALSE
    /\ requests = 1

----------------------------------------------------------------------------
(* What handlers end with.  op is the operation that has completed. *)

Started(op, new) == ops' = (ops \ {op}) \cup new

Shutdown(op) == Started(op, {}) /\ sock' = Closed

\* What fits into srv_buff of response_raw r behind its first n units.
Piece(r, n) ==
    SubSeq(r, n + 1, IF n + BUFFER_SIZE > Len(r) THEN Len(r) ELSE n + BUFFER_SIZE)

\* http_browser_start_write_html, of the contents r of response_raw
StartWriteHtml(op, r) ==
    /\ raw' = r
    /\ buf' = [buf EXCEPT !.srv = Piece(r, 0)]
    /\ Started(op, {"html_write"})

\* send_deny_response: a page of one unit more than the buffer holds
DenyPage == [NoResponse EXCEPT !.total = BUFFER_SIZE + 1]

SendDenyResponse(op) ==
    /\ resp' = DenyPage
    /\ StartWriteHtml(op, Units(0, DenyPage.total))

\* start_web_server: the page is external
StartWebServer(op) ==
    \E r \in Responses :
        /\ r.keep => requests < MaxRequests
        /\ resp' = r
        /\ StartWriteHtml(op, Units(0, r.total))

\* Any operation may complete with an error; on a closed socket it must.
OnBrowser == {"brw_headers", "brw_post", "web_post", "start_write", "brw_write",
              "html_write", "ssl_established", "ssl_brw_read", "ssl_brw_write"}
OnServer == {"srv_write", "srv_post", "srv_headers", "srv_body", "ssl_srv_read",
             "ssl_srv_write"}

Completes(op) ==
    /\ op \in ops
    /\ op \in OnBrowser => sock.brw
    /\ op \in OnServer => sock.srv

\* if (err) { shutdown(err); return; }
Fails(op) ==
    /\ op \in ops
    /\ op \in (OnBrowser \cup OnServer) \ {"web_post"}
    /\ Shutdown(op)
    /\ failed' = TRUE
    /\ UNCHANGED <<req, resp, raw, last_chunk, astray, stat, buf, endpoints,
                   proxy_closed, got, requests>>

----------------------------------------------------------------------------
(* The request *)

\* handle_browser_read_headers, without the end of the header
ReadHeadersPart ==
    /\ Completes("brw_headers")
    /\ stat.parts < MaxParts
    /\ stat' = [stat EXCEPT !.parts = @ + 1]
    /\ UNCHANGED <<ops, sock, req, resp, raw, last_chunk, astray, buf, endpoints,
                   proxy_closed, got, failed, requests>>

\* handle_browser_read_headers and process_request; k units follow the header.
ReadHeaders(r, k) ==
    /\ Completes("brw_headers")
    /\ k <= r.contentlen
    /\ req' = r
    /\ stat' = [stat EXCEPT !.post_read = k]
    /\ \/ /\ r.action = "bad"
          /\ Shutdown("brw_headers")
          /\ buf' = [buf EXCEPT !.brw = Units(0, k)]
          /\ UNCHANGED <<resp, raw>>
       \/ /\ r.action = "deny"
          /\ SendDenyResponse("brw_headers")
          /\ UNCHANGED sock
       \/ /\ r.action = "web"
          /\ IF k >= r.contentlen
               THEN StartWebServer("brw_headers")
               ELSE /\ Started("brw_headers", {"web_post"})
                    /\ UNCHANGED <<resp, raw, buf>>
          /\ UNCHANGED sock
       \/ /\ r.action \in {"http", "https"}
          /\ Started("brw_headers", {IF r.action = "http" THEN "resolve" ELSE "ssl_resolve"})
          /\ buf' = [buf EXCEPT !.brw = Units(0, k)]
          /\ UNCHANGED <<sock, resp, raw>>
    /\ UNCHANGED <<last_chunk, astray, endpoints, proxy_closed, got, failed, requests>>

\* http_browser_read_postdata_in_webservermode
ReadWebPost(k) ==
    /\ Completes("web_post")
    /\ ~ failed
    /\ stat.post_read + k <= req.contentlen
    /\ stat' = [stat EXCEPT !.post_read = @ + k]
    /\ IF req.contentlen <= stat.post_read + k
         THEN StartWebServer("web_post")
         ELSE UNCHANGED <<ops, resp, raw, buf>>
    /\ UNCHANGED <<sock, req, last_chunk, astray, endpoints, proxy_closed, got, failed, requests>>

\* The same handler with an error, at which it does not look: it reads on.
WebPostFails ==
    /\ "web_post" \in ops
    /\ failed' = TRUE
    /\ UNCHANGED <<ops, sock, req, resp, raw, last_chunk, astray, stat, buf, endpoints,
                   proxy_closed, got, requests>>

\* http_resolve, ssl_handle_resolve
Resolve(n) ==
    /\ ops \cap {"resolve", "ssl_resolve"} # {}
    /\ ops' = {IF "resolve" \in ops THEN "connect" ELSE "ssl_connect"}
    /\ endpoints' = n - 1
    /\ UNCHANGED <<sock, req, resp, raw, last_chunk, astray, stat, buf, proxy_closed, got,
                   failed, requests>>

\* http_resolve starts to write a page and then closes the socket.
ResolveFails ==
    /\ \/ /\ "resolve" \in ops
          /\ SendDenyResponse("resolve")
       \/ /\ "ssl_resolve" \in ops
          /\ Started("ssl_resolve", {})
          /\ UNCHANGED <<resp, raw, buf>>
    /\ sock' = Closed
    /\ failed' = TRUE
    /\ UNCHANGED <<req, last_chunk, astray, stat, endpoints, proxy_closed, got, requests>>

\* http_connect, ssl_handle_connect; the reply to CONNECT is put into srv_buff.
Connect ==
    /\ ops \cap {"connect", "ssl_connect"} # {}
    /\ sock' = [sock EXCEPT !.srv = TRUE]
    /\ IF "connect" \in ops
         THEN ops' = {"srv_write"} /\ UNCHANGED buf
         ELSE ops' = {"ssl_established"} /\ buf' = [buf EXCEPT !.srv = <<>>]
    /\ UNCHANGED <<req, resp, raw, last_chunk, astray, stat, endpoints, proxy_closed, got,
                   failed, requests>>

\* The next address is tried, if there is one.
ConnectFails ==
    /\ ops \cap {"connect", "ssl_connect"} # {}
    /\ IF endpoints > 0
         THEN /\ endpoints' = endpoints - 1
              /\ UNCHANGED <<ops, sock, failed>>
         ELSE /\ ops' = {}
              /\ sock' = Closed
              /\ failed' = TRUE
              /\ UNCHANGED endpoints
    /\ UNCHANGED <<req, resp, raw, last_chunk, astray, stat, buf, proxy_closed, got, requests>>

\* http_server_write: the units that came with the header are posted first.
ServerWrite ==
    /\ Completes("srv_write")
    /\ Started("srv_write", {IF req.contentlen = 0 THEN "srv_headers"
                             ELSE IF buf.brw # <<>> THEN "srv_post" ELSE "brw_post"})
    /\ UNCHANGED <<sock, req, resp, raw, last_chunk, astray, stat, buf, endpoints,
                   proxy_closed, got, failed, requests>>

\* http_server_write_postdata
ServerWritePostdata ==
    /\ Completes("srv_post")
    /\ got' = [got EXCEPT !.srv = @ \o buf.brw]
    /\ stat' = [stat EXCEPT !.post_sent = @ + Len(buf.brw)]
    /\ Started("srv_post", {IF stat.post_sent + Len(buf.brw) < req.contentlen
                              THEN "brw_post" ELSE "srv_headers"})
    /\ UNCHANGED <<sock, req, resp, raw, last_chunk, astray, buf, endpoints, proxy_closed,
                   failed, requests>>

\* http_browser_read_postdata
BrowserReadPostdata(k) ==
    /\ Completes("brw_post")
    /\ stat.post_read + k <= req.contentlen
    /\ buf' = [buf EXCEPT !.brw = Units(stat.post_read, k)]
    /\ stat' = [stat EXCEPT !.post_read = @ + k]
    /\ Started("brw_post", {"srv_post"})
    /\ UNCHANGED <<sock, req, resp, raw, last_chunk, astray, endpoints, proxy_closed, got,
                   failed, requests>>

----------------------------------------------------------------------------
(* The response *)

\* http_server_read_headers, without the end of the header.
\* process_until_header_end drops a read without a line end and loses the first
\* byte of one whose second byte is its first line end: x bytes of the header
\* are then counted as contents, and the place in the header is lost.
ServerReadHeadersPart(x) ==
    /\ Completes("srv_headers")
    /\ stat.parts < MaxParts
    /\ stat' = [stat EXCEPT !.parts = @ + 1, !.body_read = @ + x]
    /\ astray' = (astray \/ x > 0)
    /\ UNCHANGED <<ops, sock, req, resp, raw, last_chunk, buf, endpoints,
                   proxy_closed, got, failed, requests>>

\* http_server_read_headers; k units follow the header of r, which goes to the
\* browser.  A header that lost bytes is read as that of another response q, and
\* may seem to end early: x of its bytes are taken for contents.
ServerReadHeaders(r, q, k, x) ==
    /\ Completes("srv_headers")
    /\ ~ q.keep
    /\ k <= r.total
    /\ astray' = (astray \/ x > 0)
    /\ q = r \/ astray'
    /\ resp' = [q EXCEPT !.total = r.total]
    /\ stat' = [stat EXCEPT !.body_read = @ + x + k, !.units = k]
    /\ buf' = [buf EXCEPT !.srv = Units(0, k)]
    /\ Started("srv_headers", {"start_write"})
    /\ UNCHANGED <<sock, req, raw, last_chunk, endpoints, proxy_closed, got, failed,
                   requests>>

\* resp.parse() fails.
ServerBadHeaders ==
    /\ Completes("srv_headers")
    /\ Shutdown("srv_headers")
    /\ failed' = TRUE
    /\ UNCHANGED <<req, resp, raw, last_chunk, astray, stat, buf, endpoints,
                   proxy_closed, got, requests>>

\* process_rawbody of what srv_buff holds: what response_raw becomes
Collected(units) == IF resp.is_html THEN raw \o units ELSE raw

\* and got_last_chunk.  A chunk that does not end in the read it begins in may
\* lose the place in the chunks: the last one can then be seen early or missed.
LastChunk ==
    /\ \/ UNCHANGED astray
       \/ resp.chunked /\ astray' = TRUE
    /\ IF astray'
         THEN last_chunk' \in {last_chunk, resp.chunked}
         ELSE last_chunk' = (resp.chunked /\ stat'.units = resp.total)

\* The condition under which http_browser_write reads more of the body.
MoreToRead ==
    /\ resp.contentlen = -1 \/ stat'.body_read < resp.contentlen
    /\ ~ resp.chunked \/ ~ last_chunk'

\* Mutant: an HTML page is sent on as it arrives.
MutWriteNext(op, r) ==
    \/ /\ resp.not_modified
       /\ Shutdown(op)
       /\ raw' = r /\ UNCHANGED buf
    \/ /\ ~ resp.not_modified /\ MoreToRead /\ ~ resp.is_html
       /\ Started(op, {"srv_body"})
       /\ raw' = r /\ UNCHANGED <<sock, buf>>
    \/ /\ ~ resp.not_modified /\ resp.is_html
       /\ StartWriteHtml(op, r)
       /\ UNCHANGED sock
    \/ /\ ~ resp.not_modified /\ ~ MoreToRead /\ ~ resp.is_html
       /\ Shutdown(op)
       /\ raw' = r /\ UNCHANGED buf

\* http_browser_write from its second test on; r is response_raw.
WriteNext(op, r) ==
    \/ /\ resp.not_modified
       /\ Shutdown(op)
       /\ raw' = r /\ UNCHANGED buf
    \/ /\ ~ resp.not_modified /\ MoreToRead
       /\ Started(op, {"srv_body"})
       /\ raw' = r /\ UNCHANGED <<sock, buf>>
    \/ /\ ~ resp.not_modified /\ ~ MoreToRead
       /\ resp.is_html /\ stat'.body_read > 0
       /\ StartWriteHtml(op, r)
       /\ UNCHANGED sock
    \/ /\ ~ resp.not_modified /\ ~ MoreToRead
       /\ ~ (resp.is_html /\ stat'.body_read > 0)
       /\ Shutdown(op)
       /\ raw' = r /\ UNCHANGED buf

\* http_browser_start_write: the header has been written to the browser.  The
\* rest of srv_buff is units or bytes of the header taken for contents.
BrowserStartWrite ==
    /\ Completes("start_write")
    /\ UNCHANGED stat
    /\ \/ /\ buf.srv # <<>> \/ astray
          /\ LastChunk
          /\ IF resp.is_html
               THEN WriteNext("start_write", Collected(buf.srv))
               ELSE Started("start_write", {"brw_write"}) /\ UNCHANGED <<sock, raw, buf>>
       \/ /\ buf.srv = <<>>
          /\ UNCHANGED <<last_chunk, astray>>
          /\ WriteNext("start_write", raw)
    /\ UNCHANGED <<req, resp, endpoints, proxy_closed, got, failed, requests>>

\* http_browser_write after a write of srv_buff
BrowserWrite ==
    /\ Completes("brw_write")
    /\ got' = [got EXCEPT !.brw = @ \o buf.srv]
    /\ stat' = [stat EXCEPT !.body_sent = @ + Len(buf.srv)]
    /\ UNCHANGED <<last_chunk, astray>>
    /\ WriteNext("brw_write", raw)
    /\ UNCHANGED <<req, resp, endpoints, proxy_closed, failed, requests>>

\* http_server_read_body with k units, before the first of which the rest of a
\* header that seemed to end early may come: x of its bytes
ServerReadBody(k, x) ==
    /\ Completes("srv_body")
    /\ k + x \in 1 .. BUFFER_SIZE
    /\ stat.units + k <= resp.total
    /\ x > 0 => astray /\ stat.units = 0 /\ stat.parts < MaxParts
    /\ stat' = [stat EXCEPT !.parts = IF x > 0 THEN @ + 1 ELSE @,
                            !.body_read = @ + x + k, !.units = @ + k]
    /\ LastChunk
    /\ IF resp.is_html
         THEN WriteNext("srv_body", raw \o Units(stat.units, k))
         ELSE /\ buf' = [buf EXCEPT !.srv = Units(stat.units, k)]
              /\ Started("srv_body", {"brw_write"})
              /\ UNCHANGED <<sock, raw>>
    /\ UNCHANGED <<req, resp, endpoints, proxy_closed, got, failed, requests>>

\* Mutant: the end of the body closes the connection, HTML or not.
MutServerBodyEof ==
    /\ Completes("srv_body")
    /\ proxy_closed' = TRUE
    /\ failed' = (failed \/ stat.units < resp.total)
    /\ Shutdown("srv_body")
    /\ UNCHANGED <<req, resp, raw, last_chunk, astray, stat, buf, endpoints, got, requests>>

\* http_server_read_body at the end of the stream: a page is written now.
ServerBodyEof ==
    /\ Completes("srv_body")
    /\ proxy_closed' = TRUE
    /\ failed' = (failed \/ stat.units < resp.total)
    /\ IF resp.is_html
         THEN StartWriteHtml("srv_body", raw) /\ UNCHANGED sock
         ELSE Shutdown("srv_body") /\ UNCHANGED <<raw, buf>>
    /\ UNCHANGED <<req, resp, last_chunk, astray, stat, endpoints, got, requests>>

\* Mutant: nothing closes the connection after the last piece.
MutBrowserWriteHtml ==
    LET sent == stat.body_sent + Len(buf.srv)
    IN  /\ Completes("html_write")
        /\ ~ resp.keep
        /\ got' = [got EXCEPT !.brw = @ \o buf.srv]
        /\ stat' = [stat EXCEPT !.body_sent = sent]
        /\ buf' = [buf EXCEPT !.srv = Piece(raw, sent)]
        /\ Started("html_write", IF sent < Len(raw) THEN {"html_write"} ELSE {})
        /\ UNCHANGED <<sock, req, resp, raw, last_chunk, astray, endpoints, proxy_closed,
                       failed, requests>>

\* http_browser_write_html: the next piece, the next request, or the end.
BrowserWriteHtml ==
    LET sent == stat.body_sent + Len(buf.srv)
    IN  /\ Completes("html_write")
        /\ got' = [got EXCEPT !.brw = @ \o buf.srv]
        /\ \/ /\ sent < Len(raw)
              /\ stat' = [stat EXCEPT !.body_sent = sent]
              /\ buf' = [buf EXCEPT !.srv = Piece(raw, sent)]
              /\ Started("html_write", {"html_write"})
              /\ UNCHANGED <<sock, req, resp, raw, last_chunk, astray, requests>>
           \/ /\ sent >= Len(raw)
              /\ ~ resp.keep
              /\ stat' = [stat EXCEPT !.body_sent = sent]
              /\ Shutdown("html_write")
              /\ UNCHANGED <<req, resp, raw, last_chunk, astray, buf, requests>>
        /\ UNCHANGED <<endpoints, proxy_closed, failed>>

\* http_browser_write_html with keep_connection set: start again.
KeepConnection ==
    /\ Completes("html_write")
    /\ stat.body_sent + Len(buf.srv) >= Len(raw)
    /\ resp.keep
    /\ Started("html_write", {"brw_headers"})
    /\ stat' = NoStat /\ req' = NoRequest /\ resp' = NoResponse
    /\ raw' = <<>> /\ last_chunk' = FALSE /\ astray' = FALSE
    /\ buf' = Empty /\ got' = Empty
    /\ requests' = requests + 1
    /\ UNCHANGED <<sock, endpoints, proxy_closed, failed>>

----------------------------------------------------------------------------
(* The tunnel: two chains of operations at the same time *)

\* ssl_start_reading
SslStartReading ==
    /\ Completes("ssl_established")
    /\ Started("ssl_established", {"ssl_brw_read", "ssl_srv_read"})
    /\ UNCHANGED <<sock, req, resp, raw, last_chunk, astray, stat, buf, endpoints,
                   proxy_closed, got, failed, requests>>

\* ssl_browser_read
SslBrowserRead(k) ==
    /\ Completes("ssl_brw_read")
    /\ stat.post_read + k <= MaxTunnel
    /\ stat' = [stat EXCEPT !.post_read = @ + k]
    /\ buf' = [buf EXCEPT !.brw = Units(stat.post_read, k)]
    /\ Started("ssl_brw_read", {"ssl_srv_write"})
    /\ UNCHANGED <<sock, req, resp, raw, last_chunk, astray, endpoints, proxy_closed, got,
                   failed, requests>>

\* ssl_server_write
SslServerWrite ==
    /\ Completes("ssl_srv_write")
    /\ got' = [got EXCEPT !.srv = @ \o buf.brw]
    /\ stat' = [stat EXCEPT !.post_sent = @ + Len(buf.brw)]
    /\ Started("ssl_srv_write", {"ssl_brw_read"})
    /\ UNCHANGED <<sock, req, resp, raw, last_chunk, astray, buf, endpoints, proxy_closed,
                   failed, requests>>

\* Mutant: both directions read into brw_buff.
MutSslServerRead(k) ==
    /\ Completes("ssl_srv_read")
    /\ stat.units + k <= MaxTunnel
    /\ stat' = [stat EXCEPT !.body_read = @ + k, !.units = @ + k]
    /\ buf' = [buf EXCEPT !.brw = Units(stat.units, k), !.srv = Units(stat.units, k)]
    /\ Started("ssl_srv_read", {"ssl_brw_write"})
    /\ UNCHANGED <<sock, req, resp, raw, last_chunk, astray, endpoints, proxy_closed, got,
                   failed, requests>>

\* ssl_server_read
SslServerRead(k) ==
    /\ Completes("ssl_srv_read")
    /\ stat.units + k <= MaxTunnel
    /\ stat' = [stat EXCEPT !.body_read = @ + k, !.units = @ + k]
    /\ buf' = [buf EXCEPT !.srv = Units(stat.units, k)]
    /\ Started("ssl_srv_read", {"ssl_brw_write"})
    /\ UNCHANGED <<sock, req, resp, raw, last_chunk, astray, endpoints, proxy_closed, got,
                   failed, requests>>

\* ssl_browser_write
SslBrowserWrite ==
    /\ Completes("ssl_brw_write")
    /\ got' = [got EXCEPT !.brw = @ \o buf.srv]
    /\ stat' = [stat EXCEPT !.body_sent = @ + Len(buf.srv)]
    /\ Started("ssl_brw_write", {"ssl_srv_read"})
    /\ UNCHANGED <<sock, req, resp, raw, last_chunk, astray, buf, endpoints, proxy_closed,
                   failed, requests>>

\* Amounts a read may deliver.
Amount == 1 .. BUFFER_SIZE

Handler ==
    \/ ReadHeadersPart
    \/ \E r \in Requests, k \in 0 .. BUFFER_SIZE - 1 : ReadHeaders(r, k)
    \/ \E k \in Amount : ReadWebPost(k)
    \/ WebPostFails
    \/ \E n \in 1 .. MaxEndpoints : Resolve(n)
    \/ ResolveFails
    \/ Connect \/ ConnectFails
    \/ ServerWrite \/ ServerWritePostdata
    \/ \E k \in Amount : BrowserReadPostdata(k)
    \/ \E x \in 0 .. BUFFER_SIZE : ServerReadHeadersPart(x)
    \/ ServerBadHeaders
    \/ \E r, q \in Responses, k, x \in 0 .. BUFFER_SIZE - 1 : ServerReadHeaders(r, q, k, x)
    \/ BrowserStartWrite \/ BrowserWrite
    \/ \E k, x \in 0 .. BUFFER_SIZE : ServerReadBody(k, x)
    \/ ServerBodyEof
    \/ BrowserWriteHtml \/ KeepConnection
    \/ SslStartReading \/ SslServerWrite \/ SslBrowserWrite
    \/ \E k \in Amount : SslBrowserRead(k) \/ SslServerRead(k)

Next == Handler \/ \E op \in ops : Fails(op)

Spec == Init /\ [][Next]_vars

\* Every outstanding operation completes, with success or an error.
FairSpec == Spec /\ WF_vars(Next)
----------------------------------------------------------------------------
\* What each side receives is what the other side (or the page) holds, in order
\* and without a gap or a repetition, whatever mix of units behind a header,
\* partial reads and tunnel directions the buffers go through.
RelayedInOrder ==
    /\ \A i \in DOMAIN got.brw : got.brw[i] = i
    /\ \A i \in DOMAIN got.srv : got.srv[i] = i

\* The comment above http_browser_start_write_html: an HTML page is received
\* completely before any of it is sent to the browser, or as far as the server
\* sent it before it closed.  Excepted are the reads that lose the place: of the
\* header, and of a chunk that ends in a later read (astray).
HtmlAfterWhole ==
    resp.is_html /\ req.action = "http" /\ got.brw # <<>> =>
        stat.units = resp.total \/ proxy_closed \/ astray

\* A connection that ends without an error has given its answer in full: the
\* body of the response, the page of the web server or the page that says why
\* the request is denied.  The reads that lose the place are excepted here too:
\* after one the connection may end early without an error.
AnswerComplete ==
    ops = {} /\ ~ failed /\ ~ astray /\ req.action \in {"deny", "web", "http"}
             /\ ~ resp.not_modified => Len(got.brw) = resp.total

\* No chain of handlers goes round for ever or ends with a socket open: the
\* connection is closed in the end, unless the web server waits for posted data
\* (its handler does not look at errors).
EventuallyClosed ==
    <>((ops = {} /\ sock = Closed) \/ ops = {"web_post"})
=============================================================================
