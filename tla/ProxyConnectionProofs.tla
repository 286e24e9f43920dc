----------------------- MODULE ProxyConnectionProofs -----------------------
(***************************************************************************)
(* The relay of a connection, for buffers of every size, every request and *)
(* every response: nothing is lost, repeated or out of order on either     *)
(* side, and, while no read has lost the place in what the server sends,   *)
(* an HTML page is sent only when it is whole and an answer that ends      *)
(* without an error is complete.                                           *)
(*                                                                         *)
(* The argument goes along the chain of handlers: which operation is       *)
(* outstanding says what the two buffers and response_raw hold, in terms   *)
(* of the counters.                                                        *)
(***************************************************************************)
EXTENDS ProxyConnection, TLAPS

Tunnel == {"ssl_brw_read", "ssl_srv_write", "ssl_srv_read", "ssl_brw_write"}
BeforeResponse == {"brw_headers", "web_post", "resolve", "connect", "srv_write", "srv_post",
                   "brw_post", "srv_headers", "ssl_resolve", "ssl_connect", "ssl_established"}
Op == BeforeResponse \cup Tunnel \cup {"start_write", "brw_write", "srv_body", "html_write"}

StatType ==
    [parts : Nat, post_read : Nat, post_sent : Nat, body_read : Nat, body_sent : Nat, units : Nat]

\* While the place in what the server sends is not lost, the code counts the
\* units, and a length that is announced is that of the body.
Tracked ==
    /\ astray \in BOOLEAN
    /\ ~ astray => stat.body_read = stat.units /\ resp.contentlen \in {resp.total, -1}

ConnType ==
    /\ req \in RequestType \cup {NoRequest}
    /\ resp \in ResponseType /\ Tracked
    /\ stat \in StatType
    /\ raw \in Seq(Nat) /\ raw = Units(0, Len(raw))
    /\ buf \in [brw : Seq(Nat), srv : Seq(Nat)]
    /\ got \in [brw : Seq(Nat), srv : Seq(Nat)]
    /\ last_chunk \in BOOLEAN /\ failed \in BOOLEAN /\ proxy_closed \in BOOLEAN

\* One chain of operations, or the two of the tunnel.
OpsShape ==
    /\ ops \subseteq Op
    /\ \A o \in ops : o \notin Tunnel => ops = {o}
    /\ ~ {"ssl_brw_read", "ssl_srv_write"} \subseteq ops
    /\ ~ {"ssl_srv_read", "ssl_brw_write"} \subseteq ops

\* Each side has the units that are counted as sent to it.
Received ==
    /\ got.srv = Units(0, stat.post_sent)
    /\ got.brw = Units(0, stat.body_sent)

\* What holds while an operation is outstanding: first of the posted data and
\* the browser's half of the tunnel, then of the body, a page and the server's
\* half of the tunnel.
Posting(o) ==
    /\ o = "brw_headers" => stat.post_sent = 0
    /\ o = "web_post" => req.action = "web"
    /\ o \in {"resolve", "connect", "srv_write", "srv_post", "ssl_srv_write"} =>
          /\ stat.post_sent <= stat.post_read
          /\ buf.brw = Units(stat.post_sent, stat.post_read - stat.post_sent)
    /\ o \in {"brw_post", "ssl_resolve", "ssl_connect", "ssl_established", "ssl_brw_read"} =>
          stat.post_sent = stat.post_read

Answering(o) ==
    /\ o \in BeforeResponse =>
          /\ stat.units = 0 /\ stat.body_sent = 0 /\ raw = <<>> /\ resp = NoResponse
          /\ ~ last_chunk
    /\ o = "start_write" =>
          /\ ~ last_chunk /\ stat.body_sent = 0 /\ stat.units <= resp.total /\ raw = <<>>
          /\ buf.srv = Units(0, stat.units)
    /\ o = "brw_write" =>
          /\ ~ resp.is_html
          /\ stat.body_sent <= stat.units /\ stat.units <= resp.total
          /\ buf.srv = Units(stat.body_sent, stat.units - stat.body_sent)
          /\ last_chunk /\ ~ astray => stat.units = resp.total
    /\ o = "srv_body" =>
          /\ stat.units <= resp.total
          /\ resp.is_html => stat.body_sent = 0 /\ raw = Units(0, stat.units)
          /\ ~ resp.is_html => stat.body_sent = stat.units
    /\ o = "html_write" =>
          /\ stat.body_sent <= Len(raw)
          /\ buf.srv = Piece(raw, stat.body_sent)
          /\ ~ failed /\ ~ astray => Len(raw) = resp.total
          /\ resp.is_html /\ req.action = "http" => stat.units = resp.total \/ proxy_closed \/ astray
    /\ o \in Tunnel => ~ resp.is_html
    /\ o = "ssl_srv_read" => stat.body_sent = stat.units
    /\ o = "ssl_brw_write" =>
          /\ stat.body_sent <= stat.units
          /\ buf.srv = Units(stat.body_sent, stat.units - stat.body_sent)

Stage(o) == Posting(o) /\ Answering(o)

ConnInv ==
    /\ ConnType /\ OpsShape /\ Received
    /\ \A o \in ops : Stage(o)
    /\ HtmlAfterWhole /\ AnswerComplete

\* The numbered units: Units stays folded in what follows.
LEMMA UnitsFacts ==
    ASSUME NEW n \in Nat, NEW k \in Nat
    PROVE  /\ Units(n, k) \in Seq(Nat) /\ Len(Units(n, k)) = k
           /\ Units(n, k) = <<>> <=> k = 0
           /\ \A i \in DOMAIN Units(n, k) : Units(n, k)[i] = n + i
  BY DEF Units

LEMMA UnitsJoin ==
    ASSUME NEW n \in Nat, NEW k \in Nat
    PROVE  Units(0, n) \o Units(n, k) = Units(0, n + k)
  BY DEF Units

\* A piece of a page is the units that follow what was sent of it.
LEMMA UnitsPiece ==
    ASSUME NEW n \in Nat, NEW s \in Nat, s <= n
    PROVE  LET k == IF s + BUFFER_SIZE > n THEN n - s ELSE BUFFER_SIZE
           IN  k \in Nat /\ s + k <= n /\ Piece(Units(0, n), s) = Units(s, k)
  BY ConnectionAssumption DEF Units, Piece

\* What fits into srv_buff of a page.
LEMMA PieceType ==
    ASSUME NEW r \in Seq(Nat), NEW n \in Nat
    PROVE  Piece(r, n) \in Seq(Nat)
  BY ConnectionAssumption DEF Piece

LEMMA InitConnInv == Init => ConnInv
  <1> SUFFICES ASSUME Init PROVE ConnInv
    OBVIOUS
  <1>1. Units(0, 0) = <<>>
    BY UnitsFacts
  <1>2. resp \in ResponseType /\ stat \in StatType
    BY DEF Init, NoResponse, ResponseType, NoStat, StatType
  <1>3. ConnType
    <2>1. buf \in [brw : Seq(Nat), srv : Seq(Nat)] /\ got \in [brw : Seq(Nat), srv : Seq(Nat)]
      BY DEF Init, Empty
    <2>2. raw \in Seq(Nat) /\ raw = Units(0, Len(raw))
      BY <1>1 DEF Init
    <2>3. Tracked
      BY DEF Init, Tracked, NoResponse, NoStat
    <2> QED
      BY <1>2, <2>1, <2>2, <2>3 DEF Init, ConnType, NoResponse
  <1>4. OpsShape
    BY DEF Init, OpsShape, Op, BeforeResponse, Tunnel
  <1>5. Received
    BY <1>1 DEF Init, Received, NoStat, Empty
  <1>6. \A o \in ops : Stage(o)
    BY DEF Init, Stage, Posting, Answering, NoStat, BeforeResponse, Tunnel
  <1>7. HtmlAfterWhole /\ AnswerComplete
    BY DEF Init, HtmlAfterWhole, AnswerComplete, NoResponse
  <1> QED
    BY <1>3, <1>4, <1>5, <1>6, <1>7 DEF ConnInv

\* Outside the tunnel one operation is outstanding at a time.
LEMMA Alone ==
    ASSUME ConnInv, NEW o \in Op \ Tunnel, o \in ops
    PROVE  ops = {o} /\ Stage(o) /\ ConnType /\ Received
  BY DEF ConnInv, OpsShape

\* A step after which one operation is outstanding.
LEMMA NextOp ==
    ASSUME NEW o \in Op, ops' = {o}, ConnType', Received', Stage(o)'
    PROVE  ConnInv'
  <1>1. OpsShape'
    BY DEF OpsShape, Tunnel
  <1>2. stat'.body_sent \in Nat /\ (got'.brw = <<>> <=> stat'.body_sent = 0)
    <2>1. stat'.body_sent \in Nat
      BY DEF ConnType, StatType
    <2> QED
      BY <2>1, UnitsFacts DEF Received
  <1>3. HtmlAfterWhole'
    BY <1>2 DEF HtmlAfterWhole, Stage, Answering, Op, NoResponse, ConnType, StatType
  <1>4. AnswerComplete'
    BY DEF AnswerComplete
  <1> QED
    BY <1>1, <1>3, <1>4 DEF ConnInv

\* A step that leaves all but the outstanding operations, the sockets, the
\* addresses left to try and the parts of the header as it is.
Still == UNCHANGED <<req, resp, raw, last_chunk, astray, buf, got, failed, proxy_closed>>

LEMMA Typed ==
    ASSUME ConnType, Received, Still, stat' = stat \/ stat' = [stat EXCEPT !.parts = @ + 1]
    PROVE  /\ ConnType' /\ Received'
           /\ stat'.post_read = stat.post_read /\ stat'.post_sent = stat.post_sent
           /\ stat'.units = stat.units /\ stat'.body_sent = stat.body_sent
           /\ \A o \in Op : Stage(o) => Stage(o)'
  <1>1. /\ stat' \in StatType /\ stat'.body_read = stat.body_read
        /\ stat'.post_read = stat.post_read /\ stat'.post_sent = stat.post_sent
        /\ stat'.units = stat.units /\ stat'.body_sent = stat.body_sent
    BY DEF ConnType, StatType
  <1>2. ConnType' /\ Received'
    BY <1>1 DEF ConnType, Received, Still, Tracked
  <1>3. \A o \in Op : Stage(o) => Stage(o)'
    BY <1>1 DEF Stage, Posting, Answering, Still
  <1> QED
    BY <1>1, <1>2, <1>3

\* The operations that are not of the tunnel.
LEMMA PlainOps ==
    /\ Op \ Tunnel = BeforeResponse \cup {"start_write", "brw_write", "srv_body", "html_write"}
    /\ BeforeResponse \subseteq Op
  BY DEF Op, BeforeResponse, Tunnel

\* A step after which nothing is outstanding.
LEMMA LastOp ==
    ASSUME ops' = {}, ConnType', Received', HtmlAfterWhole', AnswerComplete'
    PROVE  ConnInv'
  BY DEF ConnInv, OpsShape

\* A read that does not end the header of a request.
LEMMA PartStep == ConnInv /\ ReadHeadersPart => ConnInv'
  <1> SUFFICES ASSUME ConnInv, ReadHeadersPart PROVE ConnInv'
    OBVIOUS
  <1>1. "brw_headers" \in ops /\ "brw_headers" \in Op \ Tunnel
    BY PlainOps DEF ReadHeadersPart, Completes, BeforeResponse
  <1>2. ops = {"brw_headers"} /\ Stage("brw_headers") /\ ConnType /\ Received
    BY <1>1, Alone
  <1>3. ops' = ops /\ Still /\ stat' = [stat EXCEPT !.parts = @ + 1]
    BY DEF ReadHeadersPart, Still
  <1> QED
    BY <1>1, <1>2, <1>3, Typed, NextOp

\* A read that does not end the header of a response: what it counts as contents
\* leads astray and adds no unit.
LEMMA ServerPartStep ==
    ASSUME NEW x \in 0 .. BUFFER_SIZE, ConnInv, ServerReadHeadersPart(x)
    PROVE  ConnInv'
  <1>1. ops = {"srv_headers"} /\ Stage("srv_headers") /\ ConnType /\ Received
    BY PlainOps, Alone DEF ServerReadHeadersPart, Completes, BeforeResponse
  <1>2. x \in Nat /\ stat \in StatType
    BY <1>1, ConnectionAssumption DEF ConnType
  <1>3. /\ stat' \in StatType /\ stat'.body_read = stat.body_read + x
        /\ stat'.post_read = stat.post_read /\ stat'.post_sent = stat.post_sent
        /\ stat'.units = stat.units /\ stat'.body_sent = stat.body_sent
    <2>1. /\ stat.parts \in Nat /\ stat.body_read \in Nat /\ stat.parts + 1 \in Nat
          /\ stat.body_read + x \in Nat
      BY <1>2 DEF StatType
    <2>2. stat' = [stat EXCEPT !.parts = stat.parts + 1, !.body_read = stat.body_read + x]
      BY DEF ServerReadHeadersPart
    <2> QED
      BY <1>2, <2>1, <2>2 DEF StatType
  <1>4. UNCHANGED <<ops, req, resp, raw, last_chunk, buf, got, failed, proxy_closed>>
    BY DEF ServerReadHeadersPart
  <1>5. astray' \in BOOLEAN /\ (~ astray' => ~ astray /\ x = 0)
    <2>1. astray \in BOOLEAN /\ astray' = (astray \/ x > 0)
      BY <1>1 DEF ConnType, Tracked, ServerReadHeadersPart
    <2>2. astray' \in BOOLEAN /\ (~ astray' => ~ astray /\ ~ (x > 0))
      BY <2>1, Zenon
    <2> QED
      BY <1>2, <2>2
  <1>6. Tracked'
    <2>1. stat.body_read \in Nat
      BY <1>2 DEF StatType
    <2> QED
      BY <1>1, <1>3, <1>4, <1>5, <2>1 DEF ConnType, Tracked
  <1>7. ConnType' /\ Received'
    BY <1>1, <1>3, <1>4, <1>6 DEF ConnType, Received
  <1>8. Stage("srv_headers")'
    BY <1>1, <1>3, <1>4 DEF Stage, Posting, Answering, BeforeResponse, Tunnel
  <1> QED
    BY <1>1, <1>4, <1>7, <1>8, PlainOps, NextOp DEF BeforeResponse

\* A failed read of data posted to the web server.
LEMMA WebPostFailsStep == ConnInv /\ WebPostFails => ConnInv'
  <1> SUFFICES ASSUME ConnInv, WebPostFails PROVE ConnInv'
    OBVIOUS
  <1>1. ops = {"web_post"} /\ Stage("web_post") /\ ConnType /\ Received
    BY PlainOps, Alone DEF WebPostFails, BeforeResponse
  <1>2. ConnType' /\ Received' /\ ops' = {"web_post"}
    BY <1>1 DEF WebPostFails, ConnType, Received, Tracked
  <1>3. Stage("web_post")'
    BY <1>1 DEF WebPostFails, Stage, Posting, Answering, BeforeResponse, Tunnel
  <1> QED
    BY PlainOps, <1>2, <1>3, NextOp DEF BeforeResponse

\* The server is connected to.
LEMMA ConnectStep == ConnInv /\ Connect => ConnInv'
  <1> SUFFICES ASSUME ConnInv, Connect PROVE ConnInv'
    OBVIOUS
  <1>1. PICK o \in {"connect", "ssl_connect"} : o \in ops /\ o \in Op \ Tunnel
    BY PlainOps DEF Connect, BeforeResponse
  <1>2. ops = {o} /\ Stage(o) /\ ConnType /\ Received
    BY <1>1, Alone
  <1>3. buf' \in [brw : Seq(Nat), srv : Seq(Nat)] /\ buf'.brw = buf.brw
    BY <1>2 DEF Connect, ConnType
  <1>4. ConnType' /\ Received'
    BY <1>2, <1>3 DEF Connect, ConnType, Received, Tracked
  <1>5. CASE o = "connect"
    <2>1. ops' = {"srv_write"}
      BY <1>2, <1>5 DEF Connect
    <2>2. Stage("srv_write")'
      BY <1>2, <1>3, <1>5 DEF Connect, Stage, Posting, Answering, BeforeResponse, Tunnel
    <2> QED
      BY PlainOps, <1>4, <2>1, <2>2, NextOp DEF BeforeResponse
  <1>6. CASE o = "ssl_connect"
    <2>1. ops' = {"ssl_established"}
      BY <1>2, <1>6 DEF Connect
    <2>2. Stage("ssl_established")'
      BY <1>2, <1>3, <1>6 DEF Connect, Stage, Posting, Answering, BeforeResponse, Tunnel
    <2> QED
      BY PlainOps, <1>4, <2>1, <2>2, NextOp DEF BeforeResponse
  <1> QED
    BY <1>1, <1>5, <1>6

\* The name of the server is resolved.
LEMMA ResolveStep ==
    ASSUME NEW n, ConnInv, Resolve(n)
    PROVE  ConnInv'
  <1>1. PICK o \in {"resolve", "ssl_resolve"} : o \in ops /\ o \in Op \ Tunnel
    BY PlainOps DEF Resolve, BeforeResponse
  <1>2. ops = {o} /\ Stage(o) /\ ConnType /\ Received
    BY <1>1, Alone
  <1>3. Still /\ stat' = stat
    BY DEF Resolve, Still
  <1>4. ConnType' /\ Received' /\ Stage(o)'
    BY <1>1, <1>2, <1>3, Typed
  <1>5. CASE o = "resolve"
    <2>1. ops' = {"connect"}
      BY <1>2, <1>5 DEF Resolve
    <2>2. Stage("connect")'
      BY <1>4, <1>5 DEF Stage, Posting, Answering, BeforeResponse, Tunnel
    <2> QED
      BY PlainOps, <1>4, <2>1, <2>2, NextOp DEF BeforeResponse
  <1>6. CASE o = "ssl_resolve"
    <2>1. ops' = {"ssl_connect"}
      BY <1>2, <1>6 DEF Resolve
    <2>2. Stage("ssl_connect")'
      BY <1>4, <1>6 DEF Stage, Posting, Answering, BeforeResponse, Tunnel
    <2> QED
      BY PlainOps, <1>4, <2>1, <2>2, NextOp DEF BeforeResponse
  <1> QED
    BY <1>1, <1>5, <1>6

\* An operation fails: both sockets are closed and nothing else changes.
LEMMA FailsStep ==
    ASSUME NEW op \in ops, ConnInv, Fails(op)
    PROVE  ConnInv'
  <1>2. ops' = ops \ {op} /\ failed' = TRUE
    BY DEF Fails, Shutdown, Started
  <1>3. UNCHANGED <<req, resp, raw, last_chunk, astray, stat, buf, proxy_closed, got>>
    BY DEF Fails
  <1>4. ConnType' /\ Received' /\ HtmlAfterWhole'
    BY <1>2, <1>3 DEF ConnInv, ConnType, Received, HtmlAfterWhole, Tracked
  <1>5. OpsShape'
    BY <1>2 DEF ConnInv, OpsShape
  <1>6. ASSUME NEW o \in ops' PROVE Stage(o)'
    <2>1. Stage(o)
      BY <1>2, <1>6 DEF ConnInv
    <2> QED
      BY <1>2, <1>3, <2>1 DEF Stage, Posting, Answering
  <1>7. AnswerComplete'
    BY <1>2 DEF AnswerComplete
  <1> QED
    BY <1>4, <1>5, <1>6, <1>7 DEF ConnInv

\* An address of the server does not answer.
LEMMA ConnectFailsStep == ConnInv /\ ConnectFails => ConnInv'
  <1> SUFFICES ASSUME ConnInv, ConnectFails PROVE ConnInv'
    OBVIOUS
  <1>1. PICK o \in {"connect", "ssl_connect"} : o \in ops /\ o \in Op \ Tunnel
    BY PlainOps DEF ConnectFails, BeforeResponse
  <1>2. ops = {o} /\ Stage(o) /\ ConnType /\ Received
    BY <1>1, Alone
  <1>3. CASE endpoints > 0
    <2>1. ops' = ops /\ Still /\ stat' = stat
      BY <1>3 DEF ConnectFails, Still
    <2> QED
      BY <1>1, <1>2, <2>1, Typed, NextOp
  <1>4. CASE ~ (endpoints > 0)
    <2>1. ops' = {} /\ failed' = TRUE
      BY <1>4 DEF ConnectFails
    <2>2. UNCHANGED <<req, resp, raw, last_chunk, astray, stat, buf, proxy_closed, got>>
      BY DEF ConnectFails
    <2>3. ConnType' /\ Received' /\ HtmlAfterWhole'
      BY <1>2, <2>1, <2>2 DEF ConnInv, ConnType, Received, HtmlAfterWhole, Tracked
    <2>4. AnswerComplete'
      BY <2>1 DEF AnswerComplete
    <2> QED
      BY <2>1, <2>3, <2>4, LastOp
  <1> QED
    BY <1>3, <1>4

\* A page of its own starts to be written: it is whole from the start.
LEMMA PageStep ==
    ASSUME NEW op, ops = {op}, ConnType, Received,
           NEW p \in ResponseType, p.contentlen \in {p.total, -1},
           resp' = p, StartWriteHtml(op, Units(0, p.total)),
           req' \in RequestType \cup {NoRequest}, req'.action = "http" => ~ p.is_html,
           stat' \in StatType, stat'.post_sent = stat.post_sent,
           stat'.body_read = stat.body_read, stat'.units = stat.units, stat.body_sent = 0, stat'.body_sent = 0, failed' \in BOOLEAN,
           UNCHANGED <<last_chunk, astray, proxy_closed, got>>
    PROVE  ConnInv'
  <1> DEFINE r == Units(0, p.total)
  <1>1. p.total \in Nat
    BY DEF ResponseType
  <1>2. r \in Seq(Nat) /\ Len(r) = p.total
    BY <1>1, UnitsFacts
  <1>3. raw' = r /\ buf' = [buf EXCEPT !.srv = Piece(r, 0)] /\ ops' = {"html_write"}
    BY DEF StartWriteHtml, Started
  <1>4. Piece(r, 0) \in Seq(Nat)
    BY <1>2, PieceType
  <1>5. raw' = Units(0, Len(raw')) /\ Len(raw') = p.total /\ raw' \in Seq(Nat)
    BY <1>2, <1>3
  <1> HIDE DEF r
  <1>6. buf' \in [brw : Seq(Nat), srv : Seq(Nat)] /\ buf'.srv = Piece(raw', 0)
    BY <1>3, <1>4 DEF ConnType
  <1>7. ConnType'
    BY <1>5, <1>6 DEF ConnType, Tracked
  <1>8. Received'
    BY DEF Received
  <1>9. Stage("html_write")'
    BY <1>1, <1>5, <1>6 DEF Stage, Posting, Answering, BeforeResponse, Tunnel
  <1> QED
    BY <1>3, <1>7, <1>8, <1>9, NextOp DEF Op

\* The page that says why a request is denied.
LEMMA DenyPageType ==
    DenyPage \in ResponseType /\ DenyPage.contentlen = -1 /\ ~ DenyPage.is_html
  <1>1. BUFFER_SIZE + 1 \in Nat
    BY ConnectionAssumption
  <1>2. NoResponse \in ResponseType /\ NoResponse.contentlen = -1 /\ NoResponse.is_html = FALSE
    BY DEF NoResponse, ResponseType
  <1>3. DenyPage \in ResponseType
    BY <1>1, <1>2 DEF DenyPage, ResponseType
  <1>4. DenyPage.contentlen = NoResponse.contentlen /\ DenyPage.is_html = NoResponse.is_html
    BY <1>2 DEF DenyPage, ResponseType
  <1> QED
    BY <1>2, <1>3, <1>4

\* A name cannot be resolved.
LEMMA ResolveFailsStep == ConnInv /\ ResolveFails => ConnInv'
  <1> SUFFICES ASSUME ConnInv, ResolveFails PROVE ConnInv'
    OBVIOUS
  <1>1. CASE "resolve" \in ops /\ SendDenyResponse("resolve")
    <2>1. ops = {"resolve"} /\ Stage("resolve") /\ ConnType /\ Received
      BY <1>1, PlainOps, Alone DEF BeforeResponse
    <2>2. stat.body_sent = 0
      BY <2>1 DEF Stage, Answering, BeforeResponse
    <2>3. UNCHANGED <<req, last_chunk, astray, stat, proxy_closed, got>> /\ failed' = TRUE
      BY DEF ResolveFails
    <2>4. stat' \in StatType /\ req' \in RequestType \cup {NoRequest}
      BY <2>1, <2>3 DEF ConnType
    <2>5. resp' = DenyPage /\ StartWriteHtml("resolve", Units(0, DenyPage.total))
      BY <1>1 DEF SendDenyResponse
    <2> QED
      BY <2>1, <2>2, <2>3, <2>4, <2>5, DenyPageType, PageStep
  <1>2. CASE "ssl_resolve" \in ops /\ ops' = ops \ {"ssl_resolve"} /\ UNCHANGED <<resp, raw, buf>>
    <2>1. ops = {"ssl_resolve"} /\ ConnType /\ Received
      BY <1>2, PlainOps, Alone DEF BeforeResponse
    <2>2. ops' = {} /\ failed' = TRUE
      BY <1>2, <2>1 DEF ResolveFails
    <2>3. UNCHANGED <<req, resp, raw, last_chunk, astray, stat, buf, proxy_closed, got>>
      BY <1>2 DEF ResolveFails
    <2>4. ConnType' /\ Received' /\ HtmlAfterWhole'
      BY <2>1, <2>2, <2>3 DEF ConnInv, ConnType, Received, HtmlAfterWhole, Tracked
    <2>5. AnswerComplete'
      BY <2>2 DEF AnswerComplete
    <2> QED
      BY <2>2, <2>4, <2>5, LastOp
  <1> QED
    BY <1>1, <1>2 DEF ResolveFails, Started

\* The header of a request is complete: the request is given up, refused,
\* answered by the web server or passed on.
LEMMA ReadHeadersStep ==
    ASSUME NEW r \in Requests, NEW k \in 0 .. BUFFER_SIZE - 1, ConnInv, ReadHeaders(r, k)
    PROVE  ConnInv'
  <1>1. ops = {"brw_headers"} /\ Stage("brw_headers") /\ ConnType /\ Received
    BY PlainOps, Alone DEF ReadHeaders, Completes, BeforeResponse
  <1>2. /\ stat.units = 0 /\ stat.body_sent = 0 /\ stat.post_sent = 0
        /\ raw = <<>> /\ resp = NoResponse /\ ~ last_chunk
    BY <1>1 DEF Stage, Posting, Answering, BeforeResponse
  <1>3. k \in Nat /\ Units(0, k) \in Seq(Nat)
    BY UnitsFacts, ConnectionAssumption
  <1>4. /\ stat' \in StatType /\ stat'.post_read = k /\ stat'.post_sent = 0
        /\ stat'.units = 0 /\ stat'.body_sent = 0 /\ stat'.body_read = stat.body_read
    BY <1>1, <1>2, <1>3 DEF ReadHeaders, ConnType, StatType
  <1>5. req' = r /\ r \in RequestType /\ UNCHANGED <<last_chunk, astray, endpoints, proxy_closed, got, failed>>
    BY ConnectionAssumption DEF ReadHeaders
  <1>6. Received' /\ failed' \in BOOLEAN
    BY <1>1, <1>2, <1>4, <1>5 DEF Received, ConnType
  <1>7. ASSUME buf' = [buf EXCEPT !.brw = Units(0, k)], UNCHANGED <<resp, raw>>
        PROVE  ConnType' /\ buf'.brw = Units(0, k)
    <2>1. buf' \in [brw : Seq(Nat), srv : Seq(Nat)] /\ buf'.brw = Units(0, k)
      BY <1>1, <1>3, <1>7 DEF ConnType
    <2> QED
      BY <1>1, <1>2, <1>4, <1>5, <1>7, <2>1 DEF ConnType, Tracked
  <1>8. CASE r.action = "bad"
    <2>1. ops' = {} /\ buf' = [buf EXCEPT !.brw = Units(0, k)] /\ UNCHANGED <<resp, raw>>
      BY <1>1, <1>8 DEF ReadHeaders, Shutdown, Started
    <2>2. HtmlAfterWhole' /\ AnswerComplete'
      BY <1>5, <1>8 DEF HtmlAfterWhole, AnswerComplete
    <2> QED
      BY <1>6, <1>7, <2>1, <2>2, LastOp
  <1>9. CASE r.action = "deny"
    <2>1. resp' = DenyPage /\ StartWriteHtml("brw_headers", Units(0, DenyPage.total))
      BY <1>9 DEF ReadHeaders, SendDenyResponse
    <2> QED
      BY <1>1, <1>2, <1>4, <1>5, <1>6, <1>9, <2>1, DenyPageType, PageStep
  <1>10. CASE r.action = "web" /\ k >= r.contentlen
    <2>1. PICK p \in Responses : resp' = p /\ StartWriteHtml("brw_headers", Units(0, p.total))
      BY <1>10 DEF ReadHeaders, StartWebServer
    <2>2. p \in ResponseType /\ p.contentlen \in {p.total, -1}
      BY ConnectionAssumption
    <2> QED
      BY <1>1, <1>2, <1>4, <1>5, <1>6, <1>10, <2>1, <2>2, PageStep
  <1>11. CASE r.action = "web" /\ ~ (k >= r.contentlen)
    <2>1. ops' = {"web_post"} /\ UNCHANGED <<resp, raw, buf>>
      BY <1>1, <1>11 DEF ReadHeaders, Started
    <2>2. ConnType'
      BY <1>1, <1>2, <1>4, <1>5, <2>1 DEF ConnType, Tracked
    <2>3. Stage("web_post")'
      BY <1>2, <1>4, <1>5, <1>11, <2>1 DEF Stage, Posting, Answering, BeforeResponse, Tunnel
    <2> QED
      BY <1>6, <2>1, <2>2, <2>3, PlainOps, NextOp DEF BeforeResponse
  <1>12. CASE r.action = "http"
    <2>1. ops' = {"resolve"} /\ buf' = [buf EXCEPT !.brw = Units(0, k)] /\ UNCHANGED <<resp, raw>>
      BY <1>1, <1>12 DEF ReadHeaders, Started
    <2>2. Stage("resolve")'
      BY <1>2, <1>3, <1>4, <1>5, <1>7, <2>1 DEF Stage, Posting, Answering, BeforeResponse, Tunnel
    <2> QED
      BY <1>6, <1>7, <2>1, <2>2, PlainOps, NextOp DEF BeforeResponse
  <1>13. CASE r.action = "https"
    <2>1. ops' = {"ssl_resolve"} /\ buf' = [buf EXCEPT !.brw = Units(0, k)] /\ UNCHANGED <<resp, raw>>
      BY <1>1, <1>13 DEF ReadHeaders, Started
    <2>2. k = 0
      BY <1>3, <1>13, ConnectionAssumption DEF ReadHeaders
    <2>3. Stage("ssl_resolve")'
      BY <1>2, <1>4, <1>5, <2>1, <2>2 DEF Stage, Posting, Answering, BeforeResponse, Tunnel
    <2> QED
      BY <1>6, <1>7, <2>1, <2>3, PlainOps, NextOp DEF BeforeResponse
  <1> QED
    BY <1>8, <1>9, <1>10, <1>11, <1>12, <1>13 DEF ReadHeaders

\* Data posted to the web server.
LEMMA ReadWebPostStep ==
    ASSUME NEW k \in Amount, ConnInv, ReadWebPost(k)
    PROVE  ConnInv'
  <1>1. ops = {"web_post"} /\ Stage("web_post") /\ ConnType /\ Received
    BY PlainOps, Alone DEF ReadWebPost, Completes, BeforeResponse
  <1>2. /\ stat.units = 0 /\ stat.body_sent = 0
        /\ raw = <<>> /\ resp = NoResponse /\ ~ last_chunk /\ req.action = "web"
    BY <1>1 DEF Stage, Posting, Answering, BeforeResponse
  <1>3. k \in Nat
    BY ConnectionAssumption DEF Amount
  <1>4. /\ stat' \in StatType /\ stat'.post_sent = stat.post_sent
        /\ stat'.units = 0 /\ stat'.body_sent = 0 /\ stat'.body_read = stat.body_read
    <2>1. stat \in StatType /\ stat.post_read + k \in Nat
      BY <1>1, <1>3 DEF ConnType, StatType
    <2>2. stat' = [stat EXCEPT !.post_read = stat.post_read + k]
      BY DEF ReadWebPost
    <2> QED
      BY <1>2, <2>1, <2>2 DEF StatType
  <1>5. UNCHANGED <<req, last_chunk, astray, proxy_closed, got, failed>> /\ req' \in RequestType \cup {NoRequest}
    BY <1>1 DEF ReadWebPost, ConnType
  <1>6. CASE req.contentlen <= stat.post_read + k
    <2>1. PICK p \in Responses : resp' = p /\ StartWriteHtml("web_post", Units(0, p.total))
      BY <1>6 DEF ReadWebPost, StartWebServer
    <2>2. p \in ResponseType /\ p.contentlen \in {p.total, -1}
      BY ConnectionAssumption
    <2> QED
      BY <1>1, <1>2, <1>4, <1>5, <2>1, <2>2, PageStep DEF ConnType
  <1>7. CASE ~ (req.contentlen <= stat.post_read + k)
    <2>1. ops' = {"web_post"} /\ UNCHANGED <<resp, raw, buf>>
      BY <1>1, <1>7 DEF ReadWebPost
    <2>2. ConnType' /\ Received'
      BY <1>1, <1>2, <1>4, <1>5, <2>1 DEF ConnType, Received, Tracked
    <2>3. Stage("web_post")'
      BY <1>2, <1>4, <1>5, <2>1 DEF Stage, Posting, Answering, BeforeResponse, Tunnel
    <2> QED
      BY <2>1, <2>2, <2>3, PlainOps, NextOp DEF BeforeResponse
  <1> QED
    BY <1>6, <1>7

\* The header of the request has been written to the server.
LEMMA ServerWriteStep == ConnInv /\ ServerWrite => ConnInv'
  <1> SUFFICES ASSUME ConnInv, ServerWrite PROVE ConnInv'
    OBVIOUS
  <1>1. ops = {"srv_write"} /\ Stage("srv_write") /\ ConnType /\ Received
    BY PlainOps, Alone DEF ServerWrite, Completes, BeforeResponse
  <1>2. Still /\ stat' = stat
    BY DEF ServerWrite, Still
  <1>3. ConnType' /\ Received' /\ Stage("srv_write")'
    BY <1>1, <1>2, PlainOps, Typed DEF BeforeResponse
  <1>4. PICK o \in {"srv_headers", "srv_post", "brw_post"} :
          ops' = {o} /\ (o = "brw_post" => buf'.brw = <<>>)
    BY <1>1, <1>2 DEF ServerWrite, Started, Still
  <1>5. stat'.post_sent \in Nat /\ stat'.post_read \in Nat
    BY <1>3 DEF ConnType, StatType
  <1>6. o = "brw_post" => stat'.post_sent = stat'.post_read
    <2>1. /\ stat'.post_sent <= stat'.post_read
          /\ buf'.brw = Units(stat'.post_sent, stat'.post_read - stat'.post_sent)
      BY <1>3 DEF Stage, Posting
    <2>2. stat'.post_read - stat'.post_sent \in Nat
      BY <1>5, <2>1
    <2> QED
      <3> SUFFICES ASSUME o = "brw_post" PROVE stat'.post_sent = stat'.post_read
        OBVIOUS
      <3>1. Units(stat'.post_sent, stat'.post_read - stat'.post_sent) = <<>>
        BY <1>4, <2>1
      <3>2. stat'.post_read - stat'.post_sent = 0
        BY <1>5, <2>2, <3>1, UnitsFacts
      <3> QED
        BY <1>5, <3>2
  <1>7. Stage(o)'
    BY <1>3, <1>6 DEF Stage, Posting, Answering, BeforeResponse, Tunnel
  <1> QED
    BY <1>3, <1>4, <1>7, PlainOps, NextOp DEF BeforeResponse

\* What brw_buff holds has been written to the server: it follows what the
\* server had.
LEMMA PostedStep ==
    ASSUME ConnType, Received, stat.post_sent <= stat.post_read,
           buf.brw = Units(stat.post_sent, stat.post_read - stat.post_sent),
           got' = [got EXCEPT !.srv = @ \o buf.brw],
           stat' = [stat EXCEPT !.post_sent = @ + Len(buf.brw)],
           UNCHANGED <<req, resp, raw, last_chunk, astray, buf, proxy_closed, failed>>
    PROVE  /\ ConnType' /\ Received'
           /\ stat'.post_sent = stat.post_read /\ stat'.post_read = stat.post_read
           /\ stat'.body_sent = stat.body_sent /\ stat'.units = stat.units
  <1>1. stat \in StatType /\ stat.post_sent \in Nat /\ stat.post_read \in Nat
    BY DEF ConnType, StatType
  <1>2. stat.post_read - stat.post_sent \in Nat
    BY <1>1
  <1>3. Len(buf.brw) = stat.post_read - stat.post_sent
    BY <1>1, <1>2, UnitsFacts
  <1>4. stat.post_sent + Len(buf.brw) = stat.post_read
    BY <1>1, <1>3
  <1>5. stat' = [stat EXCEPT !.post_sent = stat.post_read]
    BY <1>4
  <1>6. /\ stat' \in StatType /\ stat'.body_read = stat.body_read
        /\ stat'.post_sent = stat.post_read /\ stat'.post_read = stat.post_read
        /\ stat'.body_sent = stat.body_sent /\ stat'.units = stat.units
    BY <1>1, <1>5 DEF StatType
  <1>7. got.srv \o buf.brw = Units(0, stat.post_read)
    <2>1. Units(0, stat.post_sent) \o Units(stat.post_sent, stat.post_read - stat.post_sent)
            = Units(0, stat.post_sent + (stat.post_read - stat.post_sent))
      BY <1>1, <1>2, UnitsJoin
    <2>2. stat.post_sent + (stat.post_read - stat.post_sent) = stat.post_read
      BY <1>1
    <2> QED
      BY <2>1, <2>2 DEF Received
  <1>8. got.srv \o buf.brw \in Seq(Nat)
    BY <1>1, <1>7, UnitsFacts
  <1>9. got' \in [brw : Seq(Nat), srv : Seq(Nat)] /\ got'.srv = got.srv \o buf.brw /\ got'.brw = got.brw
    BY <1>8 DEF ConnType
  <1>10. Received'
    BY <1>6, <1>7, <1>9 DEF Received
  <1>11. ConnType'
    BY <1>6, <1>9 DEF ConnType, Tracked
  <1> QED
    BY <1>6, <1>10, <1>11

\* Posted data has been written to the server.
LEMMA ServerWritePostdataStep == ConnInv /\ ServerWritePostdata => ConnInv'
  <1> SUFFICES ASSUME ConnInv, ServerWritePostdata PROVE ConnInv'
    OBVIOUS
  <1>1. ops = {"srv_post"} /\ Stage("srv_post") /\ ConnType /\ Received
    BY PlainOps, Alone DEF ServerWritePostdata, Completes, BeforeResponse
  <1>2. /\ ConnType' /\ Received'
        /\ stat'.post_sent = stat.post_read /\ stat'.post_read = stat.post_read
        /\ stat'.body_sent = stat.body_sent /\ stat'.units = stat.units
    <2>1. /\ stat.post_sent <= stat.post_read
          /\ buf.brw = Units(stat.post_sent, stat.post_read - stat.post_sent)
      BY <1>1 DEF Stage, Posting
    <2> QED
      BY <1>1, <2>1, PostedStep DEF ServerWritePostdata
  <1>3. PICK o \in {"brw_post", "srv_headers"} : ops' = {o}
    BY <1>1 DEF ServerWritePostdata, Started
  <1>4. Stage(o)'
    BY <1>1, <1>2 DEF ServerWritePostdata, Stage, Posting, Answering, BeforeResponse, Tunnel
  <1> QED
    BY <1>2, <1>3, <1>4, PlainOps, NextOp DEF BeforeResponse

\* k units are read from the browser into brw_buff.
LEMMA BrowserReadStep ==
    ASSUME ConnType, Received, stat.post_sent = stat.post_read, NEW k \in Nat,
           buf' = [buf EXCEPT !.brw = Units(stat.post_read, k)],
           stat' = [stat EXCEPT !.post_read = @ + k],
           UNCHANGED <<req, resp, raw, last_chunk, astray, proxy_closed, got, failed>>
    PROVE  /\ ConnType' /\ Received'
           /\ stat'.post_sent <= stat'.post_read
           /\ buf'.brw = Units(stat'.post_sent, stat'.post_read - stat'.post_sent)
           /\ buf'.srv = buf.srv
           /\ stat'.body_sent = stat.body_sent /\ stat'.units = stat.units
  <1>1. stat \in StatType /\ stat.post_read \in Nat /\ stat.post_read + k \in Nat
    BY DEF ConnType, StatType
  <1>2. stat' = [stat EXCEPT !.post_read = stat.post_read + k]
    OBVIOUS
  <1>3. /\ stat' \in StatType /\ stat'.body_read = stat.body_read
        /\ stat'.post_sent = stat.post_sent /\ stat'.post_read = stat.post_read + k
        /\ stat'.body_sent = stat.body_sent /\ stat'.units = stat.units
    BY <1>1, <1>2 DEF StatType
  <1>4. Units(stat.post_read, k) \in Seq(Nat)
    BY <1>1, UnitsFacts
  <1>5. /\ buf' \in [brw : Seq(Nat), srv : Seq(Nat)] /\ buf'.srv = buf.srv
        /\ buf'.brw = Units(stat.post_read, k)
    BY <1>4 DEF ConnType
  <1>6. ConnType' /\ Received'
    BY <1>3, <1>5 DEF ConnType, Received, Tracked
  <1>7. stat'.post_sent <= stat'.post_read /\ stat'.post_read - stat'.post_sent = k
    BY <1>1, <1>3
  <1> QED
    BY <1>3, <1>5, <1>6, <1>7

\* Posted data is read from the browser.
LEMMA BrowserReadPostdataStep ==
    ASSUME NEW k \in Amount, ConnInv, BrowserReadPostdata(k)
    PROVE  ConnInv'
  <1>1. ops = {"brw_post"} /\ Stage("brw_post") /\ ConnType /\ Received
    BY PlainOps, Alone DEF BrowserReadPostdata, Completes, BeforeResponse
  <1>2. /\ ConnType' /\ Received'
        /\ stat'.post_sent <= stat'.post_read
        /\ buf'.brw = Units(stat'.post_sent, stat'.post_read - stat'.post_sent)
        /\ stat'.body_sent = stat.body_sent /\ stat'.units = stat.units
    <2>1. k \in Nat
      BY ConnectionAssumption DEF Amount
    <2>2. stat.post_sent = stat.post_read
      BY <1>1 DEF Stage, Posting
    <2> QED
      BY <1>1, <2>1, <2>2, BrowserReadStep DEF BrowserReadPostdata
  <1>3. ops' = {"srv_post"}
    BY <1>1 DEF BrowserReadPostdata, Started
  <1>4. Stage("srv_post")'
    BY <1>1, <1>2 DEF BrowserReadPostdata, Stage, Posting, Answering, BeforeResponse, Tunnel
  <1> QED
    BY <1>2, <1>3, <1>4, PlainOps, NextOp DEF BeforeResponse

\* The header of the response cannot be parsed.
LEMMA ServerBadHeadersStep == ConnInv /\ ServerBadHeaders => ConnInv'
  <1> SUFFICES ASSUME ConnInv, ServerBadHeaders PROVE ConnInv'
    OBVIOUS
  <1>1. ops = {"srv_headers"} /\ ConnType /\ Received
    BY PlainOps, Alone DEF ServerBadHeaders, Completes, BeforeResponse
  <1>2. ops' = {} /\ failed' = TRUE
    BY <1>1 DEF ServerBadHeaders, Shutdown, Started
  <1>3. UNCHANGED <<req, resp, raw, last_chunk, astray, stat, buf, proxy_closed, got>>
    BY DEF ServerBadHeaders
  <1>4. ConnType' /\ Received' /\ HtmlAfterWhole'
    BY <1>1, <1>2, <1>3 DEF ConnInv, ConnType, Received, HtmlAfterWhole, Tracked
  <1>5. AnswerComplete'
    BY <1>2 DEF AnswerComplete
  <1> QED
    BY <1>2, <1>4, <1>5, LastOp

\* The header of the response is complete.
LEMMA ServerReadHeadersStep ==
    ASSUME NEW r \in Responses, NEW q \in Responses,
           NEW k \in 0 .. BUFFER_SIZE - 1, NEW x \in 0 .. BUFFER_SIZE - 1,
           ConnInv, ServerReadHeaders(r, q, k, x)
    PROVE  ConnInv'
  <1>1. ops = {"srv_headers"} /\ Stage("srv_headers") /\ ConnType /\ Received
    BY PlainOps, Alone DEF ServerReadHeaders, Completes, BeforeResponse
  <1>2. stat.body_sent = 0 /\ raw = <<>> /\ stat.units = 0 /\ ~ last_chunk
    BY <1>1 DEF Stage, Answering, BeforeResponse
  <1>3. /\ k \in Nat /\ x \in Nat /\ Units(0, k) \in Seq(Nat)
        /\ r \in ResponseType /\ r.contentlen \in {r.total, -1} /\ q \in ResponseType
    BY UnitsFacts, ConnectionAssumption
  <1>4. /\ stat' \in StatType /\ stat'.post_sent = stat.post_sent
        /\ stat'.units = k /\ stat'.body_sent = 0 /\ stat'.body_read = stat.body_read + x + k
    <2>1. stat \in StatType /\ stat.body_read \in Nat /\ stat.body_read + x + k \in Nat
      BY <1>1, <1>3 DEF ConnType, StatType
    <2>2. stat' = [stat EXCEPT !.body_read = stat.body_read + x + k, !.units = k]
      BY DEF ServerReadHeaders
    <2> QED
      BY <1>2, <1>3, <2>1, <2>2 DEF StatType
  <1>5. buf' \in [brw : Seq(Nat), srv : Seq(Nat)] /\ buf'.srv = Units(0, k)
    BY <1>1, <1>3 DEF ServerReadHeaders, ConnType
  <1>6. UNCHANGED <<req, raw, last_chunk, proxy_closed, got, failed>> /\ k <= r.total
    BY DEF ServerReadHeaders
  <1>10. resp' \in ResponseType /\ resp'.total = r.total /\ resp'.contentlen = q.contentlen
    BY <1>3 DEF ServerReadHeaders, ResponseType
  <1>11. astray' \in BOOLEAN /\ (~ astray' => ~ astray /\ x = 0 /\ q = r)
    <2>1. astray \in BOOLEAN /\ astray' = (astray \/ x > 0) /\ (q = r \/ astray')
      BY <1>1 DEF ConnType, Tracked, ServerReadHeaders
    <2>2. astray' \in BOOLEAN /\ (~ astray' => ~ astray /\ ~ (x > 0) /\ q = r)
      BY <2>1, Zenon
    <2> QED
      BY <1>3, <2>2
  <1>12. Tracked'
    <2> SUFFICES ASSUME ~ astray'
                 PROVE  stat'.body_read = stat'.units /\ resp'.contentlen \in {resp'.total, -1}
      BY <1>11 DEF Tracked
    <2>1. ~ astray /\ x = 0 /\ q = r
      BY <1>11
    <2>2. stat.body_read = 0
      BY <1>1, <1>2, <2>1 DEF ConnType, Tracked
    <2>3. stat'.body_read = k
      BY <1>3, <1>4, <2>1, <2>2
    <2> QED
      BY <1>3, <1>4, <1>10, <2>1, <2>3
  <1>7. ConnType' /\ Received'
    BY <1>1, <1>2, <1>4, <1>5, <1>6, <1>10, <1>12 DEF ConnType, Received
  <1>8. ops' = {"start_write"}
    BY <1>1 DEF ServerReadHeaders, Started
  <1>9. Stage("start_write")'
    BY <1>2, <1>4, <1>5, <1>6, <1>10 DEF Stage, Posting, Answering, BeforeResponse, Tunnel
  <1> QED
    BY <1>7, <1>8, <1>9, NextOp DEF Op

\* What srv_buff holds has been written to the browser: it follows what the
\* browser had.
LEMMA AnsweredStep ==
    ASSUME ConnType, Received, stat.body_sent <= stat.units,
           buf.srv = Units(stat.body_sent, stat.units - stat.body_sent),
           got' = [got EXCEPT !.brw = @ \o buf.srv],
           stat' = [stat EXCEPT !.body_sent = @ + Len(buf.srv)]
    PROVE  /\ stat' \in StatType /\ Received' /\ got' \in [brw : Seq(Nat), srv : Seq(Nat)]
           /\ stat'.post_sent = stat.post_sent /\ stat'.post_read = stat.post_read
           /\ stat'.body_sent = stat.units /\ stat'.units = stat.units
           /\ stat'.body_read = stat.body_read
  <1>1. stat \in StatType /\ stat.body_sent \in Nat /\ stat.units \in Nat
    BY DEF ConnType, StatType
  <1>2. stat.units - stat.body_sent \in Nat
    BY <1>1
  <1>3. Len(buf.srv) = stat.units - stat.body_sent
    BY <1>1, <1>2, UnitsFacts
  <1>4. stat.body_sent + Len(buf.srv) = stat.units
    BY <1>1, <1>3
  <1>5. stat' = [stat EXCEPT !.body_sent = stat.units]
    BY <1>4
  <1>6. /\ stat' \in StatType
        /\ stat'.post_sent = stat.post_sent /\ stat'.post_read = stat.post_read
        /\ stat'.body_sent = stat.units /\ stat'.units = stat.units
        /\ stat'.body_read = stat.body_read
    BY <1>1, <1>5 DEF StatType
  <1>7. got.brw \o buf.srv = Units(0, stat.units)
    <2>1. Units(0, stat.body_sent) \o Units(stat.body_sent, stat.units - stat.body_sent)
            = Units(0, stat.body_sent + (stat.units - stat.body_sent))
      BY <1>1, <1>2, UnitsJoin
    <2>2. stat.body_sent + (stat.units - stat.body_sent) = stat.units
      BY <1>1
    <2> QED
      BY <2>1, <2>2 DEF Received
  <1>8. got.brw \o buf.srv \in Seq(Nat)
    BY <1>1, <1>7, UnitsFacts
  <1>9. got' \in [brw : Seq(Nat), srv : Seq(Nat)] /\ got'.brw = got.brw \o buf.srv /\ got'.srv = got.srv
    BY <1>8 DEF ConnType
  <1>10. Received'
    BY <1>6, <1>7, <1>9 DEF Received
  <1> QED
    BY <1>6, <1>9, <1>10

\* One direction of the tunnel goes from a read to a write or back; the other
\* direction is where it was.
LEMMA TunnelStep ==
    ASSUME ConnInv, NEW o \in ops, NEW n,
           \/ {o, n} = {"ssl_brw_read", "ssl_srv_write"}
           \/ {o, n} = {"ssl_srv_read", "ssl_brw_write"},
           ops' = (ops \ {o}) \cup {n}, ConnType', Received', resp' = resp,
           Stage(n)', \A p \in ops \ {o} : Stage(p) => Stage(p)'
    PROVE  ConnInv'
  <1>1. o \in Tunnel /\ n \in Tunnel /\ Tunnel \subseteq Op
    BY DEF Tunnel, Op
  <1>2. ops \subseteq Tunnel
    BY <1>1 DEF ConnInv, OpsShape
  <1>3. OpsShape'
    BY <1>1, <1>2 DEF ConnInv, OpsShape, Tunnel
  <1>4. \A p \in ops' : Stage(p)'
    BY DEF ConnInv
  <1>5. ~ resp.is_html
    BY <1>1 DEF ConnInv, Stage, Answering
  <1>6. HtmlAfterWhole' /\ AnswerComplete'
    BY <1>5 DEF HtmlAfterWhole, AnswerComplete
  <1> QED
    BY <1>3, <1>4, <1>6 DEF ConnInv

\* The tunnel is set up.
LEMMA SslStartReadingStep == ConnInv /\ SslStartReading => ConnInv'
  <1> SUFFICES ASSUME ConnInv, SslStartReading PROVE ConnInv'
    OBVIOUS
  <1>1. ops = {"ssl_established"} /\ Stage("ssl_established") /\ ConnType /\ Received
    BY PlainOps, Alone DEF SslStartReading, Completes, BeforeResponse
  <1>2. Still /\ stat' = stat
    BY DEF SslStartReading, Still
  <1>3. ConnType' /\ Received' /\ Stage("ssl_established")'
    BY <1>1, <1>2, PlainOps, Typed DEF BeforeResponse
  <1>4. ops' = {"ssl_brw_read", "ssl_srv_read"}
    BY <1>1 DEF SslStartReading, Started
  <1>5. OpsShape'
    BY <1>4 DEF OpsShape, Op, Tunnel
  <1>6. Stage("ssl_brw_read")' /\ Stage("ssl_srv_read")' /\ ~ resp'.is_html
    BY <1>3 DEF Stage, Posting, Answering, BeforeResponse, Tunnel, NoResponse
  <1>7. HtmlAfterWhole' /\ AnswerComplete'
    BY <1>4, <1>6 DEF HtmlAfterWhole, AnswerComplete
  <1> QED
    BY <1>3, <1>4, <1>5, <1>6, <1>7 DEF ConnInv

\* The tunnel reads from the browser.
LEMMA SslBrowserReadStep ==
    ASSUME NEW k \in Amount, ConnInv, SslBrowserRead(k)
    PROVE  ConnInv'
  <1>1. "ssl_brw_read" \in ops /\ Stage("ssl_brw_read") /\ ConnType /\ Received
    BY DEF SslBrowserRead, Completes, ConnInv
  <1>2. /\ ConnType' /\ Received'
        /\ stat'.post_sent <= stat'.post_read
        /\ buf'.brw = Units(stat'.post_sent, stat'.post_read - stat'.post_sent)
        /\ buf'.srv = buf.srv
        /\ stat'.body_sent = stat.body_sent /\ stat'.units = stat.units
    <2>1. k \in Nat
      BY ConnectionAssumption DEF Amount
    <2>2. stat.post_sent = stat.post_read
      BY <1>1 DEF Stage, Posting
    <2> QED
      BY <1>1, <2>1, <2>2, BrowserReadStep DEF SslBrowserRead
  <1>3. ops' = (ops \ {"ssl_brw_read"}) \cup {"ssl_srv_write"} /\ UNCHANGED <<resp, raw>>
    BY DEF SslBrowserRead, Started
  <1>4. Stage("ssl_srv_write")'
    BY <1>1, <1>2, <1>3 DEF Stage, Posting, Answering, BeforeResponse, Tunnel
  <1>5. ASSUME NEW p \in ops \ {"ssl_brw_read"} PROVE Stage(p) => Stage(p)'
    <2>1. p \in {"ssl_srv_read", "ssl_brw_write"}
      BY <1>1 DEF ConnInv, OpsShape, Tunnel
    <2> QED
      BY <1>2, <1>3, <2>1 DEF Stage, Posting, Answering, BeforeResponse, Tunnel
  <1> QED
    BY <1>1, <1>2, <1>3, <1>4, <1>5, TunnelStep

\* The tunnel has written to the server.
LEMMA SslServerWriteStep == ConnInv /\ SslServerWrite => ConnInv'
  <1> SUFFICES ASSUME ConnInv, SslServerWrite PROVE ConnInv'
    OBVIOUS
  <1>1. "ssl_srv_write" \in ops /\ Stage("ssl_srv_write") /\ ConnType /\ Received
    BY DEF SslServerWrite, Completes, ConnInv
  <1>2. /\ ConnType' /\ Received'
        /\ stat'.post_sent = stat.post_read /\ stat'.post_read = stat.post_read
        /\ stat'.body_sent = stat.body_sent /\ stat'.units = stat.units
    <2>1. /\ stat.post_sent <= stat.post_read
          /\ buf.brw = Units(stat.post_sent, stat.post_read - stat.post_sent)
      BY <1>1 DEF Stage, Posting
    <2> QED
      BY <1>1, <2>1, PostedStep DEF SslServerWrite
  <1>3. ops' = (ops \ {"ssl_srv_write"}) \cup {"ssl_brw_read"} /\ UNCHANGED <<resp, raw, buf>>
    BY DEF SslServerWrite, Started
  <1>4. Stage("ssl_brw_read")'
    BY <1>1, <1>2, <1>3 DEF Stage, Posting, Answering, BeforeResponse, Tunnel
  <1>5. ASSUME NEW p \in ops \ {"ssl_srv_write"} PROVE Stage(p) => Stage(p)'
    <2>1. p \in {"ssl_srv_read", "ssl_brw_write"}
      BY <1>1 DEF ConnInv, OpsShape, Tunnel
    <2> QED
      BY <1>2, <1>3, <2>1 DEF Stage, Posting, Answering, BeforeResponse, Tunnel
  <1> QED
    BY <1>1, <1>2, <1>3, <1>4, <1>5, TunnelStep

\* The tunnel reads from the server.
LEMMA SslServerReadStep ==
    ASSUME NEW k \in Amount, ConnInv, SslServerRead(k)
    PROVE  ConnInv'
  <1>1. "ssl_srv_read" \in ops /\ Stage("ssl_srv_read") /\ ConnType /\ Received
    BY DEF SslServerRead, Completes, ConnInv
  <1>2. /\ stat \in StatType /\ stat.units \in Nat /\ stat.units + k \in Nat /\ k \in Nat
        /\ stat.body_read + k \in Nat
    BY <1>1, ConnectionAssumption DEF Amount, ConnType, StatType
  <1>3. /\ stat' \in StatType
        /\ stat'.post_sent = stat.post_sent /\ stat'.post_read = stat.post_read
        /\ stat'.body_sent = stat.body_sent /\ stat'.units = stat.units + k
        /\ stat'.body_read = stat.body_read + k
    BY <1>2 DEF SslServerRead, StatType
  <1>4. Units(stat.units, k) \in Seq(Nat)
    BY <1>2, UnitsFacts
  <1>5. /\ buf' \in [brw : Seq(Nat), srv : Seq(Nat)] /\ buf'.brw = buf.brw
        /\ buf'.srv = Units(stat.units, k)
    BY <1>1, <1>4 DEF SslServerRead, ConnType
  <1>6. ConnType' /\ Received'
    BY <1>1, <1>3, <1>5 DEF SslServerRead, ConnType, Received, Tracked
  <1>7. ops' = (ops \ {"ssl_srv_read"}) \cup {"ssl_brw_write"} /\ UNCHANGED <<resp, raw>>
    BY DEF SslServerRead, Started
  <1>8. /\ ~ resp.is_html /\ stat'.body_sent <= stat'.units
        /\ stat'.body_sent = stat.units /\ stat'.units - stat'.body_sent = k
    BY <1>1, <1>2, <1>3 DEF Stage, Answering, Tunnel
  <1>9. Stage("ssl_brw_write")'
    BY <1>5, <1>7, <1>8 DEF Stage, Posting, Answering, BeforeResponse, Tunnel
  <1>10. ASSUME NEW p \in ops \ {"ssl_srv_read"} PROVE Stage(p) => Stage(p)'
    <2>1. p \in {"ssl_brw_read", "ssl_srv_write"}
      BY <1>1 DEF ConnInv, OpsShape, Tunnel
    <2> QED
      BY <1>3, <1>5, <1>7, <2>1 DEF Stage, Posting, Answering, BeforeResponse, Tunnel
  <1> QED
    BY <1>1, <1>6, <1>7, <1>9, <1>10, TunnelStep

\* The tunnel has written to the browser.
LEMMA SslBrowserWriteStep == ConnInv /\ SslBrowserWrite => ConnInv'
  <1> SUFFICES ASSUME ConnInv, SslBrowserWrite PROVE ConnInv'
    OBVIOUS
  <1>1. "ssl_brw_write" \in ops /\ Stage("ssl_brw_write") /\ ConnType /\ Received
    BY DEF SslBrowserWrite, Completes, ConnInv
  <1>2. /\ stat' \in StatType /\ Received' /\ got' \in [brw : Seq(Nat), srv : Seq(Nat)]
        /\ stat'.post_sent = stat.post_sent /\ stat'.post_read = stat.post_read
        /\ stat'.body_sent = stat.units /\ stat'.units = stat.units
        /\ stat'.body_read = stat.body_read
    <2>1. /\ stat.body_sent <= stat.units
          /\ buf.srv = Units(stat.body_sent, stat.units - stat.body_sent)
      BY <1>1 DEF Stage, Answering
    <2> QED
      BY <1>1, <2>1, AnsweredStep DEF SslBrowserWrite
  <1>3. ConnType'
    BY <1>1, <1>2 DEF SslBrowserWrite, ConnType, Tracked
  <1>4. ops' = (ops \ {"ssl_brw_write"}) \cup {"ssl_srv_read"} /\ UNCHANGED <<resp, raw, buf>>
    BY DEF SslBrowserWrite, Started
  <1>5. Stage("ssl_srv_read")'
    BY <1>1, <1>2, <1>4 DEF Stage, Posting, Answering, BeforeResponse, Tunnel
  <1>6. ASSUME NEW p \in ops \ {"ssl_brw_write"} PROVE Stage(p) => Stage(p)'
    <2>1. p \in {"ssl_brw_read", "ssl_srv_write"}
      BY <1>1 DEF ConnInv, OpsShape, Tunnel
    <2> QED
      BY <1>2, <1>4, <2>1 DEF Stage, Posting, Answering, BeforeResponse, Tunnel
  <1> QED
    BY <1>1, <1>2, <1>3, <1>4, <1>5, <1>6, TunnelStep

\* The response is read on, written as a page or done with: the body is
\* complete unless there is more to read or the place in it is lost.
LEMMA WriteNextStep ==
    ASSUME NEW op, ops = {op}, ConnType, NEW r \in Seq(Nat), r = Units(0, Len(r)),
           WriteNext(op, r), stat' \in StatType, got' \in [brw : Seq(Nat), srv : Seq(Nat)],
           last_chunk' \in BOOLEAN, Received', Tracked',
           UNCHANGED <<req, resp, proxy_closed, failed>>,
           stat'.units <= resp.total, last_chunk' /\ ~ astray' => stat'.units = resp.total,
           resp.is_html => stat'.body_sent = 0 /\ r = Units(0, stat'.units),
           ~ resp.is_html => stat'.body_sent = stat'.units
    PROVE  ConnInv'
  <1>1. /\ stat'.units \in Nat /\ stat'.body_sent \in Nat /\ stat'.body_read \in Nat
        /\ resp.total \in Nat
    BY DEF ConnType, StatType, ResponseType
  <1>2. raw' = r
    BY DEF WriteNext, StartWriteHtml
  <1>3. buf' \in [brw : Seq(Nat), srv : Seq(Nat)]
    <2>1. Piece(r, 0) \in Seq(Nat)
      BY PieceType
    <2> QED
      BY <2>1 DEF WriteNext, StartWriteHtml, ConnType
  <1>4. ConnType'
    BY <1>2, <1>3 DEF ConnType
  <1>5. Len(got'.brw) = stat'.body_sent /\ (got'.brw = <<>> <=> stat'.body_sent = 0)
    <2>1. LET u == Units(0, stat'.body_sent)
          IN  Len(u) = stat'.body_sent /\ (u = <<>> <=> stat'.body_sent = 0)
      BY <1>1, UnitsFacts
    <2> QED
      BY <2>1 DEF Received
  <1>6. ~ MoreToRead /\ ~ astray' => stat'.units = resp.total /\ stat'.body_read = stat'.units
    <2> SUFFICES ASSUME ~ MoreToRead, ~ astray'
                 PROVE  stat'.units = resp.total /\ stat'.body_read = stat'.units
      OBVIOUS
    <2>1. stat'.body_read = stat'.units /\ resp.contentlen \in {resp.total, -1}
      BY DEF Tracked
    <2> QED
      BY <1>1, <2>1 DEF MoreToRead
  <1>7. CASE resp.not_modified
    <2>1. ops' = {}
      BY <1>7 DEF WriteNext, Shutdown, Started
    <2>2. HtmlAfterWhole' /\ AnswerComplete'
      BY <1>5, <1>7 DEF HtmlAfterWhole, AnswerComplete
    <2> QED
      BY <1>4, <2>1, <2>2, LastOp
  <1>8. CASE ~ resp.not_modified /\ MoreToRead
    <2>1. ops' = {"srv_body"}
      BY <1>8 DEF WriteNext, Started
    <2>2. Stage("srv_body")'
      BY <1>2 DEF Stage, Posting, Answering, BeforeResponse, Tunnel
    <2> QED
      BY <1>4, <2>1, <2>2, NextOp DEF Op
  <1>9. CASE ~ resp.not_modified /\ ~ MoreToRead /\ resp.is_html /\ stat'.body_read > 0
    <2>1. ops' = {"html_write"} /\ buf' = [buf EXCEPT !.srv = Piece(r, 0)]
      BY <1>9 DEF WriteNext, StartWriteHtml, Started
    <2>2. buf'.srv = Piece(r, 0)
      BY <2>1 DEF ConnType
    <2>3. stat'.body_sent = 0 /\ Len(r) = stat'.units
      <3>1. Len(Units(0, stat'.units)) = stat'.units
        BY <1>1, UnitsFacts
      <3> QED
        BY <1>9, <3>1
    <2>4. Stage("html_write")'
      BY <1>1, <1>2, <1>6, <1>9, <2>2, <2>3 DEF Stage, Posting, Answering, BeforeResponse, Tunnel
    <2> QED
      BY <1>4, <2>1, <2>4, NextOp DEF Op
  <1>10. CASE ~ resp.not_modified /\ ~ MoreToRead /\ ~ (resp.is_html /\ stat'.body_read > 0)
    <2>1. ops' = {}
      BY <1>10 DEF WriteNext, Shutdown, Started
    <2>2. HtmlAfterWhole'
      BY <1>5, <1>6, <1>10 DEF HtmlAfterWhole
    <2>3. ~ astray' => stat'.body_sent = resp.total
      BY <1>1, <1>6, <1>10
    <2>4. AnswerComplete'
      BY <1>5, <2>3 DEF AnswerComplete
    <2> QED
      BY <1>4, <2>1, <2>2, <2>4, LastOp
  <1> QED
    BY <1>7, <1>8, <1>9, <1>10

\* What process_rawbody makes of got_last_chunk: while the place is kept, the
\* last chunk is seen with the last unit.
LEMMA LastChunkStep ==
    ASSUME ConnType, LastChunk, resp' = resp,
           ~ astray => stat'.body_read = stat'.units
    PROVE  /\ last_chunk' \in BOOLEAN /\ Tracked'
           /\ last_chunk' /\ ~ astray' => stat'.units = resp.total
  <1>1. astray \in BOOLEAN /\ last_chunk \in BOOLEAN /\ resp.chunked \in BOOLEAN
    BY DEF ConnType, Tracked, ResponseType
  <1>2. astray' \in BOOLEAN /\ (~ astray' => ~ astray)
    BY <1>1 DEF LastChunk
  <1>3. last_chunk' \in BOOLEAN /\ (last_chunk' /\ ~ astray' => stat'.units = resp.total)
    <2>1. CASE astray'
      BY <1>1, <2>1 DEF LastChunk
    <2>2. CASE ~ astray'
      BY <1>1, <2>2 DEF LastChunk
    <2> QED
      BY <2>1, <2>2
  <1> QED
    BY <1>2, <1>3 DEF ConnType, Tracked

\* The header of the response has been written to the browser.
LEMMA BrowserStartWriteStep == ConnInv /\ BrowserStartWrite => ConnInv'
  <1> SUFFICES ASSUME ConnInv, BrowserStartWrite PROVE ConnInv'
    OBVIOUS
  <1>1. ops = {"start_write"} /\ Stage("start_write") /\ ConnType /\ Received
    BY PlainOps, Alone DEF BrowserStartWrite, Completes
  <1>2. /\ stat.body_sent = 0 /\ stat.units <= resp.total /\ raw = <<>>
        /\ buf.srv = Units(0, stat.units)
    BY <1>1 DEF Stage, Answering
  <1>3. stat \in StatType /\ stat.units \in Nat /\ resp.total \in Nat /\ resp.chunked \in BOOLEAN
    BY <1>1 DEF ConnType, StatType, ResponseType
  <1>4. UNCHANGED <<stat, got, req, resp, proxy_closed, failed>>
    BY DEF BrowserStartWrite
  <1>6. Received' /\ stat' \in StatType /\ got' \in [brw : Seq(Nat), srv : Seq(Nat)]
    BY <1>1, <1>4 DEF Received, ConnType
  <1>7. CASE LastChunk
    <2>1. /\ last_chunk' \in BOOLEAN /\ Tracked'
          /\ last_chunk' /\ ~ astray' => stat'.units = resp.total
      <3>1. ~ astray => stat'.body_read = stat'.units
        BY <1>1, <1>4 DEF ConnType, Tracked
      <3> QED
        BY <1>1, <1>4, <1>7, <3>1, LastChunkStep
    <2>2. CASE resp.is_html /\ WriteNext("start_write", Collected(buf.srv))
      <3> DEFINE r == Collected(buf.srv)
      <3>1. r = Units(0, stat.units)
        <4>1. <<>> \o Units(0, stat.units) = Units(0, stat.units)
          BY <1>3, UnitsFacts
        <4> QED
          BY <1>2, <2>2, <4>1 DEF Collected
      <3>2. r \in Seq(Nat) /\ r = Units(0, Len(r))
        BY <1>3, <3>1, UnitsFacts
      <3> HIDE DEF r
      <3>3. WriteNext("start_write", r)
        BY <2>2 DEF r
      <3> QED
        BY <1>1, <1>2, <1>4, <1>6, <2>1, <2>2, <3>1, <3>2, <3>3, WriteNextStep
    <2>3. CASE ~ resp.is_html /\ ops' = {"brw_write"} /\ UNCHANGED <<raw, buf>>
      <3>1. ConnType'
        BY <1>1, <1>4, <1>6, <2>1, <2>3 DEF ConnType
      <3>2. stat.units - 0 = stat.units
        BY <1>3
      <3>3. Stage("brw_write")'
        BY <1>2, <1>3, <1>4, <2>1, <2>3, <3>2
           DEF Stage, Posting, Answering, BeforeResponse, Tunnel
      <3> QED
        BY <1>6, <2>3, <3>1, <3>3, NextOp DEF Op
    <2>4. CASE buf.srv = <<>> /\ UNCHANGED <<last_chunk, astray>> /\ WriteNext("start_write", raw)
      <3>1. stat.units = 0
        <4>1. Units(0, stat.units) = <<>> <=> stat.units = 0
          BY <1>3, UnitsFacts
        <4> QED
          BY <1>2, <2>4, <4>1
      <3>2. raw \in Seq(Nat) /\ raw = Units(0, Len(raw)) /\ raw = Units(0, stat.units)
        BY <1>1, <1>2, <3>1, UnitsFacts DEF ConnType
      <3> QED
        BY <1>1, <1>2, <1>4, <1>6, <2>1, <2>4, <3>1, <3>2, WriteNextStep
    <2> QED
      BY <1>1, <2>2, <2>3, <2>4 DEF BrowserStartWrite, Started
  <1>8. CASE buf.srv = <<>> /\ UNCHANGED <<last_chunk, astray>> /\ WriteNext("start_write", raw)
    <2>1. stat.units = 0
      <3>1. Units(0, stat.units) = <<>> <=> stat.units = 0
        BY <1>3, UnitsFacts
      <3> QED
        BY <1>2, <1>8, <3>1
    <2>2. raw \in Seq(Nat) /\ raw = Units(0, Len(raw)) /\ raw = Units(0, stat.units)
      BY <1>1, <1>2, <2>1, UnitsFacts DEF ConnType
    <2>3. /\ last_chunk' \in BOOLEAN /\ Tracked'
          /\ last_chunk' /\ ~ astray' => stat'.units = resp.total
      BY <1>1, <1>4, <1>8 DEF ConnType, Tracked, Stage, Answering
    <2> QED
      BY <1>1, <1>2, <1>4, <1>6, <1>8, <2>1, <2>2, <2>3, WriteNextStep
  <1> QED
    BY <1>7, <1>8 DEF BrowserStartWrite

\* A part of the body has been written to the browser.
LEMMA BrowserWriteStep == ConnInv /\ BrowserWrite => ConnInv'
  <1> SUFFICES ASSUME ConnInv, BrowserWrite PROVE ConnInv'
    OBVIOUS
  <1>1. ops = {"brw_write"} /\ Stage("brw_write") /\ ConnType /\ Received
    BY PlainOps, Alone DEF BrowserWrite, Completes
  <1>2. /\ ~ resp.is_html
        /\ stat.body_sent <= stat.units /\ stat.units <= resp.total
        /\ buf.srv = Units(stat.body_sent, stat.units - stat.body_sent)
        /\ last_chunk /\ ~ astray => stat.units = resp.total
    BY <1>1 DEF Stage, Answering
  <1>3. /\ stat' \in StatType /\ Received' /\ got' \in [brw : Seq(Nat), srv : Seq(Nat)]
        /\ stat'.body_sent = stat.units /\ stat'.units = stat.units
        /\ stat'.body_read = stat.body_read
    BY <1>1, <1>2, AnsweredStep DEF BrowserWrite
  <1>4. /\ UNCHANGED <<last_chunk, astray, req, resp, proxy_closed, failed>>
        /\ WriteNext("brw_write", raw)
    BY DEF BrowserWrite
  <1>5. raw \in Seq(Nat) /\ raw = Units(0, Len(raw)) /\ last_chunk' \in BOOLEAN
    BY <1>1, <1>4 DEF ConnType
  <1>6. Tracked'
    BY <1>1, <1>3, <1>4 DEF ConnType, Tracked
  <1> QED
    BY <1>1, <1>2, <1>3, <1>4, <1>5, <1>6, WriteNextStep

\* A part of the body is read from the server.
LEMMA ServerReadBodyStep ==
    ASSUME NEW k \in 0 .. BUFFER_SIZE, NEW x \in 0 .. BUFFER_SIZE, ConnInv, ServerReadBody(k, x)
    PROVE  ConnInv'
  <1>1. ops = {"srv_body"} /\ Stage("srv_body") /\ ConnType /\ Received
    BY PlainOps, Alone DEF ServerReadBody, Completes
  <1>2. /\ resp.is_html => stat.body_sent = 0 /\ raw = Units(0, stat.units)
        /\ ~ resp.is_html => stat.body_sent = stat.units
    BY <1>1 DEF Stage, Answering
  <1>3. /\ stat \in StatType /\ stat.units \in Nat /\ k \in Nat /\ stat.units + k \in Nat
        /\ x \in Nat /\ stat.body_read + x + k \in Nat /\ stat.body_read \in Nat
        /\ resp.total \in Nat /\ resp.chunked \in BOOLEAN
    <2>1. k \in Nat /\ x \in Nat
      BY ConnectionAssumption
    <2>2. stat \in StatType /\ stat.units \in Nat /\ stat.body_read \in Nat
      BY <1>1 DEF ConnType, StatType
    <2>3. resp.total \in Nat /\ resp.chunked \in BOOLEAN
      BY <1>1 DEF ConnType, ResponseType
    <2> QED
      BY <2>1, <2>2, <2>3
  <1>4. /\ stat' \in StatType
        /\ stat'.post_sent = stat.post_sent /\ stat'.body_sent = stat.body_sent
        /\ stat'.units = stat.units + k /\ stat'.units <= resp.total
        /\ stat'.body_read = stat.body_read + x + k
    <2> DEFINE n == IF x > 0 THEN stat.parts + 1 ELSE stat.parts
    <2>1. n \in Nat
      BY <1>3 DEF StatType
    <2>2. /\ stat' = [stat EXCEPT !.parts = n, !.body_read = stat.body_read + x + k,
                                 !.units = stat.units + k]
          /\ stat.units + k <= resp.total
      BY DEF ServerReadBody
    <2> HIDE DEF n
    <2> QED
      BY <1>3, <2>1, <2>2 DEF StatType
  <1>5. UNCHANGED <<got, req, resp, proxy_closed, failed>>
    BY DEF ServerReadBody
  <1>6. /\ last_chunk' \in BOOLEAN /\ Tracked'
        /\ last_chunk' /\ ~ astray' => stat'.units = resp.total
    <2>1. ~ astray => stat'.body_read = stat'.units
      <3> SUFFICES ASSUME ~ astray PROVE stat'.body_read = stat'.units
        OBVIOUS
      <3>1. x = 0 /\ stat.body_read = stat.units
        BY <1>1, <1>3 DEF ServerReadBody, ConnType, Tracked
      <3> QED
        BY <1>3, <1>4, <3>1
    <2> QED
      BY <1>1, <1>5, <2>1, LastChunkStep DEF ServerReadBody
  <1>7. Received' /\ got' \in [brw : Seq(Nat), srv : Seq(Nat)]
    BY <1>1, <1>4, <1>5 DEF Received, ConnType
  <1>8. Units(stat.units, k) \in Seq(Nat)
    BY <1>3, UnitsFacts
  <1>9. CASE resp.is_html
    <2> DEFINE r == raw \o Units(stat.units, k)
    <2>1. WriteNext("srv_body", r)
      BY <1>9 DEF ServerReadBody
    <2>2. r = Units(0, stat.units + k)
      <3>1. Units(0, stat.units) \o Units(stat.units, k) = Units(0, stat.units + k)
        BY <1>3, UnitsJoin
      <3> QED
        BY <1>2, <1>9, <3>1
    <2>3. r \in Seq(Nat) /\ r = Units(0, Len(r))
      <3>1. Units(0, stat.units + k) \in Seq(Nat) /\ Len(Units(0, stat.units + k)) = stat.units + k
        BY <1>3, UnitsFacts
      <3> QED
        BY <2>2, <3>1
    <2> HIDE DEF r
    <2> QED
      BY <1>1, <1>2, <1>4, <1>5, <1>6, <1>7, <1>9, <2>1, <2>2, <2>3, WriteNextStep
  <1>10. CASE ~ resp.is_html
    <2>1. /\ buf' = [buf EXCEPT !.srv = Units(stat.units, k)] /\ ops' = {"brw_write"}
          /\ raw' = raw
      BY <1>1, <1>10 DEF ServerReadBody, Started
    <2>2. buf' \in [brw : Seq(Nat), srv : Seq(Nat)] /\ buf'.srv = Units(stat.units, k)
      BY <1>1, <1>8, <2>1 DEF ConnType
    <2>3. ConnType'
      BY <1>1, <1>4, <1>5, <1>6, <2>1, <2>2 DEF ConnType
    <2>4. /\ stat'.body_sent = stat.units /\ stat'.body_sent <= stat'.units
          /\ stat'.units - stat'.body_sent = k
      BY <1>2, <1>3, <1>4, <1>10
    <2>5. Stage("brw_write")'
      BY <1>4, <1>5, <1>6, <1>10, <2>2, <2>4
         DEF Stage, Posting, Answering, BeforeResponse, Tunnel
    <2> QED
      BY <1>7, <2>1, <2>3, <2>5, NextOp DEF Op
  <1> QED
    BY <1>9, <1>10

\* The server has closed the connection.
LEMMA ServerBodyEofStep == ConnInv /\ ServerBodyEof => ConnInv'
  <1> SUFFICES ASSUME ConnInv, ServerBodyEof PROVE ConnInv'
    OBVIOUS
  <1>1. ops = {"srv_body"} /\ Stage("srv_body") /\ ConnType /\ Received
    BY PlainOps, Alone DEF ServerBodyEof, Completes
  <1>2. /\ stat.units <= resp.total
        /\ resp.is_html => stat.body_sent = 0 /\ raw = Units(0, stat.units)
        /\ ~ resp.is_html => stat.body_sent = stat.units
    BY <1>1 DEF Stage, Answering
  <1>3. stat.units \in Nat /\ stat.body_sent \in Nat /\ resp.total \in Nat
    BY <1>1 DEF ConnType, StatType, ResponseType
  <1>4. UNCHANGED <<req, resp, last_chunk, astray, stat, got>> /\ proxy_closed' = TRUE
    BY DEF ServerBodyEof
  <1>5. failed' \in BOOLEAN /\ (~ failed' => stat.units = resp.total)
    <2>1. failed' = (failed \/ stat.units < resp.total) /\ failed \in BOOLEAN
      BY <1>1 DEF ServerBodyEof, ConnType
    <2>2. failed' \in BOOLEAN /\ (~ failed' => ~ (stat.units < resp.total))
      BY <2>1, Zenon
    <2> QED
      BY <1>2, <1>3, <2>2
  <1>6. Received'
    BY <1>1, <1>4 DEF Received
  <1>7. CASE resp.is_html
    <2>1. raw' = raw /\ buf' = [buf EXCEPT !.srv = Piece(raw, 0)] /\ ops' = {"html_write"}
      BY <1>1, <1>7 DEF ServerBodyEof, StartWriteHtml, Started
    <2>2. raw \in Seq(Nat) /\ Piece(raw, 0) \in Seq(Nat)
      BY <1>1, PieceType DEF ConnType
    <2>3. buf' \in [brw : Seq(Nat), srv : Seq(Nat)] /\ buf'.srv = Piece(raw, 0)
      BY <1>1, <2>1, <2>2 DEF ConnType
    <2>4. ConnType'
      BY <1>1, <1>4, <1>5, <2>1, <2>3 DEF ConnType, Tracked
    <2>5. stat'.body_sent = 0 /\ Len(raw') = stat.units
      BY <1>2, <1>3, <1>4, <1>7, <2>1, UnitsFacts
    <2>6. Stage("html_write")'
      BY <1>3, <1>4, <1>5, <2>1, <2>3, <2>5 DEF Stage, Posting, Answering, BeforeResponse, Tunnel
    <2> QED
      BY <1>6, <2>1, <2>4, <2>6, NextOp DEF Op
  <1>8. CASE ~ resp.is_html
    <2>1. ops' = {} /\ UNCHANGED <<raw, buf>>
      BY <1>1, <1>8 DEF ServerBodyEof, Shutdown, Started
    <2>2. ConnType'
      BY <1>1, <1>4, <1>5, <2>1 DEF ConnType, Tracked
    <2>3. HtmlAfterWhole'
      BY <1>4 DEF HtmlAfterWhole
    <2>4. Len(got'.brw) = stat.units
      <3>1. Len(Units(0, stat.units)) = stat.units
        BY <1>3, UnitsFacts
      <3> QED
        BY <1>2, <1>4, <1>6, <1>8, <3>1 DEF Received
    <2>5. AnswerComplete'
      BY <1>4, <1>5, <2>4 DEF AnswerComplete
    <2> QED
      BY <1>6, <2>1, <2>2, <2>3, <2>5, LastOp
  <1> QED
    BY <1>7, <1>8

\* A piece of a page has been written to the browser.
LEMMA BrowserWriteHtmlStep == ConnInv /\ BrowserWriteHtml => ConnInv'
  <1> SUFFICES ASSUME ConnInv, BrowserWriteHtml PROVE ConnInv'
    OBVIOUS
  <1>1. ops = {"html_write"} /\ Stage("html_write") /\ ConnType /\ Received
    BY PlainOps, Alone DEF BrowserWriteHtml, Completes
  <1>2. /\ stat.body_sent <= Len(raw) /\ buf.srv = Piece(raw, stat.body_sent)
        /\ ~ failed /\ ~ astray => Len(raw) = resp.total
        /\ resp.is_html /\ req.action = "http" => stat.units = resp.total \/ proxy_closed \/ astray
    BY <1>1 DEF Stage, Answering
  <1>3. /\ stat \in StatType /\ stat.body_sent \in Nat /\ raw \in Seq(Nat) /\ Len(raw) \in Nat
        /\ raw = Units(0, Len(raw))
    BY <1>1 DEF ConnType, StatType
  <1>4. PICK k \in Nat : stat.body_sent + k <= Len(raw) /\ buf.srv = Units(stat.body_sent, k)
    <2> DEFINE n == Len(raw)
               s == stat.body_sent
               j == IF s + BUFFER_SIZE > n THEN n - s ELSE BUFFER_SIZE
    <2>1. j \in Nat /\ s + j <= n /\ Piece(Units(0, n), s) = Units(s, j)
      BY <1>2, <1>3, UnitsPiece
    <2>2. buf.srv = Piece(Units(0, n), s)
      BY <1>2, <1>3
    <2> HIDE DEF j
    <2> QED
      BY <2>1, <2>2
  <1> DEFINE sent == stat.body_sent + Len(buf.srv)
  <1>5. sent = stat.body_sent + k /\ sent \in Nat /\ sent <= Len(raw)
    <2>1. Len(Units(stat.body_sent, k)) = k
      BY <1>3, UnitsFacts
    <2> QED
      BY <1>3, <1>4, <2>1
  <1>6. got' = [got EXCEPT !.brw = @ \o buf.srv] /\ stat' = [stat EXCEPT !.body_sent = sent]
    BY DEF BrowserWriteHtml
  <1>7. got.brw \o buf.srv = Units(0, sent)
    BY <1>1, <1>3, <1>4, <1>5, UnitsJoin DEF Received
  <1>8. UNCHANGED <<req, resp, raw, last_chunk, astray, proxy_closed, failed>>
    BY DEF BrowserWriteHtml
  <1>9. \/ /\ sent < Len(raw) /\ buf' = [buf EXCEPT !.srv = Piece(raw, sent)]
           /\ ops' = {"html_write"}
        \/ sent >= Len(raw) /\ ops' = {} /\ buf' = buf
    BY <1>1 DEF BrowserWriteHtml, Started, Shutdown
  <1> HIDE DEF sent
  <1>10. /\ stat' \in StatType /\ stat'.body_sent = sent
         /\ stat'.post_sent = stat.post_sent /\ stat'.units = stat.units
         /\ stat'.body_read = stat.body_read
    BY <1>3, <1>5, <1>6 DEF StatType
  <1>11. got' \in [brw : Seq(Nat), srv : Seq(Nat)] /\ got'.brw = Units(0, sent) /\ got'.srv = got.srv
    <2>1. Units(0, sent) \in Seq(Nat)
      BY <1>5, UnitsFacts
    <2> QED
      BY <1>1, <1>6, <1>7, <2>1 DEF ConnType
  <1>12. Received'
    BY <1>1, <1>10, <1>11 DEF Received
  <1>13. buf' \in [brw : Seq(Nat), srv : Seq(Nat)]
    <2>1. Piece(raw, sent) \in Seq(Nat)
      BY <1>3, <1>5, PieceType
    <2> QED
      BY <1>1, <1>9, <2>1 DEF ConnType
  <1>14. ConnType'
    BY <1>1, <1>8, <1>10, <1>11, <1>13 DEF ConnType, Tracked
  <1>15. CASE sent < Len(raw)
    <2>1. ops' = {"html_write"} /\ buf'.srv = Piece(raw, sent)
      BY <1>1, <1>3, <1>5, <1>9, <1>15 DEF ConnType
    <2>2. Stage("html_write")'
      BY <1>2, <1>5, <1>8, <1>10, <2>1 DEF Stage, Posting, Answering, BeforeResponse, Tunnel
    <2> QED
      BY <1>12, <1>14, <2>1, <2>2, NextOp DEF Op
  <1>16. CASE ~ (sent < Len(raw))
    <2>1. ops' = {} /\ sent = Len(raw)
      BY <1>3, <1>5, <1>9, <1>16
    <2>2. HtmlAfterWhole'
      BY <1>2, <1>8, <1>10 DEF HtmlAfterWhole
    <2>3. Len(got'.brw) = sent
      <3>1. Len(Units(0, sent)) = sent
        BY <1>5, UnitsFacts
      <3> QED
        BY <1>11, <3>1
    <2>4. AnswerComplete'
      BY <1>2, <1>8, <2>1, <2>3 DEF AnswerComplete
    <2> QED
      BY <1>12, <1>14, <2>1, <2>2, <2>4, LastOp
  <1> QED
    BY <1>15, <1>16

\* The connection is kept for another request.
LEMMA KeepConnectionStep == ConnInv /\ KeepConnection => ConnInv'
  <1> SUFFICES ASSUME ConnInv, KeepConnection PROVE ConnInv'
    OBVIOUS
  <1>1. ops = {"html_write"} /\ ConnType
    BY PlainOps, Alone DEF KeepConnection, Completes
  <1>2. /\ stat' = NoStat /\ req' = NoRequest /\ resp' = NoResponse /\ raw' = <<>>
        /\ last_chunk' = FALSE /\ astray' = FALSE /\ buf' = Empty /\ got' = Empty
        /\ UNCHANGED <<proxy_closed, failed>>
    BY DEF KeepConnection
  <1>3. ops' = {"brw_headers"}
    BY <1>1 DEF KeepConnection, Started
  <1>4. Units(0, 0) = <<>>
    BY UnitsFacts
  <1>5. NoResponse \in ResponseType /\ NoStat \in StatType /\ NoResponse.contentlen = -1
    BY DEF NoResponse, ResponseType, NoStat, StatType
  <1>6. Empty \in [brw : Seq(Nat), srv : Seq(Nat)] /\ <<>> \in Seq(Nat) /\ <<>> = Units(0, Len(<<>>))
    BY <1>4 DEF Empty
  <1>7. ConnType'
    BY <1>1, <1>2, <1>5, <1>6 DEF ConnType, Tracked, NoStat
  <1>8. Received'
    BY <1>2, <1>4 DEF Received, NoStat, Empty
  <1>9. Stage("brw_headers")'
    BY <1>2 DEF Stage, Posting, Answering, NoStat, BeforeResponse, Tunnel
  <1> QED
    BY <1>3, <1>7, <1>8, <1>9, PlainOps, NextOp DEF BeforeResponse

\* Every step of a connection preserves the invariant.
LEMMA NextConnInv == ConnInv /\ [Next]_vars => ConnInv'
  <1> SUFFICES ASSUME ConnInv, [Next]_vars PROVE ConnInv'
    OBVIOUS
  <1>1. CASE \/ ReadHeadersPart \/ WebPostFails
             \/ \E x \in 0 .. BUFFER_SIZE : ServerReadHeadersPart(x)
             \/ \E r \in Requests, k \in 0 .. BUFFER_SIZE - 1 : ReadHeaders(r, k)
             \/ \E k \in Amount : ReadWebPost(k)
    BY <1>1, PartStep, ServerPartStep, WebPostFailsStep, ReadHeadersStep, ReadWebPostStep
  <1>2. CASE \/ \E n \in 1 .. MaxEndpoints : Resolve(n)
             \/ ResolveFails \/ Connect \/ ConnectFails
    BY <1>2, ResolveStep, ResolveFailsStep, ConnectStep, ConnectFailsStep
  <1>3. CASE \/ ServerWrite \/ ServerWritePostdata
             \/ \E k \in Amount : BrowserReadPostdata(k)
    BY <1>3, ServerWriteStep, ServerWritePostdataStep, BrowserReadPostdataStep
  <1>4. CASE \/ ServerBadHeaders \/ BrowserStartWrite \/ BrowserWrite
             \/ \E r, q \in Responses, k, x \in 0 .. BUFFER_SIZE - 1 : ServerReadHeaders(r, q, k, x)
    BY <1>4, ServerBadHeadersStep, ServerReadHeadersStep, BrowserStartWriteStep, BrowserWriteStep
  <1>5. CASE \/ \E k, x \in 0 .. BUFFER_SIZE : ServerReadBody(k, x)
             \/ ServerBodyEof \/ BrowserWriteHtml \/ KeepConnection
    BY <1>5, ServerReadBodyStep, ServerBodyEofStep, BrowserWriteHtmlStep, KeepConnectionStep
  <1>6. CASE \/ SslStartReading \/ SslServerWrite \/ SslBrowserWrite
             \/ \E k \in Amount : SslBrowserRead(k) \/ SslServerRead(k)
    BY <1>6, SslStartReadingStep, SslBrowserReadStep, SslServerWriteStep, SslServerReadStep,
       SslBrowserWriteStep
  <1>7. CASE \E op \in ops : Fails(op)
    BY <1>7, FailsStep
  <1>8. CASE UNCHANGED vars
    <2>1. UNCHANGED <<ops, req, resp, raw, last_chunk, astray, stat, buf, proxy_closed, got, failed>>
      BY <1>8 DEF vars
    <2>2. ConnType' /\ OpsShape' /\ Received' /\ HtmlAfterWhole' /\ AnswerComplete'
      BY <2>1 DEF ConnInv, ConnType, OpsShape, Received, HtmlAfterWhole, AnswerComplete,
             Tracked
    <2>3. \A o \in ops' : Stage(o)'
      BY <2>1 DEF ConnInv, Stage, Posting, Answering
    <2> QED
      BY <2>2, <2>3 DEF ConnInv
  <1> QED
    BY <1>1, <1>2, <1>3, <1>4, <1>5, <1>6, <1>7, <1>8 DEF Next, Handler

\* The invariant holds throughout a connection.
LEMMA ConnectionInvariant == Spec => []ConnInv
  <1> QED
    BY InitConnInv, NextConnInv, PTL DEF Spec

\* Whatever the sizes of the buffers, of the reads and of the contents, and in
\* whatever order the two directions of a tunnel go on: each side gets the
\* units of the other in order, none lost and none twice.
THEOREM ConnectionRelayedInOrder == Spec => []RelayedInOrder
  <1>1. ConnInv => RelayedInOrder
    <2> SUFFICES ASSUME ConnInv PROVE RelayedInOrder
      OBVIOUS
    <2>1. stat.post_sent \in Nat /\ stat.body_sent \in Nat
      BY DEF ConnInv, ConnType, StatType
    <2>2. \A n \in Nat : \A i \in DOMAIN Units(0, n) : Units(0, n)[i] = i
      BY DEF Units
    <2> QED
      BY <2>1, <2>2 DEF ConnInv, Received, RelayedInOrder
  <1> QED
    BY <1>1, ConnectionInvariant, PTL

\* http_browser_write and http_server_read_body send an HTML page only when its
\* contents are all there, or the server has closed the connection, or a read
\* has lost the place in the header or the chunks.
THEOREM ConnectionHtmlAfterWhole == Spec => []HtmlAfterWhole
  <1>1. ConnInv => HtmlAfterWhole
    BY DEF ConnInv
  <1> QED
    BY <1>1, ConnectionInvariant, PTL

\* A connection on which nothing failed and no read lost the place ends with the
\* whole answer, however it was delimited: a length, chunks or the end of the
\* stream.
THEOREM ConnectionAnswerComplete == Spec => []AnswerComplete
  <1>1. ConnInv => AnswerComplete
    BY DEF ConnInv
  <1> QED
    BY <1>1, ConnectionInvariant, PTL
=============================================================================
