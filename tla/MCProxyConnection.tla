------------------------- MODULE MCProxyConnection -------------------------
(* Instance of ProxyConnection: bodies, pages and posted data that take more  *)
(* than one buffer, every kind of request and of response.                    *)
EXTENDS ProxyConnection

MCRequests ==
    [action : {"bad", "deny", "https"}, contentlen : {0}]
      \cup [action : {"web", "http"}, contentlen : {0, 3}]

Response(total, contentlen, chunked, is_html, not_modified, keep) ==
    [total |-> total, contentlen |-> contentlen, chunked |-> chunked,
     is_html |-> is_html, not_modified |-> not_modified, keep |-> keep]

MCResponses ==
    {Response(n, -1, c, h, FALSE, FALSE) : n \in {0, 5}, c, h \in BOOLEAN}
      \cup {Response(n, n, FALSE, h, FALSE, FALSE) : n \in {0, 5}, h \in BOOLEAN}
      \cup {Response(0, 0, FALSE, FALSE, TRUE, FALSE), Response(3, -1, FALSE, TRUE, FALSE, TRUE)}
=============================================================================
