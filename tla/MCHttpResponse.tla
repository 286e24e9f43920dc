--------------------------- MODULE MCHttpResponse ---------------------------
(* Answers of every kind, with headers of one and of two lines and chunks    *)
(* longer and shorter than the reads; data that reads like a chunk header.   *)
EXTENDS HttpResponse

Answer(chunked, len, html, same) ==
    [chunked |-> chunked, contentlen |-> len, is_html |-> html, not_modified |-> same]
Part(size, data) == [size |-> size, data |-> data]
Stream(answer, header, parts) == [answer |-> answer, header |-> header, parts |-> parts]

TwoLines == <<Other, Other, CR, LF, 1, Other, CR, LF, CR, LF>>
OneLine == <<Other, Other, Other, LF, LF>>

MCStreams ==
    {Stream(Answer(TRUE, -1, TRUE, FALSE), OneLine,
            <<Part(<<0, 2>>, <<1, Other>>), Part(<<5>>, <<Other, 0, 2, 3, Other>>)>>),
     Stream(Answer(TRUE, -1, FALSE, FALSE), OneLine,
            <<Part(<<1>>, <<3>>), Part(<<6>>, <<Other, 0, CR, LF, CR, LF>>)>>),
     Stream(Answer(FALSE, 4, TRUE, FALSE), TwoLines, <<Part(<<4>>, <<1, Other, CR, LF>>)>>),
     Stream(Answer(FALSE, 3, FALSE, FALSE), TwoLines, <<Part(<<3>>, <<Other, 2, 3>>)>>),
     Stream(Answer(FALSE, -1, FALSE, FALSE), OneLine, <<Part(<<2>>, <<1, 2>>)>>),
     Stream(Answer(FALSE, 0, TRUE, FALSE), OneLine, <<>>),
     Stream(Answer(FALSE, 0, FALSE, TRUE), TwoLines, <<>>)}
=============================================================================
