---------------------------- MODULE MCHttpContext ----------------------------
(***************************************************************************)
(* Streams of up to three requests: a GET, of either version or one that   *)
(* closes the connection, a form, an upload, and a malformed one; bodies   *)
(* with and without CRLF, and some that hold a request line.               *)
(***************************************************************************)
EXTENDS HttpConnection

Line(m, v, up) == [kind |-> "line", method |-> m, version |-> v, upload |-> up,
                   dash |-> FALSE, crlf |-> TRUE]
Header(f, v) == [kind |-> "header", field |-> f, value |-> v, dash |-> FALSE, crlf |-> TRUE]
Other(kind) == [kind |-> kind, dash |-> FALSE, crlf |-> TRUE]
Boundary == [kind |-> "text", dash |-> TRUE, crlf |-> TRUE]
Rest == [kind |-> "text", dash |-> FALSE, crlf |-> FALSE]

Get == <<Line("GET", "kHttp11", FALSE), Header("Connection", "Keep-Alive"), Other("blank")>>
GetClose == <<Line("GET", "kHttp11", FALSE), Header("Connection", "close"), Other("blank")>>
GetOld == <<Line("GET", "kHttp10", FALSE), Other("blank")>>
Bad == <<Other("bad"), Header("Connection", "Keep-Alive"), Other("blank")>>
Post == <<Line("POST", "kHttp11", FALSE), Header("Content-Type", "other"), Other("blank")>>
Upload ==
  <<Line("POST", "kHttp11", TRUE), Header("Content-Type", "other"), Other("blank"),
    Boundary, Header("Content-Disposition", "other"), Header("Content-Type", "other"),
    Other("blank")>>

\* What follows a body that has no CRLF is the end of its last line.
Joined(body, next) == Append(body, Other("text")) \o Tail(next)

MCStreams ==
  {Get \o Get \o GetOld, Get \o GetClose \o Get, Get \o Bad \o Get, GetOld \o Get,
   Post \o <<Rest>>, Joined(Get \o Post, Get), Post \o Get,
   Upload \o <<Other("text"), Rest>>, Upload \o Get \o <<Rest>>, Get \o Upload \o <<Rest>>}

\* Well-formed requests only.
WellFormed == {Get \o Get, Post \o <<Rest>>}
=============================================================================
