----------------------------- MODULE HttpContext -----------------------------
(***************************************************************************)
(* One HTTP connection of the file server: the parser                      *)
(* (src/http/HttpContext.cc) fed by FileServer::onMessage                  *)
(* (src/http/FileServer.cc) with whatever part of the client's bytes has   *)
(* arrived.  All of it runs on the connection's I/O loop.                  *)
(*                                                                         *)
(* The bytes are a sequence of lines, each up to and with its CRLF; what   *)
(* the client sends behind the last CRLF is a token without one.  A body   *)
(* is lines like any others, and if it has no CRLF at its end the next     *)
(* request line is the end of its last line.  The bytes arrive in halves   *)
(* of tokens, so that a message can end inside a line.  What the request   *)
(* asks for is in module FileServer.                                       *)
(***************************************************************************)
EXTENDS Integers, Sequences

CONSTANT Streams   \* the token sequences a client may send

\* HttpRequest::setMethod knows these; any other makes the line malformed.
Methods == {"GET", "POST", "HEAD", "PUT", "DELETE"}
Versions == {"kHttp10", "kHttp11"}

\* Some of the header fields; the map treats them all alike.
Fields == {"Connection", "Content-Type", "Content-Disposition"}
Values == {"close", "Keep-Alive", "other"}

\* A request line (upload: of a path that begins with 'u'), a line with a colon,
\* or one that is neither; dash: it starts with '-'.  What a client means by a
\* line makes no difference to the parser: "bad" is a malformed request line,
\* "blank" the end of a head, "text" a line of a body.
Tokens ==
  [kind : {"line"}, method : Methods, version : Versions, upload : BOOLEAN,
   dash : {FALSE}, crlf : {TRUE}]
    \union [kind : {"header"}, field : Fields, value : Values, dash : BOOLEAN, crlf : BOOLEAN]
    \union [kind : {"bad", "blank", "text"}, dash : BOOLEAN, crlf : BOOLEAN]

ASSUME StreamsAssumption ==
  \A s \in Streams : s \in Seq(Tokens) /\ \A i \in 1 .. Len(s) - 1 : s[i].crlf

VARIABLES
  stream,    \* what the client sends
  arrived,   \* half tokens that have been read into inputBuffer_
  read,      \* tokens retrieved from inputBuffer_
  torn,      \* the first half of the next token has been thrown away
  ctx,       \* state_ of the HttpContext
  request,   \* request_; line is the place of the request line in the stream,
             \* and headers[f] of the line with the value of f, 0 if there is none
  mString,   \* request_.m_string: from where it was copied, and what was there
  ok,        \* the local variable of parseRequest
  pc,        \* "idle", "parse", "reply" (back in onMessage), or "crashed"
  conn,      \* state_ of the TcpConnection
  replies,   \* history: the replies sent, a request's line or BadRequest
  handled,   \* history: the requests given to onRequest
  whole      \* history: the request whose head was in the buffer, complete and
             \* at its front, when onMessage was called; 0 if none

httpVars == <<stream, arrived, read, torn, ctx, request, mString, ok, pc, conn,
              replies, handled, whole>>

BadRequest == 0
NoHeaders == [f \in Fields |-> 0]
EmptyRequest ==
  [line |-> 0, method |-> "kInvalid", version |-> "kUnknown", headers |-> NoHeaders]
NoBody == [from |-> 0, to |-> 0]

Arrived(i) == 2 * i <= arrived

\* Buffer::findCRLF finds the end of the next token.
FindsCRLF == read < Len(stream) /\ Arrived(read + 1) /\ stream[read + 1].crlf

\* The lines behind l up to e: headers, and one that is not and ends them.
IsHead(l, e) ==
  /\ stream[e].kind # "header"
  /\ \A h \in l + 1 .. e - 1 : stream[h].kind = "header"

WholeAtFront(have) ==
  IF /\ ctx = "kExpectRequestLine" /\ read < Len(stream) /\ ~torn
     /\ stream[read + 1].kind = "line"
     /\ \E e \in read + 2 .. Len(stream) :
          IsHead(read + 1, e) /\ stream[e].crlf /\ 2 * e <= have
  THEN read + 1 ELSE 0

HttpInit ==
  /\ stream \in Streams
  /\ arrived = 0 /\ read = 0 /\ torn = FALSE
  /\ ctx = "kExpectRequestLine" /\ request = EmptyRequest /\ mString = NoBody
  /\ ok = FALSE /\ pc = "idle" /\ conn = "kConnected"
  /\ replies = <<>> /\ handled = <<>> /\ whole = 0

\* TcpConnection::handleRead gets more bytes and calls onMessage, which calls
\* parseRequest.
OnMessage(n) ==
  /\ pc = "idle" /\ arrived + n <= 2 * Len(stream)
  /\ arrived' = arrived + n
  /\ whole' = WholeAtFront(arrived + n)
  /\ ok' = FALSE /\ pc' = "parse"
  /\ UNCHANGED <<stream, read, torn, ctx, request, mString, conn, replies,
                 handled>>

(***************************************************************************)
(* One iteration of the loop in parseRequest for each state.  In place of  *)
(* a request line there may be what a request has left of its body.        *)
(***************************************************************************)
NeedsMore ==
  /\ pc = "parse" /\ ctx \in {"kExpectRequestLine", "kExpectHeaders"}
  /\ ~FindsCRLF
  /\ pc' = "reply"
  /\ UNCHANGED <<stream, arrived, read, torn, ctx, request, mString, ok, conn,
                 replies, handled, whole>>

IsRequestLine(i) == ~torn /\ stream[i].kind = "line"

WithLine(r, i) ==
  [r EXCEPT !.line = i, !.method = stream[i].method, !.version = stream[i].version]

\* Mutant: the loop ends after the request line.
ParseRequestLineStops ==
  LET i == read + 1 IN
  /\ pc = "parse" /\ ctx = "kExpectRequestLine" /\ FindsCRLF
  /\ pc' = "reply"
  /\ IF IsRequestLine(i)
       THEN /\ request' = WithLine(request, i)
            /\ ok' = TRUE /\ read' = i /\ ctx' = "kExpectHeaders"
       ELSE ok' = FALSE /\ UNCHANGED <<read, ctx, request>>
  /\ UNCHANGED <<stream, arrived, torn, mString, conn, replies, handled, whole>>

ParseRequestLine ==
  LET i == read + 1 IN
  /\ pc = "parse" /\ ctx = "kExpectRequestLine" /\ FindsCRLF
  /\ IF IsRequestLine(i)
       THEN /\ request' = WithLine(request, i)
            /\ ok' = TRUE /\ read' = i /\ ctx' = "kExpectHeaders"
            /\ UNCHANGED pc
       ELSE /\ ok' = FALSE /\ pc' = "reply"
            /\ UNCHANGED <<read, ctx, request>>
  /\ UNCHANGED <<stream, arrived, torn, mString, conn, replies, handled, whole>>

\* addHeader: a field that is there gets the new value.
WithHeader(r, i) == [r EXCEPT !.headers[stream[i].field] = i]

ParseHeaders ==
  LET i == read + 1 IN
  /\ pc = "parse" /\ ctx = "kExpectHeaders" /\ FindsCRLF
  /\ IF stream[i].kind = "header"
       THEN request' = WithHeader(request, i) /\ UNCHANGED ctx
       ELSE ctx' = "kExpectBody" /\ UNCHANGED request
  /\ read' = i
  /\ UNCHANGED <<stream, arrived, torn, mString, ok, pc, conn, replies, handled,
                 whole>>

\* addcontent copies Content-Length bytes, arrived or not, and they stay in the
\* buffer.
AddContent == mString' = [from |-> read', to |-> arrived]

GotAll ==
  /\ ctx' = "kGotAll" /\ pc' = "reply"
  /\ UNCHANGED <<stream, arrived, ok, conn, replies, handled, whole>>

\* A POST body that starts with '-': at least its first byte is there.
AtBoundary ==
  /\ read < Len(stream) /\ stream[read + 1].dash
  /\ arrived > 2 * read

ParseBody ==
  /\ pc = "parse" /\ ctx = "kExpectBody"
  /\ request.method = "POST" => ~AtBoundary
  /\ UNCHANGED <<read, torn, request>>
  /\ IF request.method = "POST" THEN AddContent ELSE UNCHANGED mString
  /\ GotAll

\* The lines of the part's own headers that are there, and the line behind them.
PartLines ==
  {i \in (read + 2) .. Len(stream) :
     Arrived(i) /\ stream[i].crlf /\ \A j \in (read + 2) .. i : stream[j].kind = "header"}
PartEnd ==
  {i \in (read + 2) .. Len(stream) :
     Arrived(i) /\ stream[i].crlf /\ IsHead(read + 1, i)}

\* They go into the request's own map.
WithPart(r) ==
  [r EXCEPT !.headers = [f \in Fields |->
     LET given == {i \in PartLines : stream[i].field = f}
     IN IF given = {} THEN r.headers[f]
        ELSE CHOOSE i \in given : \A j \in given : j <= i]]

ParsePart ==
  /\ pc = "parse" /\ ctx = "kExpectBody" /\ request.method = "POST" /\ AtBoundary
  /\ PartEnd # {}
  /\ read' \in PartEnd /\ UNCHANGED torn
  /\ request' = WithPart(request)
  /\ AddContent
  /\ GotAll

\* The part is cut short.  findCRLF gives a null pointer that the do loop uses
\* as the end of a line.  As built (libstdc++ of GCC 4.8 to 14), std::find on
\* that range returns its end at once, which reads as "no colon", and
\* retrieveUntil(0 + 2) empties the buffer.
ParsePartCut ==
  /\ pc = "parse" /\ ctx = "kExpectBody" /\ request.method = "POST" /\ AtBoundary
  /\ PartEnd = {}
  /\ read' = arrived \div 2 /\ torn' = (arrived % 2 = 1)
  /\ request' = WithPart(request)
  /\ AddContent
  /\ GotAll

(***************************************************************************)
(* The rest of onMessage.  send() drops everything unless the connection   *)
(* is kConnected, and shutdown() leaves it kDisconnecting.                 *)
(***************************************************************************)
\* Mutant: send does not look at the state.
SendAlways(c, sent, r) == Append(sent, r)

SendIfConnected(c, sent, r) == IF c = "kConnected" THEN Append(sent, r) ELSE sent

\* Mutant: reset() keeps the headers.
ResetKeepsHeaders ==
  /\ ctx' = "kExpectRequestLine"
  /\ request' = [EmptyRequest EXCEPT !.headers = request.headers]
  /\ mString' = mString

\* HttpContext::reset: swap leaves m_string alone.
Reset ==
  /\ ctx' = "kExpectRequestLine"
  /\ request' = EmptyRequest
  /\ mString' = mString

Answered(r) == Append(handled, [line |-> r.line, headers |-> r.headers])

GetHeader(r, f) == IF r.headers[f] = 0 THEN "" ELSE stream[r.headers[f]].value

Closes(r) ==
  \/ GetHeader(r, "Connection") = "close"
  \/ r.version = "kHttp10" /\ GetHeader(r, "Connection") # "Keep-Alive"

\* An upload without a Content-Disposition, or before it has arrived.
LacksName(r) == stream[r.line].upload /\ r.headers["Content-Disposition"] = 0

Reply ==
  LET conn1 == IF ok THEN conn ELSE "kDisconnecting"
      sent1 == IF ok THEN replies ELSE SendIfConnected(conn, replies, BadRequest)
  IN
  /\ pc = "reply" /\ pc' = "idle"
  /\ ctx = "kGotAll" => ~LacksName(request)
  /\ IF ctx = "kGotAll"
       THEN /\ handled' = Answered(request)
            /\ replies' = SendIfConnected(conn1, sent1, request.line)
            /\ conn' = IF Closes(request) THEN "kDisconnecting" ELSE conn1
            /\ Reset
       ELSE /\ replies' = sent1 /\ conn' = conn1
            /\ UNCHANGED <<handled, ctx, request, mString>>
  /\ UNCHANGED <<stream, arrived, read, torn, ok, whole>>

\* setResponseBody: substr(-1 + 10) of the empty string throws, and nothing
\* catches it.
UploadThrows ==
  /\ pc = "reply" /\ ctx = "kGotAll" /\ LacksName(request)
  /\ pc' = "crashed"
  /\ handled' = Answered(request)
  /\ replies' = IF ok THEN replies ELSE SendIfConnected(conn, replies, BadRequest)
  /\ conn' = IF ok THEN conn ELSE "kDisconnecting"
  /\ UNCHANGED <<stream, arrived, read, torn, ctx, request, mString, ok, whole>>

Handler ==
  \/ NeedsMore \/ ParseRequestLine \/ ParseHeaders \/ ParseBody
  \/ ParsePart \/ ParsePartCut \/ Reply \/ UploadThrows

HttpNext == Handler \/ \E n \in 1 .. 2 * Len(stream) : OnMessage(n)

HttpSpec == HttpInit /\ [][HttpNext]_httpVars

-----------------------------------------------------------------------------
(***************************************************************************)
(* Properties.                                                             *)
(***************************************************************************)

\* v is where the last of the lines in S that name the field f is; 0 if none does.
LastOf(v, f, S) ==
  \/ v = 0 /\ \A h \in S : stream[h].field # f
  \/ v \in S /\ stream[v].field = f /\ \A h \in S : h > v => stream[h].field # f

HeadEnd(l) == CHOOSE e \in l + 1 .. Len(stream) : IsHead(l, e)

\* A POST whose body starts with '-'.
HasPart(l) ==
  /\ stream[l].method = "POST"
  /\ HeadEnd(l) < Len(stream) /\ stream[HeadEnd(l) + 1].dash

\* The request at line l: the headers are those of the lines that follow, up to
\* the first without a colon, and of any that the part of an upload begins with;
\* the last of them with the same field counts.
Intact(l, headers) ==
  /\ l \in DOMAIN stream /\ stream[l].kind = "line"
  /\ \E e \in l + 1 .. Len(stream) :
       /\ IsHead(l, e)
       /\ \E p \in e .. Len(stream) :
            /\ p > e => HasPart(l) /\ \A h \in e + 2 .. p : stream[h].kind = "header"
            /\ \A f \in Fields :
                 LastOf(headers[f], f, (l + 1 .. e - 1) \union (e + 2 .. p))

\* The line on which a request begins, if the one before began at k.
NextAfter(k, l) == IF HasPart(k) THEN l > HeadEnd(k) ELSE l = HeadEnd(k) + 1

\* HttpContext.cc:57-160, HttpRequest.h:108-124, FileServer.cc:178-182: however
\* the bytes are cut into messages, and whatever lines the bodies hold, each
\* request that onRequest gets is a request line with exactly the headers that
\* follow it, none of another request's; the first is on the first line, and each
\* next one on the line behind the head of the last.  Only an upload may take
\* more away, and the headers of its part replace the request's.
RequestsIntact ==
  \A i \in DOMAIN handled :
    /\ Intact(handled[i].line, handled[i].headers)
    /\ IF i = 1 THEN handled[i].line = 1
                ELSE NextAfter(handled[i - 1].line, handled[i].line)

\* FileServer.cc:173-182, 214-228: the replies answer the requests in order;
\* nothing is sent after a reply that closes the connection; and a request is
\* carried out without a reply only on a connection that is being closed, or
\* when it is the one that ends the process.
RepliesFollowRequests ==
  /\ \A i \in DOMAIN replies :
       \/ i <= Len(handled) /\ replies[i] = handled[i].line
       \/ i = Len(replies) /\ replies[i] = BadRequest
  /\ Len(replies) < Len(handled) => conn = "kDisconnecting" \/ pc = "crashed"

\* HttpContext.cc:57-160: a request whose head is in the buffer as a whole when
\* onMessage is called, at the front of it, is handled.
WholeRequestServed ==
  \A l \in UNION {DOMAIN s : s \in Streams} :
    (whole = l /\ pc = "parse") ~> \E i \in DOMAIN handled : handled[i].line = l

\* HttpContext.cc:56, "return false if any error": the client is told of a bad
\* request only if it sent a malformed request line.
OnlyErrorsRejected ==
  (\E i \in DOMAIN replies : replies[i] = BadRequest)
    => \E i \in DOMAIN stream : stream[i].kind = "bad"

-----------------------------------------------------------------------------
(***************************************************************************)
(* The inductive invariants of FileServerProofs.                           *)
(***************************************************************************)
RequestData ==
  [line : Nat, method : Methods \union {"kInvalid"}, version : Versions \union {"kUnknown"},
   headers : [Fields -> Nat]]

HandledData == [line : Nat, headers : [Fields -> Nat]]

HttpTypeOK ==
  /\ stream \in Streams /\ arrived \in 0 .. 2 * Len(stream)
  /\ read \in 0 .. Len(stream) /\ torn \in BOOLEAN
  /\ ctx \in {"kExpectRequestLine", "kExpectHeaders", "kExpectBody", "kGotAll"}
  /\ request \in RequestData
  /\ ok \in BOOLEAN /\ pc \in {"idle", "parse", "reply", "crashed"}
  /\ conn \in {"kConnected", "kDisconnecting"}
  /\ replies \in Seq(Nat) /\ handled \in Seq(HandledData)

\* What has been consumed has arrived; a parser that has torn a token apart does
\* not get past a request line again.
ReadsArrived ==
  /\ 2 * read <= arrived
  /\ torn => 2 * read < arrived /\ ctx \in {"kExpectRequestLine", "kGotAll"}

\* request_ has its line, and the headers of the lines behind it up to j.
HeadedBy(j) ==
  LET l == request.line IN
  /\ l \in 1 .. j /\ stream[l].kind = "line" /\ request.method = stream[l].method
  /\ \A h \in l + 1 .. j : stream[h].kind = "header"
  /\ \A f \in Fields : LastOf(request.headers[f], f, l + 1 .. j)

\* A request may begin on line l, behind those that have been handled.
MayBegin(l) ==
  IF handled = <<>> THEN l = 1 ELSE NextAfter(handled[Len(handled)].line, l)

\* How far request_ is, in each state of the parser.
RequestSoFar ==
  /\ ctx = "kExpectRequestLine" => request.headers = NoHeaders
  /\ ctx = "kExpectHeaders" => HeadedBy(read)
  /\ ctx = "kExpectBody" => read > 0 /\ stream[read].kind # "header" /\ HeadedBy(read - 1)
  /\ ctx = "kGotAll" => Intact(request.line, request.headers)

\* Where the requests that are not handled yet begin.
BeginsBehind ==
  /\ ctx = "kExpectRequestLine" /\ ~torn => MayBegin(read + 1)
  /\ ctx # "kExpectRequestLine" /\ pc # "crashed" => MayBegin(request.line)
  /\ ctx = "kGotAll" /\ ~torn => NextAfter(request.line, read + 1)

\* As long as the connection is up, each request that was handled has its reply.
RepliedToAll ==
  conn = "kConnected" /\ pc # "crashed" =>
    /\ Len(replies) = Len(handled)
    /\ \A i \in DOMAIN replies : replies[i] = handled[i].line

HttpInv ==
  /\ HttpTypeOK /\ ReadsArrived /\ RequestSoFar /\ BeginsBehind /\ RequestsIntact
  /\ RepliedToAll /\ RepliesFollowRequests
=============================================================================
