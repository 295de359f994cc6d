--------------------------- MODULE Server_proofs ---------------------------
(***************************************************************************)
(* The two ends of a connection stay in step, for any number of clients    *)
(* and any texts.  The argument is about one connection at a time: a step  *)
(* of a client or of its thread leaves the others alone, and the end of    *)
(* the server takes the same from all of them.                             *)
(***************************************************************************)
EXTENDS Server, SequenceTheorems, TLAPS

\* A thread that has a request.
Working == {"yy_scan_string", "yyparse", "return", "interp", "header", "body"}

Question(q) == [type |-> "MSG_QUERY", query |-> q]
Bye == [type |-> "MSG_EXIT", query |-> NoQuery]

\* The header of an answer that has a text after it, and of one that has none.
WithBody(q) == Header("MSG_RESULT", q, 1)
Alone(q) == {Header("MSG_RESULT", q, 0), Header("MSG_ERROR", q, 0)}

\* The whole answers to a text, as they are on their way.
Answers(q) == {<<h>> : h \in Alone(q)} \cup {<<WithBody(q), Body(q)>>}

\* What the server's end of a connection looks like: u is what is on its way to the
\* thread, t where it is, r its request and p its response.
ServerEnd(u, t, r, p) ==
  /\ t \in Working \cup {"none", "backlog", "receive"}
  /\ u \in {<< >>, <<Bye>>} \cup {<<Question(q)>> : q \in Query}
  /\ t \notin {"backlog", "receive"} => u = << >>
  /\ t \in Working => r \in Query
  /\ t = "header" => p \in Alone(r) \cup {WithBody(r)}

\* What it looks like to a client that has asked q, has d to read, and waits for the
\* header.
HeaderEnd(u, d, q, t, r) ==
  \/ t \in {"backlog", "receive"} /\ u = <<Question(q)>> /\ d = << >>
  \/ t \in Working \ {"body"} /\ r = q /\ d = << >>
  \/ t = "body" /\ r = q /\ d = <<WithBody(q)>>
  \/ t = "receive" /\ u = << >> /\ d \in Answers(q)
  \/ t = "none" /\ d \in Answers(q) \cup {<< >>, <<WithBody(q)>>}

\* And to one that waits for the text.
BodyEnd(u, d, q, t, r) ==
  \/ t = "body" /\ r = q /\ d = << >>
  \/ t = "receive" /\ u = << >> /\ d = <<Body(q)>>
  \/ t = "none" /\ d \in {<< >>, <<Body(q)>>}

\* And to a client at any place a.
ClientEnd(u, d, a, q, t, r) ==
  \/ a = "off" /\ d = << >>
  \/ a = "prompt" /\ u = << >> /\ d = << >> /\ t \notin Working
  \/ a = "header" /\ q \in Query /\ HeaderEnd(u, d, q, t, r)
  \/ a = "body" /\ q \in Query /\ BodyEnd(u, d, q, t, r)

Conn(c) ==
  /\ ServerEnd(up[c], thread[c], request[c], response[c])
  /\ ClientEnd(up[c], down[c], at[c], asked[c], thread[c], request[c])

Requests == [type : {"MSG_QUERY", "MSG_EXIT"}, query : Query \cup {NoQuery}]

\* The variables are functions of the client.
Types ==
  /\ up \in [Client -> Seq(Requests)]
  /\ down \in [Client -> Seq(Message)]
  /\ at \in [Client -> {"off", "prompt", "header", "body"}]
  /\ asked \in [Client -> Query \cup {NoQuery}]
  /\ thread \in [Client -> Working \cup {"none", "backlog", "receive"}]
  /\ request \in [Client -> Query \cup {NoQuery}]
  /\ tree \in [Client -> Tree]
  /\ response \in [Client -> Message]

\* What all threads share.
Shared ==
  /\ server \in {"up", "stopped", "killed"}
  /\ sem \in {"absent", "posted", "taken"}
  /\ server = "up" => sem # "absent"
  /\ parse_tree \in Tree
  /\ raced \subseteq Parsing

IInv == Types /\ Shared /\ \A c \in Client : Conn(c)

-----------------------------------------------------------------------------
(* Queues and messages.                                                    *)

\* Queues of one and of two messages.
LEMMA Queues ==
  ASSUME NEW x, NEW y
  PROVE  /\ <<x>> # << >> /\ Head(<<x>>) = x /\ Tail(<<x>>) = << >> /\ Append(<< >>, x) = <<x>>
         /\ <<x, y>> # << >> /\ Head(<<x, y>>) = x /\ Tail(<<x, y>>) = <<y>>
         /\ Append(<<x>>, y) = <<x, y>>
<1>. DEFINE s == Append(<<x>>, y)
<1>1. s \in Seq({x, y}) /\ Len(s) = 2 /\ s[1] = x /\ s[2] = y
  OBVIOUS
<1>2. /\ <<x, y>> \in Seq({x, y}) /\ Len(<<x, y>>) = 2
      /\ <<x, y>>[1] = x /\ <<x, y>>[2] = y
  OBVIOUS
<1>. HIDE DEF s
<1>3. \A i \in 1..Len(s) : s[i] = <<x, y>>[i]
  BY <1>1, <1>2
<1>4. s = <<x, y>>
  BY <1>1, <1>2, <1>3, SeqEqual
<1>. QED  BY <1>4 DEF s

\* What distinguishes the messages, and whom they answer.
LEMMA Messages ==
  ASSUME NEW q
  PROVE  /\ Question(q).type = "MSG_QUERY" /\ Question(q).query = q /\ Bye.type = "MSG_EXIT"
         /\ WithBody(q).type = "MSG_RESULT" /\ WithBody(q).result_length = 1
         /\ WithBody(q).part = "header" /\ WithBody(q).to = q
         /\ Body(q).part = "body" /\ Body(q).to = q
         /\ \A h \in Alone(q) : h.part = "header" /\ h.to = q /\ h.result_length = 0
BY DEF Question, Bye, WithBody, Header, Body, Alone

LEMMA MessageTypes ==
  ASSUME NEW q \in Query \cup {NoQuery}
  PROVE  /\ Question(q) \in Requests /\ Bye \in Requests
         /\ WithBody(q) \in Message /\ Body(q) \in Message /\ NoResponse \in Message
         /\ Alone(q) \subseteq Message
BY DEF Question, Bye, Requests, WithBody, Header, Body, NoResponse, Alone, Message

\* An answer is a header alone, or a header and a text.
LEMMA AnswerForms ==
  ASSUME NEW q
  PROVE  \A d : d \in Answers(q) <=> \/ \E h \in Alone(q) : d = <<h>>
                                     \/ d = <<WithBody(q), Body(q)>>
BY DEF Answers

-----------------------------------------------------------------------------
(* One connection: what each operation makes of its two ends.              *)

LEMMA ConnectEnds ==
  ASSUME NEW u, NEW d, NEW q, NEW r, NEW p, NEW q2,
         ServerEnd(u, "none", r, p), ClientEnd(u, d, "off", q, "none", r)
  PROVE  ServerEnd(u, "backlog", r, p) /\ ClientEnd(u, d, "prompt", q2, "backlog", r)
BY DEF ServerEnd, ClientEnd, Working

LEMMA AskEnds ==
  ASSUME NEW u, NEW d, NEW q, NEW t, NEW r, NEW p, NEW q2 \in Query, NEW u2,
         ServerEnd(u, t, r, p), ClientEnd(u, d, "prompt", q, t, r),
         u2 = IF t = "none" THEN u ELSE Append(u, Question(q2))
  PROVE  ServerEnd(u2, t, r, p) /\ ClientEnd(u2, d, "header", q2, t, r)
<1>1. u = << >> /\ d = << >> /\ t \in {"none", "backlog", "receive"}
  BY DEF ServerEnd, ClientEnd, HeaderEnd, BodyEnd
<1>2. u2 = IF t = "none" THEN << >> ELSE <<Question(q2)>>
  BY <1>1, Queues
<1>. QED  BY <1>1, <1>2 DEF ServerEnd, ClientEnd, HeaderEnd, BodyEnd, Working

LEMMA ExitEnds ==
  ASSUME NEW u, NEW d, NEW q, NEW t, NEW r, NEW p, NEW u2,
         ServerEnd(u, t, r, p), ClientEnd(u, d, "prompt", q, t, r),
         u2 = IF t = "none" THEN u ELSE Append(u, Bye)
  PROVE  ServerEnd(u2, t, r, p)
<1>1. u = << >> /\ t \in {"none", "backlog", "receive"}
  BY DEF ServerEnd, ClientEnd, HeaderEnd, BodyEnd
<1>2. u2 = IF t = "none" THEN << >> ELSE <<Bye>>
  BY <1>1, Queues
<1>. QED  BY <1>1, <1>2 DEF ServerEnd, Working

LEMMA ReadHeaderEnds ==
  ASSUME NEW u, NEW d, NEW q, NEW t, NEW r, NEW p, NEW a2, NEW q2,
         ServerEnd(u, t, r, p), ClientEnd(u, d, "header", q, t, r), d # << >>,
         a2 = IF Head(d).type = "MSG_ERROR" \/ Head(d).result_length = 0 THEN "prompt" ELSE "body",
         a2 = "body" => q2 = q
  PROVE  ClientEnd(u, Tail(d), a2, q2, t, r)
<1>1. q \in Query /\ HeaderEnd(u, d, q, t, r) /\ (t = "none" => u = << >>)
  BY DEF ServerEnd, ClientEnd
<1>2. CASE d = <<WithBody(q)>>
  <2>1. Head(d) = WithBody(q) /\ Tail(d) = << >> /\ a2 = "body"
    BY <1>2, Queues, Messages
  <2>2. t = "none" \/ (t = "body" /\ r = q)
    <3>1. d \notin Answers(q)
      <4>1. <<WithBody(q)>> # <<WithBody(q), Body(q)>>
        BY Queues
      <4>2. ASSUME NEW h \in Alone(q) PROVE <<WithBody(q)>> # <<h>>
        <5>1. WithBody(q) # h
          BY Messages
        <5>. QED  BY <5>1, Queues
      <4>. QED  BY <1>2, <4>1, <4>2, AnswerForms
    <3>. QED  BY <1>1, <3>1 DEF HeaderEnd
  <2>. QED  BY <1>1, <2>1, <2>2 DEF ClientEnd, HeaderEnd, BodyEnd
<1>3. CASE d \in Answers(q)
  <2>1. t = "none" \/ (t = "receive" /\ u = << >>)
    <3>1. d # << >> /\ d # <<WithBody(q)>>
      <4>1. ASSUME NEW h \in Alone(q) PROVE <<h>> # <<WithBody(q)>>
        <5>1. WithBody(q) # h
          BY Messages
        <5>. QED  BY <5>1, Queues
      <4>2. <<WithBody(q), Body(q)>> # <<WithBody(q)>>
        BY Queues
      <4>. QED  BY <1>3, <4>1, <4>2, AnswerForms
    <3>. QED  BY <1>1, <3>1 DEF HeaderEnd
  <2>2. u = << >> /\ t \notin Working
    BY <1>1, <2>1 DEF Working
  <2>3. CASE d = <<WithBody(q), Body(q)>>
    <3>1. Tail(d) = <<Body(q)>> /\ a2 = "body"
      BY <2>3, Queues, Messages
    <3>. QED  BY <1>1, <2>1, <3>1 DEF ClientEnd, HeaderEnd, BodyEnd
  <2>4. ASSUME NEW h \in Alone(q), d = <<h>>
        PROVE  ClientEnd(u, Tail(d), a2, q2, t, r)
    <3>1. Tail(d) = << >> /\ a2 = "prompt"
      BY <2>4, Queues, Messages
    <3>. QED  BY <2>2, <3>1 DEF ClientEnd, HeaderEnd, BodyEnd
  <2>. QED  BY <1>3, <2>3, <2>4, AnswerForms
<1>. QED  BY <1>2, <1>3 DEF ClientEnd, HeaderEnd, BodyEnd

LEMMA ReadBodyEnds ==
  ASSUME NEW u, NEW d, NEW q, NEW t, NEW r, NEW p, NEW q2,
         ServerEnd(u, t, r, p), ClientEnd(u, d, "body", q, t, r), d # << >>
  PROVE  ClientEnd(u, Tail(d), "prompt", q2, t, r)
<1>1. Tail(<<Body(q)>>) = << >>
  BY Queues
<1>. QED  BY <1>1 DEF ServerEnd, ClientEnd, HeaderEnd, BodyEnd, Working

LEMMA AcceptEnds ==
  ASSUME NEW u, NEW d, NEW a, NEW q, NEW r, NEW p, NEW t2 \in {"none", "receive"}, NEW u2,
         ServerEnd(u, "backlog", r, p), ClientEnd(u, d, a, q, "backlog", r),
         u2 = IF t2 = "none" THEN << >> ELSE u
  PROVE  ServerEnd(u2, t2, r, p) /\ ClientEnd(u2, d, a, q, t2, r)
<1>1. ServerEnd(u2, t2, r, p)
  BY DEF ServerEnd, Working
<1>2. ClientEnd(u2, d, a, q, t2, r)
  BY DEF ClientEnd, HeaderEnd, BodyEnd, Working
<1>. QED  BY <1>1, <1>2

LEMMA ReceiveEnds ==
  ASSUME NEW u, NEW d, NEW a, NEW q, NEW r, NEW p,
         ServerEnd(u, "receive", r, p), ClientEnd(u, d, a, q, "receive", r),
         u # << >>, Head(u).type = "MSG_QUERY"
  PROVE  LET r2 == Head(u).query
         IN  /\ Tail(u) = << >> /\ r2 \in Query
             /\ ServerEnd(Tail(u), "yy_scan_string", r2, p)
             /\ ClientEnd(Tail(u), d, a, q, "yy_scan_string", r2)
<1>1. PICK q1 \in Query : u = <<Question(q1)>>
  BY Queues, Messages DEF ServerEnd
<1>2. Tail(u) = << >> /\ Head(u).query = q1
  BY <1>1, Queues, Messages
<1>3. a \notin {"prompt", "body"}
  BY DEF ClientEnd, HeaderEnd, BodyEnd
<1>4. ASSUME a = "header" PROVE q = q1 /\ d = << >>
  <2>1. u = <<Question(q)>> /\ d = << >>
    BY <1>4 DEF ClientEnd, HeaderEnd, BodyEnd, Working
  <2>2. Question(q).query = Question(q1).query
    BY <1>1, <2>1, Queues
  <2>. QED  BY <2>1, <2>2, Messages
<1>5. ServerEnd(<< >>, "yy_scan_string", q1, p)
  BY DEF ServerEnd, Working
<1>6. ClientEnd(<< >>, d, a, q, "yy_scan_string", q1)
  BY <1>3, <1>4 DEF ClientEnd, HeaderEnd, BodyEnd, Working
<1>. QED  BY <1>2, <1>5, <1>6

LEMMA EndThreadEnds ==
  ASSUME NEW u, NEW d, NEW a, NEW q, NEW r, NEW p,
         ServerEnd(u, "receive", r, p), ClientEnd(u, d, a, q, "receive", r),
         IF u = << >> THEN a = "off" ELSE Head(u).type = "MSG_EXIT"
  PROVE  ServerEnd(<< >>, "none", r, p) /\ ClientEnd(<< >>, d, a, q, "none", r)
<1>1. u # <<Question(q)>>
  BY Queues, Messages
<1>2. a = "off"
  BY <1>1 DEF ClientEnd, HeaderEnd, BodyEnd, Working
<1>. QED  BY <1>2 DEF ServerEnd, ClientEnd, HeaderEnd, BodyEnd, Working

\* Before there is a response the thread goes from place to place.
Before == {"yy_scan_string", "yyparse", "return", "interp"}
After == {"yyparse", "return", "interp", "header"}

LEMMA WorkEnds ==
  ASSUME NEW u, NEW d, NEW a, NEW q, NEW r, NEW p,
         NEW t \in Before,
         NEW t2 \in After, NEW p2,
         ServerEnd(u, t, r, p), ClientEnd(u, d, a, q, t, r),
         t2 = "header" => p2 \in Alone(r) \cup {WithBody(r)}
  PROVE  ServerEnd(u, t2, r, p2) /\ ClientEnd(u, d, a, q, t2, r)
<1>1. ServerEnd(u, t2, r, p2)
  BY DEF ServerEnd, Working, Before, After
<1>2. ClientEnd(u, d, a, q, t2, r)
  BY DEF ClientEnd, HeaderEnd, BodyEnd, Working, Before, After
<1>. QED  BY <1>1, <1>2

LEMMA SendHeaderEnds ==
  ASSUME NEW u, NEW d, NEW a, NEW q, NEW r, NEW p, NEW d2, NEW t2, NEW r2, NEW p2,
         ServerEnd(u, "header", r, p), ClientEnd(u, d, a, q, "header", r),
         d2 = IF a = "off" THEN d ELSE Append(d, p),
         IF p.result_length > 0 THEN t2 = "body" /\ r2 = r ELSE t2 = "receive"
  PROVE  ServerEnd(u, t2, r2, p2) /\ ClientEnd(u, d2, a, q, t2, r2)
<1>1. u = << >> /\ r \in Query /\ p \in Alone(r) \cup {WithBody(r)}
  BY DEF ServerEnd, Working
<1>2. ServerEnd(u, t2, r2, p2)
  BY <1>1 DEF ServerEnd, Working
<1>. SUFFICES ClientEnd(u, d2, a, q, t2, r2)
  BY <1>2
<1>3. a \in {"off", "header"}
  BY DEF ClientEnd, HeaderEnd, BodyEnd, Working
<1>4. CASE a = "off"
  BY <1>4 DEF ClientEnd, HeaderEnd, BodyEnd
<1>5. CASE a = "header"
  <2>1. d = << >> /\ r = q /\ q \in Query
    BY <1>5 DEF ClientEnd, HeaderEnd, BodyEnd, Working
  <2>2. d2 = <<p>>
    BY <1>5, <2>1, Queues
  <2>3. CASE p = WithBody(q)
    <3>1. p.result_length > 0
      BY <2>3, Messages
    <3>. QED  BY <1>5, <2>1, <2>2, <2>3, <3>1 DEF ClientEnd, HeaderEnd, BodyEnd, Working
  <2>4. CASE p \in Alone(q)
    <3>1. p.result_length = 0
      BY <2>4, Messages
    <3>2. d2 \in Answers(q)
      BY <2>2, <2>4, AnswerForms
    <3>. QED  BY <1>1, <1>5, <2>1, <3>1, <3>2 DEF ClientEnd, HeaderEnd, BodyEnd, Working
  <2>. QED  BY <1>1, <2>1, <2>3, <2>4
<1>. QED  BY <1>3, <1>4, <1>5

LEMMA SendBodyEnds ==
  ASSUME NEW u, NEW d, NEW a, NEW q, NEW r, NEW p, NEW d2, NEW r2, NEW p2,
         ServerEnd(u, "body", r, p), ClientEnd(u, d, a, q, "body", r),
         d2 = IF a = "off" THEN d ELSE Append(d, Body(r))
  PROVE  ServerEnd(u, "receive", r2, p2) /\ ClientEnd(u, d2, a, q, "receive", r2)
<1>1. u = << >>
  BY DEF ServerEnd, Working
<1>2. ServerEnd(u, "receive", r2, p2)
  BY <1>1 DEF ServerEnd, Working
<1>. SUFFICES ClientEnd(u, d2, a, q, "receive", r2)
  BY <1>2
<1>3. a \in {"off", "header", "body"}
  BY DEF ClientEnd, HeaderEnd, BodyEnd, Working
<1>4. CASE a = "off"
  BY <1>4 DEF ClientEnd, HeaderEnd, BodyEnd
<1>5. CASE a = "header"
  <2>1. d = <<WithBody(q)>> /\ r = q /\ q \in Query
    BY <1>5 DEF ClientEnd, HeaderEnd, BodyEnd, Working
  <2>2. d2 = <<WithBody(q), Body(q)>>
    BY <1>5, <2>1, Queues
  <2>3. d2 \in Answers(q)
    BY <2>2, AnswerForms
  <2>. QED  BY <1>1, <1>5, <2>1, <2>3 DEF ClientEnd, HeaderEnd, BodyEnd
<1>6. CASE a = "body"
  <2>1. d = << >> /\ r = q /\ q \in Query
    BY <1>6 DEF ClientEnd, HeaderEnd, BodyEnd, Working
  <2>2. d2 = <<Body(q)>>
    BY <1>6, <2>1, Queues
  <2>. QED  BY <1>1, <1>6, <2>1, <2>2 DEF ClientEnd, HeaderEnd, BodyEnd
<1>. QED  BY <1>3, <1>4, <1>5, <1>6

\* The process ends; what it has sent is still to be read.
LEMMA DieEnds ==
  ASSUME NEW u, NEW d, NEW a, NEW q, NEW t, NEW r, NEW p, NEW r2, NEW p2,
         ServerEnd(u, t, r, p), ClientEnd(u, d, a, q, t, r)
  PROVE  ServerEnd(<< >>, "none", r2, p2) /\ ClientEnd(<< >>, d, a, q, "none", r2)
<1>1. ServerEnd(<< >>, "none", r2, p2)
  BY DEF ServerEnd, Working
<1>2. ClientEnd(<< >>, d, a, q, "none", r2)
  BY DEF ClientEnd, HeaderEnd, BodyEnd, Working
<1>. QED  BY <1>1, <1>2

-----------------------------------------------------------------------------
(* What a step leaves alone.                                               *)

\* A step of client c or of its thread is no step of the other connections.
Others(c) ==
  \A b \in Client \ {c} :
    /\ up'[b] = up[b] /\ down'[b] = down[b] /\ at'[b] = at[b] /\ asked'[b] = asked[b]
    /\ thread'[b] = thread[b] /\ request'[b] = request[b] /\ response'[b] = response[b]

LEMMA OneConn ==
  ASSUME IInv, NEW c \in Client, Conn(c)', Others(c)
  PROVE  \A b \in Client : Conn(b)'
<1>. SUFFICES ASSUME NEW b \in Client \ {c} PROVE Conn(b)'
  OBVIOUS
<1>. QED  BY DEF IInv, Conn, Others

\* The threads that have met another one are still inside parse_sql when they do not move.
LEMMA SharedKept ==
  ASSUME IInv, UNCHANGED <<server, sem, parse_tree, raced>>,
         \A b \in raced : thread'[b] = thread[b]
  PROVE  Shared'
BY DEF IInv, Shared, Parsing

LEMMA OutsideKept ==
  ASSUME IInv, NEW c \in Client, thread[c] \notin {"yyparse", "return"}, Others(c),
         UNCHANGED <<server, sem, parse_tree, raced>>
  PROVE  Shared'
<1>1. \A b \in raced : thread'[b] = thread[b]
  BY DEF IInv, Shared, Parsing, Others
<1>. QED  BY <1>1, SharedKept

-----------------------------------------------------------------------------
(* The client program.                                                     *)

LEMMA ConnectKept ==
  ASSUME IInv, NEW c \in Client, Connect(c)
  PROVE  IInv'
<1>1. Types'
  BY DEF Connect, GoTo, connections, IInv, Types, Working
<1>2. /\ thread[c] = "none" /\ at[c] = "off" /\ thread'[c] = "backlog" /\ at'[c] = "prompt"
      /\ Others(c) /\ UNCHANGED <<up, down, request, response, server, sem, parse_tree, raced>>
  BY DEF Connect, GoTo, connections, process, parser, IInv, Types, Others
<1>3. Conn(c)'
  BY <1>2, ConnectEnds DEF IInv, Conn
<1>4. Shared'
  BY <1>2, OutsideKept
<1>. QED  BY <1>1, <1>2, <1>3, <1>4, OneConn DEF IInv

LEMMA SendTypes ==
  ASSUME IInv, NEW c \in Client, NEW req \in Requests, Send(c, req)
  PROVE  /\ up' \in [Client -> Seq(Requests)]
         /\ up'[c] = IF thread[c] = "none" THEN up[c] ELSE Append(up[c], req)
         /\ \A b \in Client \ {c} : up'[b] = up[b]
<1>1. up \in [Client -> Seq(Requests)]
  BY DEF IInv, Types
<1>2. Append(up[c], req) \in Seq(Requests)
  BY <1>1
<1>. QED  BY <1>1, <1>2 DEF Send

LEMMA AskKept ==
  ASSUME IInv, NEW c \in Client, NEW q \in Query, Ask(c, q)
  PROVE  IInv'
<1>1. /\ up' \in [Client -> Seq(Requests)]
      /\ up'[c] = IF thread[c] = "none" THEN up[c] ELSE Append(up[c], Question(q))
      /\ \A b \in Client \ {c} : up'[b] = up[b]
  BY SendTypes, MessageTypes DEF Ask, Question
<1>2. Types'
  BY <1>1 DEF Ask, IInv, Types
<1>3. /\ at[c] = "prompt" /\ at'[c] = "header" /\ asked'[c] = q /\ Others(c)
      /\ UNCHANGED <<down, thread, request, response, server, sem, parse_tree, raced>>
  BY <1>1 DEF Ask, process, parser, IInv, Types, Others
<1>4. Conn(c)'
  <2>1. /\ ServerEnd(up[c], thread[c], request[c], response[c])
        /\ ClientEnd(up[c], down[c], "prompt", asked[c], thread[c], request[c])
    BY <1>3 DEF IInv, Conn
  <2>2. /\ ServerEnd(up'[c], thread[c], request[c], response[c])
        /\ ClientEnd(up'[c], down[c], "header", q, thread[c], request[c])
    BY <1>1, <2>1, AskEnds
  <2>. QED  BY <1>3, <2>2 DEF Conn
<1>5. Shared'
  BY <1>3, SharedKept
<1>. QED  BY <1>2, <1>3, <1>4, <1>5, OneConn DEF IInv

\* Leaving the connection, with what the server's end looks like afterwards.
LEMMA CloseKept ==
  ASSUME IInv, NEW c \in Client, Close(c),
         up' \in [Client -> Seq(Requests)],
         \A b \in Client \ {c} : up'[b] = up[b],
         ServerEnd(up'[c], thread[c], request[c], response[c])
  PROVE  IInv'
<1>1. Types'
  <2>1. << >> \in Seq(Message)
    OBVIOUS
  <2>. QED  BY <2>1 DEF Close, GoTo, IInv, Types
<1>2. /\ at'[c] = "off" /\ down'[c] = << >> /\ Others(c)
      /\ UNCHANGED <<thread, request, response, server, sem, parse_tree, raced>>
  BY DEF Close, GoTo, process, parser, IInv, Types, Others
<1>3. Conn(c)'
  BY <1>2 DEF Conn, ClientEnd
<1>4. Shared'
  BY <1>2, SharedKept
<1>. QED  BY <1>1, <1>2, <1>3, <1>4, OneConn DEF IInv

LEMMA ExitKept ==
  ASSUME IInv, NEW c \in Client, Exit(c)
  PROVE  IInv'
<1>1. /\ up' \in [Client -> Seq(Requests)]
      /\ up'[c] = IF thread[c] = "none" THEN up[c] ELSE Append(up[c], Bye)
      /\ \A b \in Client \ {c} : up'[b] = up[b]
  BY SendTypes, MessageTypes DEF Exit, Bye
<1>2. ServerEnd(up'[c], thread[c], request[c], response[c])
  <2>1. /\ ServerEnd(up[c], thread[c], request[c], response[c])
        /\ ClientEnd(up[c], down[c], "prompt", asked[c], thread[c], request[c])
    BY DEF Exit, IInv, Conn
  <2>. QED  BY <1>1, <2>1, ExitEnds
<1>. QED  BY <1>1, <1>2, CloseKept DEF Exit

LEMMA LeaveKept ==
  ASSUME IInv, NEW c \in Client, Fail(c) \/ Kill(c)
  PROVE  IInv'
<1>1. up' = up /\ Close(c)
  BY DEF Fail, Kill
<1>. QED  BY <1>1, CloseKept DEF IInv, Types, Conn

\* Reading a message, with what the connection looks like afterwards.
LEMMA ReadKept ==
  ASSUME IInv, NEW c \in Client, down[c] # << >>,
         NEW place \in {"prompt", "body"}, GoTo(c, place),
         down' = [down EXCEPT ![c] = Tail(@)],
         UNCHANGED <<up, process, thread, request, tree, response, parser>>,
         ClientEnd(up[c], Tail(down[c]), place, asked'[c], thread[c], request[c])
  PROVE  IInv'
<1>1. Types'
  <2>1. down \in [Client -> Seq(Message)]
    BY DEF IInv, Types
  <2>2. Tail(down[c]) \in Seq(Message)
    BY <2>1
  <2>3. down' \in [Client -> Seq(Message)]
    BY <2>1, <2>2
  <2>. QED  BY <2>3 DEF GoTo, IInv, Types
<1>2. /\ at'[c] = place /\ down'[c] = Tail(down[c]) /\ Others(c)
      /\ UNCHANGED <<server, sem, parse_tree, raced>>
  BY DEF GoTo, process, parser, IInv, Types, Others
<1>3. Conn(c)'
  BY <1>2 DEF IInv, Conn
<1>4. Shared'
  BY <1>2, SharedKept
<1>. QED  BY <1>1, <1>2, <1>3, <1>4, OneConn DEF IInv

LEMMA ReadHeaderKept ==
  ASSUME IInv, NEW c \in Client, ReadHeader(c)
  PROVE  IInv'
<1>. DEFINE m == Head(down[c])
            place == IF m.type = "MSG_ERROR" \/ m.result_length = 0 THEN "prompt" ELSE "body"
<1>1. /\ at[c] = "header" /\ down[c] # << >> /\ GoTo(c, place)
      /\ down' = [down EXCEPT ![c] = Tail(@)]
      /\ UNCHANGED <<up, process, thread, request, tree, response, parser>>
  BY DEF ReadHeader
<1>2. place = "body" => asked' = asked
  BY <1>1 DEF GoTo
<1>3. ClientEnd(up[c], Tail(down[c]), place, asked'[c], thread[c], request[c])
  BY <1>1, <1>2, ReadHeaderEnds DEF IInv, Conn
<1>. HIDE DEF place
<1>4. place \in {"prompt", "body"}
  BY DEF place
<1>. QED  BY <1>1, <1>3, <1>4, ReadKept

LEMMA ReadBodyKept ==
  ASSUME IInv, NEW c \in Client, ReadBody(c)
  PROVE  IInv'
<1>1. /\ at[c] = "body" /\ down[c] # << >> /\ GoTo(c, "prompt")
      /\ down' = [down EXCEPT ![c] = Tail(@)]
      /\ UNCHANGED <<up, process, thread, request, tree, response, parser>>
  BY DEF ReadBody
<1>2. ClientEnd(up[c], Tail(down[c]), "prompt", asked'[c], thread[c], request[c])
  BY <1>1, ReadBodyEnds DEF IInv, Conn
<1>. QED  BY <1>1, <1>2, ReadKept

-----------------------------------------------------------------------------
(* The threads of the server.                                              *)

\* A step of the thread of c.
LEMMA ThreadKept ==
  ASSUME IInv, NEW c \in Client, Types', Shared', Others(c), UNCHANGED client,
         ServerEnd(up'[c], thread'[c], request'[c], response'[c]),
         ClientEnd(up'[c], down'[c], at[c], asked[c], thread'[c], request'[c])
  PROVE  IInv'
<1>1. Conn(c)'
  BY DEF Conn, client
<1>. QED  BY <1>1, OneConn DEF IInv

LEMMA AcceptKept ==
  ASSUME IInv, NEW c \in Client, Accept(c)
  PROVE  IInv'
<1>. DEFINE t2 == thread'[c]
<1>1. /\ thread[c] = "backlog" /\ t2 \in {"none", "receive"}
      /\ thread' = [thread EXCEPT ![c] = t2]
      /\ up' = IF t2 = "none" THEN [up EXCEPT ![c] = << >>] ELSE up
      /\ UNCHANGED <<down, at, asked, client, server, sem, request, tree, response>>
      /\ UNCHANGED <<parse_tree, raced>>
  BY DEF Accept, Step, client, process, parser, IInv, Types
<1>2. /\ up'[c] = IF t2 = "none" THEN << >> ELSE up[c]
      /\ Types' /\ Others(c)
  <2>1. << >> \in Seq(Requests)
    OBVIOUS
  <2>2. up' \in [Client -> Seq(Requests)] /\ up'[c] = IF t2 = "none" THEN << >> ELSE up[c]
    BY <1>1, <2>1 DEF IInv, Types
  <2>. QED  BY <1>1, <2>2 DEF IInv, Types, Working, Others
<1>3. Shared'
  BY <1>1, <1>2, OutsideKept
<1>4. /\ ServerEnd(up'[c], t2, request'[c], response'[c])
      /\ ClientEnd(up'[c], down'[c], at[c], asked[c], t2, request'[c])
  <2>1. /\ ServerEnd(up[c], "backlog", request[c], response[c])
        /\ ClientEnd(up[c], down[c], at[c], asked[c], "backlog", request[c])
    BY <1>1 DEF IInv, Conn
  <2>2. /\ ServerEnd(up'[c], t2, request[c], response[c])
        /\ ClientEnd(up'[c], down[c], at[c], asked[c], t2, request[c])
    BY <1>1, <1>2, <2>1, AcceptEnds
  <2>. QED  BY <1>1, <2>2
<1>. QED  BY <1>1, <1>2, <1>3, <1>4, ThreadKept

LEMMA ReceiveKept ==
  ASSUME IInv, NEW c \in Client, Receive(c)
  PROVE  IInv'
<1>. DEFINE r2 == Head(up[c]).query
<1>1. /\ thread[c] = "receive" /\ up[c] # << >> /\ Head(up[c]).type = "MSG_QUERY"
      /\ thread' = [thread EXCEPT ![c] = "yy_scan_string"]
      /\ request' = [request EXCEPT ![c] = r2]
      /\ up' = [up EXCEPT ![c] = Tail(@)]
      /\ UNCHANGED <<down, at, asked, client, server, sem, tree, response>>
      /\ UNCHANGED <<parse_tree, raced>>
  BY DEF Receive, Step, client, process, parser
<1>2. /\ Tail(up[c]) = << >> /\ r2 \in Query
      /\ ServerEnd(Tail(up[c]), "yy_scan_string", r2, response[c])
      /\ ClientEnd(Tail(up[c]), down[c], at[c], asked[c], "yy_scan_string", r2)
  <2>1. /\ ServerEnd(up[c], "receive", request[c], response[c])
        /\ ClientEnd(up[c], down[c], at[c], asked[c], "receive", request[c])
    BY <1>1 DEF IInv, Conn
  <2>. QED  BY <1>1, <2>1, ReceiveEnds
<1>. HIDE DEF r2
<1>3. /\ up'[c] = Tail(up[c]) /\ thread'[c] = "yy_scan_string" /\ request'[c] = r2
      /\ Types' /\ Others(c)
  <2>1. Tail(up[c]) \in Seq(Requests)
    <3>1. << >> \in Seq(Requests)
      OBVIOUS
    <3>. QED  BY <1>2, <3>1
  <2>2. up' \in [Client -> Seq(Requests)] /\ up'[c] = Tail(up[c])
    BY <1>1, <2>1 DEF IInv, Types
  <2>. QED  BY <1>1, <1>2, <2>2 DEF IInv, Types, Working, Others
<1>4. Shared'
  BY <1>1, <1>3, OutsideKept
<1>. QED  BY <1>1, <1>2, <1>3, <1>4, ThreadKept

LEMMA EndThreadKept ==
  ASSUME IInv, NEW c \in Client, EndThread(c)
  PROVE  IInv'
<1>1. /\ thread[c] = "receive"
      /\ IF up[c] = << >> THEN at[c] = "off" ELSE Head(up[c]).type = "MSG_EXIT"
      /\ thread' = [thread EXCEPT ![c] = "none"]
      /\ up' = [up EXCEPT ![c] = << >>]
      /\ UNCHANGED <<down, at, asked, client, server, sem, request, tree, response>>
      /\ UNCHANGED <<parse_tree, raced>>
  BY DEF EndThread, Step, client, process, parser
<1>2. up'[c] = << >> /\ thread'[c] = "none" /\ Types' /\ Others(c)
  <2>1. << >> \in Seq(Requests)
    OBVIOUS
  <2>. QED  BY <1>1, <2>1 DEF IInv, Types, Others
<1>3. Shared'
  BY <1>1, <1>2, OutsideKept
<1>4. /\ ServerEnd(<< >>, "none", request[c], response[c])
      /\ ClientEnd(<< >>, down[c], at[c], asked[c], "none", request[c])
  <2>1. /\ ServerEnd(up[c], "receive", request[c], response[c])
        /\ ClientEnd(up[c], down[c], at[c], asked[c], "receive", request[c])
    BY <1>1 DEF IInv, Conn
  <2>. QED  BY <1>1, <2>1, EndThreadEnds
<1>. QED  BY <1>1, <1>2, <1>3, <1>4, ThreadKept

\* Steps of a thread that has a request and has sent nothing.
LEMMA WorkKept ==
  ASSUME IInv, NEW c \in Client,
         NEW from \in Before,
         NEW to \in After, Step(c, from, to),
         UNCHANGED <<up, down, client, request>>,
         tree' \in [Client -> Tree], response' \in [Client -> Message],
         to = "header" => response'[c] \in Alone(request[c]) \cup {WithBody(request[c])},
         \A b \in Client \ {c} : response'[b] = response[b],
         Shared'
  PROVE  IInv'
<1>1. thread[c] = from /\ thread'[c] = to /\ Types' /\ Others(c)
  BY DEF Step, client, IInv, Types, Working, Others, After
<1>2. /\ ServerEnd(up[c], from, request[c], response[c])
      /\ ClientEnd(up[c], down[c], at[c], asked[c], from, request[c])
  BY <1>1 DEF IInv, Conn
<1>3. /\ ServerEnd(up[c], to, request[c], response'[c])
      /\ ClientEnd(up[c], down[c], at[c], asked[c], to, request[c])
  <2>. DEFINE r == request[c]
              p2 == response'[c]
  <2>1. /\ ServerEnd(up[c], from, r, response[c])
        /\ ClientEnd(up[c], down[c], at[c], asked[c], from, r)
        /\ to = "header" => p2 \in Alone(r) \cup {WithBody(r)}
    BY <1>2
  <2>. HIDE DEF r, p2
  <2>2. /\ ServerEnd(up[c], to, r, p2)
        /\ ClientEnd(up[c], down[c], at[c], asked[c], to, r)
    BY <2>1, WorkEnds
  <2>. QED  BY <2>2 DEF r, p2
<1>. QED  BY <1>1, <1>3, ThreadKept

LEMMA BeginParseKept ==
  ASSUME IInv, NEW c \in Client, BeginParse(c)
  PROVE  IInv'
<1>1. /\ Step(c, "yy_scan_string", "yyparse") /\ raced' \subseteq raced \cup Parsing \cup {c}
      /\ UNCHANGED <<up, down, client, server, sem, request, tree, response, parse_tree>>
  BY DEF BeginParse, connections, process
<1>2. Parsing' = Parsing \cup {c}
  BY <1>1 DEF Step, Parsing, IInv, Types
<1>3. Shared'
  BY <1>1, <1>2 DEF IInv, Shared
<1>. QED  BY <1>1, <1>3, WorkKept DEF IInv, Types, Before, After

LEMMA ParseKept ==
  ASSUME IInv, NEW c \in Client, Parse(c)
  PROVE  IInv'
<1>1. /\ Step(c, "yyparse", "return")
      /\ UNCHANGED <<up, down, client, server, sem, request, tree, response, raced>>
  BY DEF Parse, connections, process
<1>2. Parsing' = Parsing
  BY <1>1 DEF Step, Parsing, IInv, Types
<1>3. parse_tree' \in Tree
  <2>1. request[c] \in Query
    BY <1>1 DEF Step, IInv, Conn, ServerEnd, Working
  <2>. QED  BY <2>1 DEF Parse, Parsed, Tree, IInv, Shared
<1>4. Shared'
  BY <1>1, <1>2, <1>3 DEF IInv, Shared
<1>. QED  BY <1>1, <1>4, WorkKept DEF IInv, Types, Before, After

LEMMA ReturnTreeKept ==
  ASSUME IInv, NEW c \in Client, ReturnTree(c)
  PROVE  IInv'
<1>1. /\ Step(c, "return", "interp") /\ raced' = raced \ {c}
      /\ tree' \in [Client -> Tree]
      /\ UNCHANGED <<up, down, client, server, sem, request, response, parse_tree>>
  BY DEF ReturnTree, connections, process, IInv, Types, Shared
<1>2. Parsing \ {c} \subseteq Parsing'
  BY <1>1 DEF Step, Parsing, IInv, Types
<1>3. Shared'
  BY <1>1, <1>2 DEF IInv, Shared
<1>. QED  BY <1>1, <1>3, WorkKept DEF IInv, Types, Before, After

LEMMA RespondKept ==
  ASSUME IInv, NEW c \in Client, Interp(c) \/ InterpThrows(c)
  PROVE  IInv'
<1>1. PICK header \in Alone(request[c]) \cup {WithBody(request[c])} : Respond(c, header)
  BY DEF Interp, InterpThrows, Alone, WithBody
<1>2. /\ Step(c, "interp", "header")
      /\ response' = [response EXCEPT ![c] = header]
      /\ tree' = [tree EXCEPT ![c] = NoTree]
      /\ sem' \in {sem, "taken"}
      /\ UNCHANGED <<up, down, client, server, request, parse_tree, raced>>
  BY <1>1 DEF Respond, connections, parser, Interp, InterpThrows, AfterThrow
<1>3. header \in Message
  BY MessageTypes DEF IInv, Types
<1>4. /\ tree' \in [Client -> Tree] /\ response' \in [Client -> Message]
      /\ response'[c] = header /\ \A b \in Client \ {c} : response'[b] = response[b]
  BY <1>2, <1>3 DEF Tree, IInv, Types
<1>5. Shared'
  <2>1. Parsing' = Parsing
    BY <1>2 DEF Step, Parsing, IInv, Types
  <2>. QED  BY <1>2, <2>1 DEF IInv, Shared
<1>. QED  BY <1>2, <1>4, <1>5, WorkKept DEF Before, After

LEMMA DeliverTypes ==
  ASSUME IInv, NEW c \in Client, NEW m \in Message, Deliver(c, m)
  PROVE  /\ down' \in [Client -> Seq(Message)]
         /\ down'[c] = IF at[c] = "off" THEN down[c] ELSE Append(down[c], m)
         /\ \A b \in Client \ {c} : down'[b] = down[b]
<1>1. down \in [Client -> Seq(Message)]
  BY DEF IInv, Types
<1>2. Append(down[c], m) \in Seq(Message)
  BY <1>1
<1>. QED  BY <1>1, <1>2 DEF Deliver

LEMMA SendHeaderKept ==
  ASSUME IInv, NEW c \in Client, SendHeader(c)
  PROVE  IInv'
<1>. DEFINE m == response[c]
            t2 == thread'[c]
<1>1. /\ down' \in [Client -> Seq(Message)]
      /\ down'[c] = IF at[c] = "off" THEN down[c] ELSE Append(down[c], m)
      /\ \A b \in Client \ {c} : down'[b] = down[b]
  <2>1. m \in Message /\ Deliver(c, m)
    BY DEF SendHeader, IInv, Types
  <2>. QED  BY <2>1, DeliverTypes
<1>2. /\ thread[c] = "header" /\ thread' \in [Client -> Working \cup {"none", "backlog", "receive"}]
      /\ \A b \in Client \ {c} : thread'[b] = thread[b]
      /\ IF m.result_length > 0 THEN t2 = "body" ELSE t2 = "receive"
      /\ UNCHANGED <<up, at, asked, client, server, sem, tree, parse_tree, raced>>
  BY DEF SendHeader, NextRound, Step, client, process, parser, IInv, Types, Working
<1>3. /\ request' \in [Client -> Query \cup {NoQuery}]
      /\ response' \in [Client -> Message]
      /\ m.result_length > 0 => request'[c] = request[c]
      /\ \A b \in Client \ {c} : request'[b] = request[b] /\ response'[b] = response[b]
  <2>1. NoResponse \in Message
    BY DEF NoResponse, Header, Message
  <2>. QED  BY <2>1 DEF SendHeader, NextRound, IInv, Types
<1>4. Types' /\ Others(c)
  BY <1>1, <1>2, <1>3 DEF IInv, Types, Others
<1>5. Shared'
  BY <1>2, <1>4, OutsideKept
<1>6. /\ ServerEnd(up[c], t2, request'[c], response'[c])
      /\ ClientEnd(up[c], down'[c], at[c], asked[c], t2, request'[c])
  <2>. DEFINE d2 == down'[c]
              r2 == request'[c]
              p2 == response'[c]
  <2>1. /\ ServerEnd(up[c], "header", request[c], m)
        /\ ClientEnd(up[c], down[c], at[c], asked[c], "header", request[c])
    BY <1>2 DEF IInv, Conn
  <2>2. /\ d2 = IF at[c] = "off" THEN down[c] ELSE Append(down[c], m)
        /\ IF m.result_length > 0 THEN t2 = "body" /\ r2 = request[c] ELSE t2 = "receive"
    BY <1>1, <1>2, <1>3
  <2>. HIDE DEF m, t2, d2, r2, p2
  <2>3. /\ ServerEnd(up[c], t2, r2, p2)
        /\ ClientEnd(up[c], d2, at[c], asked[c], t2, r2)
    BY <2>1, <2>2, SendHeaderEnds
  <2>. QED  BY <2>3 DEF d2, r2, p2
<1>. QED  BY <1>2, <1>4, <1>5, <1>6, ThreadKept

LEMMA SendBodyKept ==
  ASSUME IInv, NEW c \in Client, SendBody(c)
  PROVE  IInv'
<1>. DEFINE m == Body(request[c])
<1>1. /\ down' \in [Client -> Seq(Message)]
      /\ down'[c] = IF at[c] = "off" THEN down[c] ELSE Append(down[c], m)
      /\ \A b \in Client \ {c} : down'[b] = down[b]
  <2>1. m \in Message /\ Deliver(c, m)
    BY MessageTypes DEF SendBody, IInv, Types
  <2>. QED  BY <2>1, DeliverTypes
<1>2. /\ thread[c] = "body" /\ thread' = [thread EXCEPT ![c] = "receive"]
      /\ request' = [request EXCEPT ![c] = NoQuery]
      /\ response' = [response EXCEPT ![c] = NoResponse]
      /\ UNCHANGED <<up, at, asked, client, server, sem, tree, parse_tree, raced>>
  BY DEF SendBody, NextRound, Step, client, process, parser
<1>3. Types' /\ Others(c) /\ thread'[c] = "receive"
  <2>1. NoResponse \in Message
    BY DEF NoResponse, Header, Message
  <2>. QED  BY <1>1, <1>2, <2>1 DEF IInv, Types, Working, Others
<1>4. Shared'
  BY <1>2, <1>3, OutsideKept
<1>5. /\ ServerEnd(up[c], "receive", request'[c], response'[c])
      /\ ClientEnd(up[c], down'[c], at[c], asked[c], "receive", request'[c])
  <2>. DEFINE d2 == down'[c]
              r2 == request'[c]
              p2 == response'[c]
  <2>1. /\ ServerEnd(up[c], "body", request[c], response[c])
        /\ ClientEnd(up[c], down[c], at[c], asked[c], "body", request[c])
    BY <1>2 DEF IInv, Conn
  <2>2. d2 = IF at[c] = "off" THEN down[c] ELSE Append(down[c], m)
    BY <1>1
  <2>. HIDE DEF d2, r2, p2
  <2>3. /\ ServerEnd(up[c], "receive", r2, p2)
        /\ ClientEnd(up[c], d2, at[c], asked[c], "receive", r2)
    BY <2>1, <2>2, SendBodyEnds
  <2>. QED  BY <2>3 DEF d2, r2, p2
<1>. QED  BY <1>2, <1>3, <1>4, <1>5, ThreadKept

-----------------------------------------------------------------------------
(* The process.                                                            *)

\* The end of the process is the same for every connection.
LEMMA DieKept ==
  ASSUME IInv, Die, server' \in {"stopped", "killed"}, sem' \in {"absent", "posted", "taken"}
  PROVE  IInv'
<1>1. Types'
  <2>1. << >> \in Seq(Requests) /\ NoResponse \in Message /\ NoTree \in Tree
    BY DEF NoResponse, Header, Message, Tree
  <2>. QED  BY <2>1 DEF Die, client, IInv, Types
<1>2. Shared'
  BY DEF Die, Shared, Parsing, Tree
<1>3. ASSUME NEW c \in Client
      PROVE  Conn(c)'
  <2>1. /\ ServerEnd(up[c], thread[c], request[c], response[c])
        /\ ClientEnd(up[c], down[c], at[c], asked[c], thread[c], request[c])
    BY DEF IInv, Conn
  <2>2. /\ ServerEnd(<< >>, "none", NoQuery, NoResponse)
        /\ ClientEnd(<< >>, down[c], at[c], asked[c], "none", NoQuery)
    BY <2>1, DieEnds
  <2>3. /\ up'[c] = << >> /\ thread'[c] = "none" /\ request'[c] = NoQuery
        /\ response'[c] = NoResponse /\ UNCHANGED <<down, at, asked>>
    BY DEF Die, client
  <2>. QED  BY <2>2, <2>3 DEF Conn
<1>. QED  BY <1>1, <1>2, <1>3 DEF IInv

LEMMA EndsKept ==
  ASSUME IInv, Cleanup \/ Crash \/ Sigpipe
  PROVE  IInv'
<1>1. /\ Die /\ server' \in {"stopped", "killed"}
      /\ sem' \in {"absent", "posted", "taken"}
  BY DEF Cleanup, Crash, Sigpipe, Killed, IInv, Shared
<1>. QED  BY <1>1, DieKept

LEMMA StartKept ==
  ASSUME IInv, Start
  PROVE  IInv'
<1>1. /\ UNCHANGED <<up, down, at, asked, thread, request, tree, response, parse_tree, raced>>
      /\ server' = "up" /\ sem' \in {"posted", "taken"}
  BY DEF Start, connections, client, parser, IInv, Shared
<1>2. Types'
  BY <1>1 DEF IInv, Types
<1>3. Shared'
  BY <1>1 DEF IInv, Shared, Parsing
<1>4. \A c \in Client : Conn(c)'
  BY <1>1 DEF IInv, Conn
<1>. QED  BY <1>2, <1>3, <1>4 DEF IInv

-----------------------------------------------------------------------------
(* The invariant.                                                          *)

LEMMA InitIInv ==
  ASSUME Init
  PROVE  IInv
<1>1. Types
  <2>1. << >> \in Seq(Requests) /\ << >> \in Seq(Message)
    OBVIOUS
  <2>2. NoResponse \in Message /\ NoTree \in Tree
    BY DEF NoResponse, Header, Message, Tree
  <2>. QED  BY <2>1, <2>2 DEF Init, Types
<1>2. Shared
  BY DEF Init, Shared, Tree
<1>3. \A c \in Client : Conn(c)
  BY DEF Init, Conn, ServerEnd, ClientEnd, Working
<1>. QED  BY <1>1, <1>2, <1>3 DEF IInv

LEMMA NextIInv ==
  ASSUME IInv, [Next]_vars
  PROVE  IInv'
<1>1. ASSUME NEW c \in Client, Connect(c) \/ Exit(c) \/ Fail(c) \/ Kill(c) PROVE IInv'
  BY <1>1, ConnectKept, ExitKept, LeaveKept
<1>2. ASSUME NEW c \in Client, NEW q \in Query, Ask(c, q) PROVE IInv'
  BY <1>2, AskKept
<1>3. ASSUME NEW c \in Client, ReadHeader(c) \/ ReadBody(c) PROVE IInv'
  BY <1>3, ReadHeaderKept, ReadBodyKept
<1>4. ASSUME NEW c \in Client, Accept(c) \/ Receive(c) \/ EndThread(c) PROVE IInv'
  BY <1>4, AcceptKept, ReceiveKept, EndThreadKept
<1>5. ASSUME NEW c \in Client, BeginParse(c) \/ Parse(c) \/ ReturnTree(c) PROVE IInv'
  BY <1>5, BeginParseKept, ParseKept, ReturnTreeKept
<1>6. ASSUME NEW c \in Client, Interp(c) \/ InterpThrows(c) PROVE IInv'
  BY <1>6, RespondKept
<1>7. ASSUME NEW c \in Client, SendHeader(c) \/ SendBody(c) PROVE IInv'
  BY <1>7, SendHeaderKept, SendBodyKept
<1>8. CASE Start \/ Cleanup \/ Crash \/ Sigpipe
  BY <1>8, StartKept, EndsKept
<1>9. CASE UNCHANGED vars
  <2>1. Types'
    BY <1>9 DEF vars, connections, client, IInv, Types
  <2>2. Shared'
    BY <1>9 DEF vars, process, parser, IInv, Shared, Parsing
  <2>3. \A c \in Client : Conn(c)'
    BY <1>9 DEF vars, connections, client, IInv, Conn
  <2>. QED  BY <2>1, <2>2, <2>3 DEF IInv
<1>. QED  BY <1>1, <1>2, <1>3, <1>4, <1>5, <1>6, <1>7, <1>8, <1>9
          DEF Next, ThreadStep, ClientStep

-----------------------------------------------------------------------------
(* What the invariant says of the queues.                                  *)

LEMMA OneMessage ==
  ASSUME NEW x
  PROVE  Len(<<x>>) = 1 /\ \A i \in DOMAIN <<x>> : <<x>>[i] = x
OBVIOUS

LEMMA TwoMessages ==
  ASSUME NEW x, NEW y
  PROVE  Len(<<x, y>>) = 2 /\ \A i \in DOMAIN <<x, y>> : <<x, y>>[i] \in {x, y}
OBVIOUS

\* An answer, from its header on: who has asked for it, and which part is first.
LEMMA FromHeader ==
  ASSUME NEW q, NEW d \in Answers(q) \cup {<<WithBody(q)>>}
  PROVE  /\ Len(d) <= 2 /\ d # << >>
         /\ Head(d).part = "header" /\ \A i \in DOMAIN d : d[i].to = q
<1>1. ASSUME NEW h \in Alone(q) \cup {WithBody(q)}, d = <<h>>
      PROVE  /\ Len(d) <= 2 /\ d # << >>
             /\ Head(d).part = "header" /\ \A i \in DOMAIN d : d[i].to = q
  <2>1. h.part = "header" /\ h.to = q
    BY Messages
  <2>. QED  BY <1>1, <2>1, Queues, OneMessage
<1>2. CASE d = <<WithBody(q), Body(q)>>
  <2>1. \A m \in {WithBody(q), Body(q)} : m.to = q
    BY Messages
  <2>2. Head(d).part = "header"
    BY <1>2, Queues, Messages
  <2>. QED  BY <1>2, <2>1, <2>2, Queues, TwoMessages
<1>. QED  BY <1>1, <1>2, AnswerForms

\* And its text alone.
LEMMA FromBody ==
  ASSUME NEW q, NEW d, d = <<Body(q)>>
  PROVE  /\ Len(d) <= 2 /\ d # << >>
         /\ Head(d).part = "body" /\ \A i \in DOMAIN d : d[i].to = q
BY Queues, Messages, OneMessage

LEMMA ConnLengths ==
  ASSUME NEW u, NEW d, NEW a, NEW q, NEW t, NEW r, NEW p,
         ServerEnd(u, t, r, p), ClientEnd(u, d, a, q, t, r)
  PROVE  Len(u) <= 2 /\ Len(d) <= 2
<1>1. Len(<< >>) <= 2
  OBVIOUS
<1>2. Len(u) <= 2
  <2>1. ASSUME NEW m, u = <<m>> PROVE Len(u) <= 2
    BY <2>1, OneMessage
  <2>. QED  BY <1>1, <2>1 DEF ServerEnd
<1>3. Len(d) <= 2
  <2>1. \/ d = << >>
        \/ d \in Answers(q) \cup {<<WithBody(q)>>}
        \/ d = <<Body(q)>>
    BY DEF ClientEnd, HeaderEnd, BodyEnd
  <2>. QED  BY <1>1, <2>1, FromHeader, FromBody
<1>. QED  BY <1>2, <1>3

\* InStep for one connection.
LEMMA ConnInStep ==
  ASSUME NEW u, NEW d, NEW a, NEW q, NEW t, NEW r, NEW p,
         ServerEnd(u, t, r, p), ClientEnd(u, d, a, q, t, r)
  PROVE  LET waiting == a \in {"header", "body"}
             working == t \notin {"none", "backlog", "receive"}
         IN
         /\ a = "prompt" => u = << >> /\ d = << >> /\ ~working
         /\ waiting /\ d # << >> =>
              Head(d).part = a /\ \A i \in DOMAIN d : d[i].to = q
         /\ waiting /\ d = << >> /\ t # "none" =>
              IF working THEN r = q /\ (a = "body" => t = "body")
              ELSE a = "header" /\ Len(u) = 1
<1>. DEFINE working == t \notin {"none", "backlog", "receive"}
<1>1. working <=> t \in Working
  BY DEF ServerEnd, Working
<1>. HIDE DEF working
<1>2. a = "prompt" => u = << >> /\ d = << >> /\ ~working
  BY <1>1 DEF ClientEnd
<1>3. ASSUME a = "header", d # << >>
      PROVE  Head(d).part = a /\ \A i \in DOMAIN d : d[i].to = q
  <2>1. d \in Answers(q) \cup {<<WithBody(q)>>}
    BY <1>3 DEF ClientEnd, HeaderEnd
  <2>. QED  BY <1>3, <2>1, FromHeader
<1>4. ASSUME a = "body", d # << >>
      PROVE  Head(d).part = a /\ \A i \in DOMAIN d : d[i].to = q
  <2>1. d = <<Body(q)>>
    BY <1>4 DEF ClientEnd, BodyEnd
  <2>. QED  BY <1>4, <2>1, FromBody
<1>5. d = << >> => d \notin Answers(q) /\ d # <<WithBody(q)>> /\ d # <<Body(q)>>
  BY FromHeader, FromBody
<1>6. ASSUME a = "header", d = << >>, t # "none"
      PROVE  IF working THEN r = q ELSE Len(u) = 1
  <2>1. HeaderEnd(u, d, q, t, r)
    BY <1>6 DEF ClientEnd
  <2>2. \/ t \in {"backlog", "receive"} /\ u = <<Question(q)>>
        \/ t \in Working /\ r = q
    BY <1>5, <1>6, <2>1 DEF HeaderEnd
  <2>. QED  BY <1>1, <2>2, OneMessage DEF Working
<1>7. ASSUME a = "body", d = << >>, t # "none"
      PROVE  working /\ r = q /\ t = "body"
  BY <1>1, <1>5, <1>7 DEF ClientEnd, BodyEnd, Working
<1>. QED  BY <1>2, <1>3, <1>4, <1>6, <1>7 DEF working

LEMMA IInvTypeOK ==
  ASSUME IInv
  PROVE  TypeOK
<1>1. ASSUME NEW c \in Client
      PROVE  /\ Len(up[c]) <= 2 /\ Len(down[c]) <= 2
             /\ \A i \in DOMAIN up[c] : up[c][i] \in Requests
             /\ \A i \in DOMAIN down[c] : down[c][i] \in Message
  <2>1. up[c] \in Seq(Requests) /\ down[c] \in Seq(Message)
    BY DEF IInv, Types
  <2>2. Len(up[c]) <= 2 /\ Len(down[c]) <= 2
    BY ConnLengths DEF IInv, Conn
  <2>. QED  BY <2>1, <2>2
<1>. QED  BY <1>1 DEF TypeOK, Requests, Working, IInv, Types, Shared

LEMMA IInvInStep ==
  ASSUME IInv
  PROVE  InStep
<1>1. ASSUME NEW c \in Client
      PROVE  /\ ServerEnd(up[c], thread[c], request[c], response[c])
             /\ ClientEnd(up[c], down[c], at[c], asked[c], thread[c], request[c])
  BY DEF IInv, Conn
<1>. QED  BY <1>1, ConnInStep DEF InStep

-----------------------------------------------------------------------------
(* The theorems.                                                           *)

\* The invariant holds in every reachable state, for any number of clients.
THEOREM Invariance == Spec => []IInv
<1>. QED  BY InitIInv, NextIInv, PTL DEF Spec

\* The messages and the places of the client programs and threads are those of the
\* code, and neither direction of a connection holds more than one answer.
THEOREM TypeCorrect == Spec => []TypeOK
<1>. QED  BY Invariance, IInvTypeOK, PTL

\* A client never reads a header for a text, a text for a header, or the answer to a
\* request it has not sent, and none of its requests is forgotten while its thread
\* lives: for any number of clients and any texts, with the server killed, stopped
\* and started again at any step.
THEOREM StaysInStep == Spec => []InStep
<1>. QED  BY Invariance, IInvInStep, PTL

=============================================================================
