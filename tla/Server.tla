------------------------------- MODULE Server -------------------------------
(***************************************************************************)
(* The server, a thread per client, and the client program at the other    *)
(* end of each connection.  A connection is two queues of messages; it     *)
(* stays until both ends have closed it.  The parser is one for all        *)
(* threads: the lexer's buffer and the tree of the last statement are      *)
(* global variables.  What a statement does is left out here, but for the  *)
(* named semaphores it takes, which outlive the process: the rest is the   *)
(* matter of Catalog and Statements, and so is whether it ends.            *)
(***************************************************************************)
EXTENDS Naturals, Sequences, FiniteSets

CONSTANTS
  Client,
  Query,        \* the texts a client may send
  Malformed,    \* the texts the grammar refuses
  Bare,         \* the texts for which the grammar yields no tree: EXIT, or nothing
  WithText,     \* the statements whose result is a text of its own
  Locking,      \* the statements that take a named semaphore
  NoQuery,
  NoTree

ASSUME QueryAssumption ==
  /\ UNION {Malformed, Bare, WithText, Locking} \subseteq Query
  /\ Malformed \cap Bare = {}
  /\ NoQuery \notin Query /\ NoTree \notin Query

VARIABLES
  up,           \* the requests on their way to the server
  down,         \* the messages on their way to the client
  at,           \* where the client program is
  asked,        \* the text it has sent last
  server,       \* the server process: "up", "stopped" by its signal handler, "killed"
  sem,          \* the named semaphores: "absent", "posted", or one of them, whichever,
                \* "taken" and nobody there to post it: its holder threw or died
  thread,       \* where the thread of a connection is: "none" when the server has
                \* closed it, "backlog" before it is accepted
  request,      \* the text it is working on
  tree,         \* parse_tree of the thread: what parse_sql has returned
  response,     \* the header it will send
  parse_tree,   \* ast::parse_tree, the global one
  raced         \* the threads that have met another one inside parse_sql

connections == <<up, down>>
client == <<at, asked>>
parser == <<parse_tree, raced>>
process == <<server, sem>>
vars == <<connections, client, process, thread, request, tree, response, parser>>

Tree == (Query \ (Malformed \cup Bare)) \cup {NoTree}
Parsed(q) == IF q \in Bare THEN NoTree ELSE q

\* A message of the server: a QueryResponse, or the text that follows it.
Header(type, q, length) == [part |-> "header", type |-> type, to |-> q, result_length |-> length]
Body(q) == [part |-> "body", type |-> "MSG_RESULT", to |-> q, result_length |-> 0]
NoResponse == Header("MSG_ERROR", NoQuery, 0)

Init ==
  /\ up = [c \in Client |-> << >>] /\ down = [c \in Client |-> << >>]
  /\ at = [c \in Client |-> "off"] /\ asked = [c \in Client |-> NoQuery]
  /\ server = "stopped"
  /\ sem = "absent"
  /\ thread = [c \in Client |-> "none"]
  /\ request = [c \in Client |-> NoQuery]
  /\ tree = [c \in Client |-> NoTree]
  /\ response = [c \in Client |-> NoResponse]
  /\ parse_tree = NoTree
  /\ raced = {}

-----------------------------------------------------------------------------
(* The client program.                                                     *)

\* The program goes on to another place; what it asked is forgotten at the prompt.
GoTo(c, place) ==
  /\ at' = [at EXCEPT ![c] = place]
  /\ asked' = IF place \in {"prompt", "off"} THEN [asked EXCEPT ![c] = NoQuery] ELSE asked

\* The client is started; the server is there.
Connect(c) ==
  /\ server = "up"
  /\ at[c] = "off" /\ thread[c] = "none"
  /\ GoTo(c, "prompt")
  /\ thread' = [thread EXCEPT ![c] = "backlog"]
  /\ UNCHANGED <<connections, process, request, tree, response, parser>>

\* A request goes nowhere when the server has closed the connection.
Send(c, req) == up' = IF thread[c] = "none" THEN up ELSE [up EXCEPT ![c] = Append(@, req)]

\* The client closes the connection; what it has not read is lost.
Close(c) ==
  /\ GoTo(c, "off")
  /\ down' = [down EXCEPT ![c] = << >>]
  /\ UNCHANGED <<process, thread, request, tree, response, parser>>

Ask(c, q) ==
  /\ at[c] = "prompt"
  /\ Send(c, [type |-> "MSG_QUERY", query |-> q])
  /\ at' = [at EXCEPT ![c] = "header"]
  /\ asked' = [asked EXCEPT ![c] = q]
  /\ UNCHANGED <<down, process, thread, request, tree, response, parser>>

Exit(c) ==
  /\ at[c] = "prompt"
  /\ Send(c, [type |-> "MSG_EXIT", query |-> NoQuery])
  /\ Close(c)

\* The response header: an error is the whole answer, whatever its length says.
ReadHeader(c) ==
  /\ at[c] = "header" /\ down[c] # << >>
  /\ LET m == Head(down[c]) IN
     GoTo(c, IF m.type = "MSG_ERROR" \/ m.result_length = 0 THEN "prompt" ELSE "body")
  /\ down' = [down EXCEPT ![c] = Tail(@)]
  /\ UNCHANGED <<up, process, thread, request, tree, response, parser>>

ReadBody(c) ==
  /\ at[c] = "body" /\ down[c] # << >>
  /\ GoTo(c, "prompt")
  /\ down' = [down EXCEPT ![c] = Tail(@)]
  /\ UNCHANGED <<up, process, thread, request, tree, response, parser>>

\* The connection is at its end and there is nothing left to read: the client ends.
Fail(c) ==
  /\ at[c] \in {"header", "body"}
  /\ thread[c] = "none" /\ down[c] = << >>
  /\ Close(c)
  /\ UNCHANGED up

\* Somebody stops the client program, wherever it is.
Kill(c) ==
  /\ at[c] # "off"
  /\ Close(c)
  /\ UNCHANGED up

-----------------------------------------------------------------------------
(* The server.                                                             *)

Step(c, from, to) ==
  /\ thread[c] = from
  /\ thread' = [thread EXCEPT ![c] = to]

\* setup_db_semaphores opens the semaphores, which are created if they are not there.
Start ==
  /\ server # "up"
  /\ server' = "up"
  /\ sem' = IF sem = "absent" THEN "posted" ELSE sem
  /\ UNCHANGED <<connections, client, thread, request, tree, response, parser>>

\* A thread is between the sem_wait and the sem_post of a statement, or may be.
InSection(c) == thread[c] = "interp" /\ tree[c] \in Locking

\* The process ends, and with it its threads and its ends of the connections.
Die ==
  /\ server = "up"
  /\ up' = [c \in Client |-> << >>]
  /\ thread' = [c \in Client |-> "none"]
  /\ request' = [c \in Client |-> NoQuery]
  /\ tree' = [c \in Client |-> NoTree]
  /\ response' = [c \in Client |-> NoResponse]
  /\ parse_tree' = NoTree
  /\ raced' = {}
  /\ UNCHANGED <<down, client>>

\* A death that no handler sees leaves the semaphores as they are.
Killed ==
  /\ Die
  /\ server' = "killed"
  /\ \/ UNCHANGED sem
     \/ (\E c \in Client : InSection(c)) /\ sem' = "taken"

\* Slip: the handler closes the semaphores and does not unlink them.
CleanupCloses ==
  /\ Die
  /\ server' = "stopped"
  /\ \/ UNCHANGED sem
     \/ (\E c \in Client : InSection(c)) /\ sem' = "taken"

\* SIGINT or SIGTERM: the handler unlinks the semaphores, whatever the threads are at.
Cleanup ==
  /\ Die
  /\ server' = "stopped"
  /\ sem' = "absent"

\* A connection is accepted; without a thread for it, it is closed again.
Accept(c) ==
  /\ Step(c, "backlog", "receive") \/ Step(c, "backlog", "none")
  /\ up' = IF thread'[c] = "none" THEN [up EXCEPT ![c] = << >>] ELSE up
  /\ UNCHANGED <<down, client, process, request, tree, response, parser>>

Receive(c) ==
  /\ up[c] # << >> /\ Head(up[c]).type = "MSG_QUERY"
  /\ Step(c, "receive", "yy_scan_string")
  /\ request' = [request EXCEPT ![c] = Head(up[c]).query]
  /\ up' = [up EXCEPT ![c] = Tail(@)]
  /\ UNCHANGED <<down, client, process, tree, response, parser>>

\* The client has said good-bye, or its end is closed and all is read.
EndThread(c) ==
  /\ IF up[c] = << >> THEN at[c] = "off" ELSE Head(up[c]).type = "MSG_EXIT"
  /\ Step(c, "receive", "none")
  /\ up' = [up EXCEPT ![c] = << >>]
  /\ UNCHANGED <<down, client, process, request, tree, response, parser>>

\* The threads inside parse_sql.
Parsing == {c \in Client : thread[c] \in {"yyparse", "return"}}

BeginParse(c) ==
  /\ Step(c, "yy_scan_string", "yyparse")
  /\ raced' = IF Parsing = {} THEN raced ELSE raced \cup Parsing \cup {c}
  /\ UNCHANGED <<connections, client, process, request, tree, response, parse_tree>>

\* Slip: what has been read of a text that is refused becomes the tree.
ParseAnything(c) ==
  /\ Step(c, "yyparse", "return")
  /\ IF c \in raced
     THEN parse_tree' \in Tree
     ELSE parse_tree' = Parsed(request[c])
  /\ UNCHANGED <<connections, client, process, request, tree, response, raced>>

\* yyparse sets the tree at the end of a statement and nowhere else; parse_sql does
\* not look at its result.  Two threads inside the lexer at a time read and free one
\* buffer: what comes out may be any tree.
Parse(c) ==
  /\ Step(c, "yyparse", "return")
  /\ IF c \in raced
     THEN parse_tree' \in Tree
     ELSE parse_tree' = IF request[c] \in Malformed THEN parse_tree ELSE Parsed(request[c])
  /\ UNCHANGED <<connections, client, process, request, tree, response, raced>>

\* Or nothing comes out of it any more.
Crash ==
  /\ \E c \in raced : thread[c] = "yyparse"
  /\ Killed

\* parse_sql returns the global tree, and the thread keeps it.
ReturnTree(c) ==
  /\ Step(c, "return", "interp")
  /\ tree' = [tree EXCEPT ![c] = parse_tree]
  /\ raced' = raced \ {c}
  /\ UNCHANGED <<connections, client, process, request, response, parse_tree>>

\* The statement ends, in one way or the other; it may wait for a semaphore before.
Respond(c, header) ==
  /\ InSection(c) => sem = "posted"
  /\ Step(c, "interp", "header")
  /\ response' = [response EXCEPT ![c] = header]
  /\ tree' = [tree EXCEPT ![c] = NoTree]
  /\ UNCHANGED <<connections, client, server, request, parser>>

\* interp_sql runs the statement to its end and its result is formatted.
Interp(c) ==
  /\ tree[c] # NoTree
  /\ Respond(c, Header("MSG_RESULT", request[c], IF tree[c] \in WithText THEN 1 ELSE 0))
  /\ UNCHANGED sem

\* The semaphore after an exception, which may come between a sem_wait and its sem_post.
AfterThrow(c) == IF InSection(c) THEN {sem, "taken"} ELSE {sem}

\* Slip: the wording of the error is sent after the header, as a result would be.
InterpThrowsWithText(c) ==
  /\ Respond(c, Header("MSG_ERROR", request[c], 1))
  /\ sem' \in AfterThrow(c)

\* It throws, as it does for no tree at all.
InterpThrows(c) ==
  /\ Respond(c, Header("MSG_ERROR", request[c], 0))
  /\ sem' \in AfterThrow(c)

\* A message to a client that is gone is lost.
Deliver(c, m) == down' = IF at[c] = "off" THEN down ELSE [down EXCEPT ![c] = Append(@, m)]

\* The end of a round of the thread's loop, where its request and response end too.
NextRound(c, from) ==
  /\ Step(c, from, "receive")
  /\ request' = [request EXCEPT ![c] = NoQuery]
  /\ response' = [response EXCEPT ![c] = NoResponse]

SendHeader(c) ==
  /\ Deliver(c, response[c])
  /\ IF response[c].result_length > 0
     THEN Step(c, "header", "body") /\ UNCHANGED <<request, response>>
     ELSE NextRound(c, "header")
  /\ UNCHANGED <<up, client, process, tree, parser>>

SendBody(c) ==
  /\ Deliver(c, Body(request[c]))
  /\ NextRound(c, "body")
  /\ UNCHANGED <<up, client, process, tree, parser>>

\* The second write to a client that is gone raises SIGPIPE, which nothing handles.
Sigpipe ==
  /\ \E c \in Client : thread[c] = "body" /\ at[c] = "off"
  /\ Killed

-----------------------------------------------------------------------------
\* What a thread does by itself.
ThreadStep(c) ==
  \/ Accept(c) \/ Receive(c) \/ EndThread(c)
  \/ BeginParse(c) \/ Parse(c) \/ ReturnTree(c)
  \/ Interp(c) \/ InterpThrows(c)
  \/ SendHeader(c) \/ SendBody(c)

\* What the client program does without its user.
ClientStep(c) == ReadHeader(c) \/ ReadBody(c) \/ Fail(c)

Next ==
  \/ \E c \in Client :
       \/ Connect(c) \/ Exit(c) \/ Kill(c)
       \/ \E q \in Query : Ask(c, q)
       \/ ClientStep(c) \/ ThreadStep(c)
  \/ Start \/ Cleanup \/ Crash \/ Sigpipe

Spec == Init /\ [][Next]_vars

\* What the code leaves to those who use it: no statement is sent that throws between
\* a sem_wait and its sem_post, after which the others would wait for ever (Catalog
\* says which do), and a server that was killed with a semaphore taken is not started
\* again with that semaphore.
Agreed ==
  /\ server = "up" /\ server' = "up" => sem' = sem
  /\ server = "killed" /\ server' = "up" => sem # "taken"

\* The threads and the client programs run on; nobody has to ask for anything, and a
\* statement that has its semaphores ends.  This is for users who keep to Agreed.
FairSpec ==
  /\ Init /\ [][Next /\ Agreed]_vars
  /\ \A c \in Client : WF_vars(ThreadStep(c)) /\ WF_vars(ClientStep(c))

-----------------------------------------------------------------------------
(* Properties.                                                             *)

Message == [part : {"header", "body"}, type : {"MSG_RESULT", "MSG_ERROR"},
            to : Query \cup {NoQuery}, result_length : {0, 1}]

\* The types; no queue holds more than the two messages of one answer.
TypeOK ==
  /\ \A c \in Client :
       /\ Len(up[c]) <= 2 /\ Len(down[c]) <= 2
       /\ \A i \in DOMAIN up[c] : up[c][i] \in [type : {"MSG_QUERY", "MSG_EXIT"},
                                                query : Query \cup {NoQuery}]
       /\ \A i \in DOMAIN down[c] : down[c][i] \in Message
  /\ at \in [Client -> {"off", "prompt", "header", "body"}]
  /\ asked \in [Client -> Query \cup {NoQuery}]
  /\ server \in {"up", "stopped", "killed"}
  /\ sem \in {"absent", "posted", "taken"}
  /\ server = "up" => sem # "absent"
  /\ thread \in [Client -> {"none", "backlog", "receive", "yy_scan_string", "yyparse",
                            "return", "interp", "header", "body"}]
  /\ request \in [Client -> Query \cup {NoQuery}]
  /\ tree \in [Client -> Tree]
  /\ response \in [Client -> Message]
  /\ parse_tree \in Tree
  /\ raced \subseteq Parsing

\* The two ends of a connection stay in step: a client that asks has read the whole
\* answer before, a client that waits reads the part of the answer it waits for, and
\* that answers the request it sent, and as long as nothing is there to read the
\* request is on its way or its thread is working on it.
InStep ==
  \A c \in Client :
    LET waiting == at[c] \in {"header", "body"}
        working == thread[c] \notin {"none", "backlog", "receive"}
    IN
    /\ at[c] = "prompt" => up[c] = << >> /\ down[c] = << >> /\ ~working
    /\ waiting /\ down[c] # << >> =>
         Head(down[c]).part = at[c] /\ \A i \in DOMAIN down[c] : down[c][i].to = asked[c]
    /\ waiting /\ down[c] = << >> /\ thread[c] # "none" =>
         IF working THEN request[c] = asked[c] /\ (at[c] = "body" => thread[c] = "body")
         ELSE at[c] = "header" /\ Len(up[c]) = 1

\* A client that waits gets its answer or finds the connection closed, also when the
\* server dies or is stopped in the middle of a statement and started again; and a
\* client that is gone leaves no thread behind.  All this under Agreed: after a DDL
\* statement on an unknown table, say, which throws with metadata_sem taken, nobody
\* who sends another one is ever answered.
Answered ==
  \A c \in Client :
    /\ at[c] \in {"header", "body"} ~> at[c] \in {"prompt", "off"}
    /\ at[c] = "off" ~> thread[c] = "none"

\* PARSE_SQL_USAGE.md:129-130: for a text it refuses the parser returns nullptr or
\* throws.  So a thread executes the statement its client has sent, or none.
OwnStatement ==
  \A c \in Client : thread[c] = "interp" =>
    tree[c] \in {NoTree} \cup ({Parsed(request[c])} \ Malformed)
=============================================================================
