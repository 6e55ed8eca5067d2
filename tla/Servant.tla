------------------------------ MODULE Servant ------------------------------
(***************************************************************************)
(* A servant: the HTTP server of xxutils/micro_http.cpp with one thread    *)
(* for each connection, and the wrapper of xxutils/servant_utils.cpp that  *)
(* authenticates a request, runs its handler in a transaction and restarts *)
(* it once after a database error.  Handlers differ in what of their work  *)
(* a rollback undoes: some commit themselves, some have told others of it. *)
(*                                                                         *)
(* A request is a sequence of items that arrive one by one: the request    *)
(* line, header lines, a blank line, and the body.  The client may stop    *)
(* sending or close its side after any of them, and disappear at any time. *)
(***************************************************************************)
EXTENDS Integers, Sequences, FiniteSets

CONSTANTS
  Client,          \* clients; each has one connection at a time
  NoClient,        \* a model value
  Sends,           \* the requests that each client sends
  MaxDead,         \* bound: threads that finish between two cleanups
  MaxFailedStarts  \* bound: threads that cannot be started

Message == UNION {Sends[c] : c \in Client}

Method == {"GET", "POST", "PUT"}

\* The methods, by what their handlers do:
Path ==
  {"xml",      \* all in the transaction of the wrapper: SecVault, most of KeyAPI
   "batch",    \* commits itself: rehash_tokens, reencrypt_deks
   "remote",   \* tells key keeper and hosts first: generate_kek, cleanup of KeyAPI
   "secured",  \* the key keeper, which has no database, and wants X-AUTH
   "patch",    \* ConfPatch: no database, and its failures are told in a 200
   "plain",    \* incoming and outgoing requests of the proxy
   "missing"}  \* there is no handler
Transactional == {"xml", "batch", "remote"}
Auth == {"right", "wrong", "none"}
Header == {"plain", "folded", "no colon"}

ASSUME ServantAssumption ==
  /\ NoClient \notin Client
  /\ MaxDead \in Nat /\ MaxFailedStarts \in Nat
  /\ Message # {}
  /\ \A m \in Message :
        /\ m.line \in BOOLEAN          \* three words and a version that exists
        /\ m.headers \in Seq(Header)
        /\ m.method \in Method /\ m.path \in Path
        /\ m.auth \in Auth             \* X-AUTH
        /\ m.length \in Nat            \* Content-Length; 0 if missing or no number
        /\ m.form \in BOOLEAN          \* a body that is said to be a form can be parsed
        /\ m.body \in Nat              \* the bytes that follow

VARIABLES
  thread,    \* the thread that serves the client: what it does, what it has read,
             \* its answer, and what has been done for the request
  socket,    \* the server's side of the connection of the client
  server,    \* the thread of serve()
  dead,      \* objects of `workers` whose thread has finished
  unstarted, \* objects of `workers` whose thread was never started
  due        \* have five seconds passed since prev_clean_ts?

list == <<dead, unstarted>>
vars == <<thread, socket, server, list, due>>

\* What has been done for a request and no rollback undoes: how often its work was
\* committed, how often other servants were told of it, and whether the answer to
\* a commit was lost.
DoneState == [effects : 0 .. 2, told : 0 .. 2, unsure : BOOLEAN]
Nothing == [effects |-> 0, told |-> 0, unsure |-> FALSE]

NoThread == [pc |-> "none", msg |-> CHOOSE m \in Message : TRUE, read |-> 0,
             attempt |-> 0, code |-> 0, done |-> Nothing]
Waiting == [pc |-> "accept", client |-> NoClient, force |-> FALSE]

Reading == {"line", "headers", "body"}
Handling == {"auth", "call", "commit"}

\* The length of the body the server expects: none with GET.
ContentLength(m) == IF m.method = "GET" THEN 0 ELSE m.length

\* urlparse_body has nothing to complain of.
Parsed(m) == ContentLength(m) > 0 => m.form

\* The items of a message: request line, headers, blank line, bytes.
Items(m) == 1 + Len(m.headers) + 1 + m.body
WholeSize(m) == 1 + Len(m.headers) + 1 + ContentLength(m)

ThreadState ==
  [pc : {"none", "new", "dispatch", "send"} \cup Reading \cup Handling, msg : Message,
   read : Nat, attempt : 0 .. 1, code : {0, 200, 400, 401, 404, 500},
   done : DoneState]

\* The state is well typed, and no thread reads what is not sent.
TypeOK ==
  /\ thread \in [Client -> ThreadState]
  /\ \A c \in Client : thread[c].read <= Items(thread[c].msg)
  /\ socket \in [Client -> {"closed", "backlog", "open"}]
  /\ server \in [pc : {"accept", "start", "clean"}, client : Client \cup {NoClient},
                 force : BOOLEAN]
  /\ dead \in Nat /\ unstarted \in 0 .. MaxFailedStarts
  /\ due \in BOOLEAN

Init ==
  /\ thread = [c \in Client |-> NoThread]
  /\ socket = [c \in Client |-> "closed"]
  /\ server = Waiting
  /\ dead = 0
  /\ unstarted = 0
  /\ due = FALSE

-----------------------------------------------------------------------------
(* serve()                                                                 *)

Running == {c \in Client : thread[c].pc # "none"}

\* Bound: the connections within five seconds, and then the one whose coming
\* has the threads collected.
Room == dead + Cardinality(Running) < MaxDead + (IF due THEN 1 ELSE 0)

Connect(c, m) ==
  /\ socket[c] = "closed"
  /\ \A d \in Client : socket[d] # "backlog"
  /\ Room
  /\ socket' = [socket EXCEPT ![c] = "backlog"]
  /\ thread' = [thread EXCEPT ![c].msg = m]
  /\ UNCHANGED <<server, list, due>>

\* accept(), and a new object at the end of the list.
Accept(c) ==
  /\ server.pc = "accept"
  /\ socket[c] = "backlog"
  /\ socket' = [socket EXCEPT ![c] = "open"]
  /\ thread' = [thread EXCEPT ![c].pc = "new"]
  /\ server' = [server EXCEPT !.pc = "start", !.client = c]
  /\ UNCHANGED <<list, due>>

\* accept() throws: the client has given up, or no descriptor is left, and the
\* connection stays in the backlog.
AcceptFails(c) ==
  /\ server.pc = "accept"
  /\ socket[c] = "backlog"
  /\ socket' \in {socket, [socket EXCEPT ![c] = "closed"]}
  /\ server' = [server EXCEPT !.pc = "clean", !.force = TRUE]
  /\ UNCHANGED <<thread, list, due>>

StartWorker ==
  /\ server.pc = "start"
  /\ thread' = [thread EXCEPT ![server.client].pc = "line"]
  /\ server' = [Waiting EXCEPT !.pc = "clean"]
  /\ UNCHANGED <<socket, list, due>>

\* Mutant of StartFails: the socket is not closed.
StartFailsOpen ==
  /\ server.pc = "start"
  /\ unstarted < MaxFailedStarts
  /\ unstarted' = unstarted + 1
  /\ thread' = [thread EXCEPT ![server.client] = NoThread]
  /\ server' = [Waiting EXCEPT !.pc = "clean", !.force = TRUE]
  /\ UNCHANGED <<socket, dead, due>>

\* No thread: the destructor of a TcpSocket closes the connection; the object
\* stays in the list, and as it never runs it never finishes.
StartFails ==
  /\ server.pc = "start"
  /\ unstarted < MaxFailedStarts
  /\ unstarted' = unstarted + 1
  /\ thread' = [thread EXCEPT ![server.client] = NoThread]
  /\ socket' = [socket EXCEPT ![server.client] = "closed"]
  /\ server' = [Waiting EXCEPT !.pc = "clean", !.force = TRUE]
  /\ UNCHANGED <<dead, due>>

\* Mutant of CleanupWorkers: only after a failure.
CleanupForcedOnly ==
  /\ server.pc = "clean"
  /\ IF server.force
     THEN dead' = 0 /\ due' = FALSE
     ELSE UNCHANGED <<dead, due>>
  /\ server' = Waiting
  /\ UNCHANGED <<thread, socket, unstarted>>

\* cleanup_workers: nothing unless forced or due; then all that have finished
\* are joined and deleted.
CleanupWorkers ==
  /\ server.pc = "clean"
  /\ IF server.force \/ due
     THEN dead' = 0 /\ due' = FALSE
     ELSE UNCHANGED <<dead, due>>
  /\ server' = Waiting
  /\ UNCHANGED <<thread, socket, unstarted>>

\* The clock goes on.
FiveSeconds ==
  /\ due' = TRUE
  /\ UNCHANGED <<thread, socket, server, list>>

Serve ==
  \/ \E c \in Client : Accept(c)
  \/ \E c \in Client : AcceptFails(c)
  \/ StartWorker
  \/ StartFails
  \/ CleanupWorkers

-----------------------------------------------------------------------------
(* process_client_request(), in the thread of client c.                    *)

Msg(c) == thread[c].msg

\* readline() and read(): another item can arrive.
Sendable(c) == thread[c].read < Items(Msg(c))

Becomes(c, t) == thread' = [thread EXCEPT ![c] = t]
Goto(c, label) == Becomes(c, [thread[c] EXCEPT !.pc = label])
ReadOn(c, label) == Becomes(c, [thread[c] EXCEPT !.pc = label, !.read = @ + 1])
Answer(c, code) == Becomes(c, [thread[c] EXCEPT !.pc = "send", !.code = code])

\* parse_request_line
ReadRequestLine(c) ==
  /\ thread[c].pc = "line"
  /\ Sendable(c)
  /\ IF Msg(c).line THEN ReadOn(c, "headers") ELSE Answer(c, 400)
  /\ UNCHANGED <<socket, server, list, due>>

\* parse_header_line, unless the line starts with a space and continues another.
ReadHeader(c) ==
  /\ thread[c].pc = "headers"
  /\ Sendable(c)
  /\ thread[c].read <= Len(Msg(c).headers)
  /\ IF Msg(c).headers[thread[c].read] = "no colon"
     THEN Answer(c, 400) ELSE ReadOn(c, "headers")
  /\ UNCHANGED <<socket, server, list, due>>

\* The blank line ends the headers; then the body, if there is one.
ReadBlankLine(c) ==
  /\ thread[c].pc = "headers"
  /\ Sendable(c)
  /\ thread[c].read = 1 + Len(Msg(c).headers)
  /\ ReadOn(c, IF ContentLength(Msg(c)) > 0 THEN "body" ELSE "dispatch")
  /\ UNCHANGED <<socket, server, list, due>>

ReadByte(c) ==
  /\ thread[c].pc = "body"
  /\ Sendable(c)
  /\ ReadOn(c, IF thread[c].read + 1 = WholeSize(Msg(c)) THEN "dispatch" ELSE "body")
  /\ UNCHANGED <<socket, server, list, due>>

\* Mutant of ShortRead: the end of the stream ends the headers.
ShortReadAccepted(c) ==
  /\ thread[c].pc \in Reading
  /\ IF thread[c].pc = "headers" THEN Goto(c, "dispatch") ELSE Answer(c, 400)
  /\ UNCHANGED <<socket, server, list, due>>

\* The stream ends: an empty line is no header and no request line, and read()
\* wants n bytes.
ShortRead(c) ==
  /\ thread[c].pc \in Reading
  /\ Answer(c, 400)
  /\ UNCHANGED <<socket, server, list, due>>

\* Mutant of Timeout: it is only detected in the body.
TimeoutInBody(c) ==
  /\ thread[c].pc = "body"
  /\ Answer(c, 400)
  /\ UNCHANGED <<socket, server, list, due>>

\* Nothing arrives for 30 seconds.
Timeout(c) ==
  /\ thread[c].pc \in Reading
  /\ Answer(c, 400)
  /\ UNCHANGED <<socket, server, list, due>>

Served(c) == Parsed(Msg(c)) /\ Msg(c).method \in {"GET", "POST"}

\* The body is parsed, and the method and path looked at.
Dispatch(c) ==
  /\ thread[c].pc = "dispatch"
  /\ \/ ~Served(c) /\ Answer(c, 400)
     \/ Served(c) /\ Msg(c).path = "missing" /\ Answer(c, 404)
     \/ Served(c) /\ Msg(c).path # "missing" /\ Goto(c, "auth")
  /\ UNCHANGED <<socket, server, list, due>>

\* One response is sent; then the socket is closed, whether that failed or not.
SendResponse(c) ==
  /\ thread[c].pc = "send"
  /\ socket' = [socket EXCEPT ![c] = "closed"]
  /\ thread' = [thread EXCEPT ![c] = NoThread]
  /\ dead' = dead + 1
  /\ UNCHANGED <<server, unstarted, due>>

-----------------------------------------------------------------------------
(* XmlHttpWrapper::operator()                                              *)

\* check_auth: a missing header is the client's mistake, a wrong secret is not.
CheckAuth(c) ==
  /\ thread[c].pc = "auth"
  /\ \/ (Msg(c).path # "secured" \/ Msg(c).auth = "right") /\ Goto(c, "call")
     \/ Msg(c).path = "secured" /\ Msg(c).auth = "none" /\ Answer(c, 400)
     \/ Msg(c).path = "secured" /\ Msg(c).auth = "wrong" /\ Answer(c, 401)
  /\ UNCHANGED <<socket, server, list, due>>

IsPlain(c) == Msg(c).path = "plain"

\* Mutant of MayRestart: plain methods are restarted as well.
MayRestartPlain(c) == thread[c].attempt = 0

\* Mutant of MayRestart: again and again.
MayRestartForever(c) == ~IsPlain(c)

MayRestart(c) == ~IsPlain(c) /\ thread[c].attempt = 0

Done(c) == thread[c].done
Committed(d) == [d EXCEPT !.effects = @ + 1]
Told(d) == [d EXCEPT !.told = @ + 1]
Unanswered(d) == [d EXCEPT !.effects = @ + 1, !.unsure = TRUE]

\* The thread goes on, or answers, with d done for the request.
GoOn(c, d) == Becomes(c, [thread[c] EXCEPT !.pc = "commit", !.done = d])
Reply(c, code, d) == Becomes(c, [thread[c] EXCEPT !.pc = "send", !.code = code, !.done = d])
Restart(c, d) == Becomes(c, [thread[c] EXCEPT !.pc = "call", !.attempt = 1, !.done = d])

\* Yb::DBError.
DatabaseError(c, d) == IF MayRestart(c) THEN Restart(c, d) ELSE Reply(c, 500, d)

\* The handler of a method with a database returns: its transaction is open, or it
\* has committed it itself, or has told the key keeper and the hosts as well.
HandlerReturns(c) ==
  /\ thread[c].pc = "call"
  /\ \/ Msg(c).path = "xml" /\ GoOn(c, Done(c))
     \/ Msg(c).path = "batch" /\ GoOn(c, Committed(Done(c)))
     \/ Msg(c).path = "remote" /\ GoOn(c, Told(Done(c)))
  /\ UNCHANGED <<socket, server, list, due>>

\* Without a database there is nothing to commit, and the handler's work is done
\* when it returns; ConfPatch returns even when it could not do it.
WithoutDatabase(c) ==
  /\ thread[c].pc = "call"
  /\ \/ Msg(c).path \in {"secured", "patch"} /\ Reply(c, 200, Committed(Done(c)))
     \/ Msg(c).path = "patch" /\ Reply(c, 200, Done(c))
  /\ UNCHANGED <<socket, server, list, due>>

\* What a handler that throws leaves although its transaction is rolled back:
\* a remote one may have told all of the others, or some, before the next call
\* or statement fails.
Left(c) == {Done(c)} \cup (IF Msg(c).path = "remote" THEN {Told(Done(c))} ELSE {})

\* It throws: an ApiResult that tells the client what was wrong, a database error,
\* of which its own commit may be the cause, or something else.
HandlerThrows(c) ==
  /\ thread[c].pc = "call"
  /\ \/ Reply(c, 400, Done(c))
     \/ \E d \in Left(c) : Reply(c, 500, d)
     \/ /\ Msg(c).path \in Transactional \cup {"plain"}
        /\ \E d \in Left(c) : DatabaseError(c, d)
     \/ Msg(c).path = "batch" /\ DatabaseError(c, Unanswered(Done(c)))
  /\ UNCHANGED <<socket, server, list, due>>

\* A plain method commits what it does itself, and may still fail after that.
PlainMethod(c) ==
  /\ thread[c].pc = "call"
  /\ IsPlain(c)
  /\ \/ Reply(c, 200, Committed(Done(c)))
     \/ Reply(c, 500, Committed(Done(c)))
     \/ DatabaseError(c, Committed(Done(c)))
  /\ UNCHANGED <<socket, server, list, due>>

\* Nothing is left to commit of a batch.
Commit(c) ==
  /\ thread[c].pc = "commit"
  /\ Reply(c, 200, IF Msg(c).path = "batch" THEN Done(c) ELSE Committed(Done(c)))
  /\ UNCHANGED <<socket, server, list, due>>

\* The database fails; or only its answer to the commit is lost.  Either way the
\* work of a batch has been committed before.
CommitFails(c) ==
  /\ thread[c].pc = "commit"
  /\ \/ DatabaseError(c, Done(c))
     \/ Msg(c).path # "batch" /\ DatabaseError(c, Unanswered(Done(c)))
  /\ UNCHANGED <<socket, server, list, due>>

\* What the client does.
Input(c) ==
  \/ ReadRequestLine(c)
  \/ ReadHeader(c)
  \/ ReadBlankLine(c)
  \/ ReadByte(c)
  \/ ShortRead(c)

Work(c) ==
  \/ Timeout(c)
  \/ Dispatch(c)
  \/ SendResponse(c)
  \/ CheckAuth(c)
  \/ HandlerReturns(c)
  \/ WithoutDatabase(c)
  \/ HandlerThrows(c)
  \/ PlainMethod(c)
  \/ Commit(c)
  \/ CommitFails(c)

ClientsConnect == \E c \in Client : \E m \in Sends[c] : Connect(c, m)

Next ==
  \/ ClientsConnect
  \/ Serve
  \/ FiveSeconds
  \/ \E c \in Client : Input(c) \/ Work(c)

Spec == Init /\ [][Next]_vars

-----------------------------------------------------------------------------
(* Safety.                                                                 *)

\* A handler never runs on a part of a request: the line and all headers are well
\* formed, and the blank line and every byte of the body have arrived and can be
\* parsed, however the client cut, delayed or abandoned what it sent.
OnlyWholeRequests ==
  \A c \in Client : thread[c].pc \in Handling =>
     /\ Msg(c).line
     /\ "no colon" \notin {Msg(c).headers[i] : i \in DOMAIN Msg(c).headers}
     /\ thread[c].read = WholeSize(Msg(c))
     /\ Parsed(Msg(c))

\* What the client may conclude from its answer, for each kind of method.  A refusal
\* before the handler was called has done nothing.  After 200 the work is committed
\* (ConfPatch tells in the body whether).  After anything else nothing of it is in
\* the database, and it is never there twice, unless the database lost its answer to
\* a commit; or the method commits itself: a plain one that answers 500, or a batch
\* that was restarted after its own commit.  generate_kek and cleanup may have told
\* key keeper and hosts of what is then rolled back, but never the other way round:
\* nothing of theirs is committed that the others have not been told.
AnswerTellsEffect ==
  \A c \in Client : thread[c].pc = "send" =>
     LET t == thread[c]
         d == Done(c)
         path == Msg(c).path
     IN  /\ t.code \in {401, 404} => d = Nothing
         /\ t.code = 200 => d.effects > 0 \/ path = "patch"
         /\ t.code # 200 /\ d.effects > 0 =>
              \/ d.unsure
              \/ path = "plain" /\ t.code = 500
              \/ path = "batch" /\ t.attempt = 1
         /\ d.effects = 2 => d.unsure \/ path = "batch"
         /\ path = "remote" => d.effects <= d.told

\* No descriptor leaks: as long as a connection is open there is a thread, or
\* one that is about to start, that will close it, whatever failed meanwhile.
OpenIsServed ==
  \A c \in Client : socket[c] = "open" => c \in Running

-----------------------------------------------------------------------------
(* Liveness.                                                               *)

\* Threads run, select() times out and the clock goes on, clients need not do anything.
Fairness ==
  /\ WF_vars(Serve)
  /\ WF_vars(FiveSeconds)
  /\ \A c \in Client : WF_vars(Work(c))

\* Only the next connection makes serve() look for dead threads.
ClientsKeepComing == WF_vars(ClientsConnect)

\* A client that stalls does not keep its thread and socket for ever.
EveryConnectionEnds ==
  \A c \in Client : socket[c] = "open" ~> socket[c] # "open"

\* The list does not grow: threads that have finished are joined, and their objects deleted.
DeadAreCollected == dead > 0 ~> dead = 0

=============================================================================
