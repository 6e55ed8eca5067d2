--------------------------- MODULE ServantProofs ---------------------------
(***************************************************************************)
(* Proofs about Servant, for any clients and messages: handlers run on     *)
(* whole requests only, answers tell what was committed, and no connection *)
(* is open without a thread.                                               *)
(***************************************************************************)
EXTENDS Servant, TLAPS

\* How much a thread has read, and that it was well formed.
WellRead(t) ==
  LET m == t.msg
  IN  /\ t.pc \in {"none", "new", "line"} => t.read = 0
      /\ t.pc = "headers" =>
           /\ m.line = TRUE
           /\ t.read >= 1 /\ t.read <= Len(m.headers) + 1
           /\ \A i \in 1 .. Len(m.headers) : i < t.read => m.headers[i] # "no colon"
      /\ t.pc = "body" => t.read >= 2 + Len(m.headers) /\ t.read < WholeSize(m)
      /\ t.pc \in {"dispatch"} \cup Handling => t.read = WholeSize(m)
      /\ t.pc \in Handling => Parsed(m)
      /\ t.pc \in {"body", "dispatch"} \cup Handling =>
           /\ m.line = TRUE
           /\ \A i \in 1 .. Len(m.headers) : m.headers[i] # "no colon"

\* What may have been done when the handler is called: in a first attempt nothing,
\* in a second what the first has left.
Callable(path, attempt, d) ==
  /\ d.effects <= attempt /\ d.told <= attempt
  /\ d.effects = 1 => d.unsure = TRUE \/ path = "batch"
  /\ attempt = 1 => path \in Transactional
  /\ path = "remote" => d.effects <= d.told

\* What may have been done when the handler has returned.
Returned(path, attempt, d) ==
  /\ path \in Transactional
  /\ d.told <= attempt + 1
  /\ path = "batch" => d.effects >= 1 /\ d.effects <= attempt + 1
  /\ path # "batch" => d.effects <= attempt /\ (d.effects = 1 => d.unsure = TRUE)
  /\ path = "remote" => d.effects < d.told

\* What may have been done when the client is answered.
Honest(path, code, attempt, d) ==
  /\ code \in {401, 404} => d = Nothing
  /\ code = 200 => d.effects > 0 \/ path = "patch"
  /\ code # 200 /\ d.effects > 0 =>
       \/ d.unsure = TRUE
       \/ path = "plain" /\ code = 500
       \/ path = "batch" /\ attempt = 1
  /\ d.effects = 2 => d.unsure = TRUE \/ path = "batch"
  /\ path = "remote" => d.effects <= d.told

\* What a thread has done, and how often it has tried.
WellCounted(t) ==
  /\ t.pc \notin {"call", "commit", "send"} => t.attempt = 0 /\ t.done = Nothing
  /\ t.pc = "call" => Callable(t.msg.path, t.attempt, t.done)
  /\ t.pc = "commit" => Returned(t.msg.path, t.attempt, t.done)
  /\ t.pc = "send" => Honest(t.msg.path, t.code, t.attempt, t.done)

ThreadOK(t) ==
  /\ t \in ThreadState
  /\ t.read <= Items(t.msg)
  /\ WellRead(t)
  /\ WellCounted(t)

\* The connections that are open are those with a thread, started or about to be.
OpenRuns == \A c \in Client : socket[c] = "open" <=> thread[c].pc # "none"

\* serve() starts the thread of the connection it has accepted, and no other.
StartsAccepted ==
  /\ server.pc = "start" => server.client \in Client /\ thread[server.client].pc = "new"
  /\ \A c \in Client : thread[c].pc = "new" => server.pc = "start" /\ server.client = c

ServantInv ==
  /\ TypeOK
  /\ \A c \in Client : ThreadOK(thread[c])
  /\ OpenRuns
  /\ StartsAccepted

-----------------------------------------------------------------------------
(* The thread that serves a client.                                        *)

\* The length of each part of a message is a natural number.
LEMMA Sizes ==
  ASSUME NEW m \in Message
  PROVE  /\ Len(m.headers) \in Nat
         /\ ContentLength(m) \in Nat
         /\ WholeSize(m) = 2 + Len(m.headers) + ContentLength(m)
         /\ Items(m) = 2 + Len(m.headers) + m.body
         /\ m.body \in Nat
         /\ Items(m) \in Nat /\ WholeSize(m) \in Nat
BY ServantAssumption DEF ContentLength, WholeSize, Items

\* A step that only changes the record of one thread, which goes on running.
LEMMA ThreadStep ==
  ASSUME ServantInv, NEW c \in Client, NEW t,
         thread' = [thread EXCEPT ![c] = t],
         thread[c].pc \notin {"none", "new"}, t.pc \notin {"none", "new"},
         ThreadOK(t),
         UNCHANGED <<socket, server, list, due>>
  PROVE  ServantInv'
<1>1. \A d \in Client : thread'[d] = IF d = c THEN t ELSE thread[d]
  BY DEF ServantInv, TypeOK
<1>2. \A d \in Client : ThreadOK(thread[d])'
  <2> SUFFICES ASSUME NEW d \in Client
               PROVE  ThreadOK(thread'[d])
    BY DEF ThreadOK, WellRead, WellCounted, Callable, Returned, Honest
  <2> QED BY <1>1 DEF ServantInv
<1>3. TypeOK'
  <2>1. thread' \in [Client -> ThreadState]
    BY DEF ServantInv, TypeOK, ThreadOK
  <2>2. \A d \in Client : thread'[d].read <= Items(thread'[d].msg)
    BY <1>1 DEF ServantInv, TypeOK, ThreadOK
  <2> QED BY <2>1, <2>2 DEF ServantInv, TypeOK, list
<1>4. OpenRuns'
  BY <1>1 DEF ServantInv, OpenRuns
<1>5. StartsAccepted'
  BY <1>1 DEF ServantInv, StartsAccepted
<1> QED BY <1>2, <1>3, <1>4, <1>5 DEF ServantInv

\* The same of what a thread has to read.
Sized(t) ==
  /\ Len(t.msg.headers) \in Nat
  /\ ContentLength(t.msg) \in Nat
  /\ WholeSize(t.msg) = 2 + Len(t.msg.headers) + ContentLength(t.msg)
  /\ Items(t.msg) = 2 + Len(t.msg.headers) + t.msg.body
  /\ t.msg.body \in Nat

\* What is known of a thread whose record is looked at.
LEMMA Known ==
  ASSUME ServantInv, NEW c \in Client
  PROVE  /\ thread[c] \in ThreadState
         /\ thread[c].msg \in Message
         /\ thread[c].read \in Nat
         /\ thread[c].attempt \in 0 .. 1
         /\ thread[c].done \in DoneState
         /\ thread[c].read <= Items(thread[c].msg)
         /\ WellRead(thread[c])
         /\ WellCounted(thread[c])
         /\ Sized(thread[c])
<1>1. ThreadOK(thread[c])
  BY DEF ServantInv
<1>2. thread[c].msg \in Message
  BY <1>1 DEF ThreadOK, ThreadState
<1>3. Sized(thread[c])
  BY <1>2, Sizes DEF Sized
<1> QED BY <1>1, <1>3 DEF ThreadOK, ThreadState

\* Names for the sets that the actions choose from, and for the records they make.
Refusal == {400, 401, 404, 500}
Code == Refusal \cup {200}
Early == Reading \cup {"dispatch", "auth"}
Called == {"call", "commit"}
NextLabel == {"headers", "body", "dispatch"}
ReadTo(r, pc, n) == [r EXCEPT !.pc = pc, !.read = n]
Moved(r, pc) == [r EXCEPT !.pc = pc]
Sent(r, code) == [r EXCEPT !.pc = "send", !.code = code]
SentWith(r, code, d) == [r EXCEPT !.pc = "send", !.code = code, !.done = d]
GoneOn(r, d) == [r EXCEPT !.pc = "commit", !.done = d]
Restarted(r, d) == [r EXCEPT !.pc = "call", !.attempt = 1, !.done = d]

\* Which answers are refusals.
LEMMA Codes ==
  /\ 400 \in Refusal /\ 401 \in Refusal /\ 404 \in Refusal /\ 500 \in Refusal
  /\ Refusal \subseteq Code /\ 200 \in Code /\ 200 \notin Refusal
BY DEF Refusal, Code

\* The fields of each of these records, and its type.
LEMMA ReadToFields ==
  ASSUME NEW r \in ThreadState, NEW pc \in NextLabel, NEW n \in Nat
  PROVE  /\ ReadTo(r, pc, n) \in ThreadState
         /\ ReadTo(r, pc, n).pc = pc
         /\ ReadTo(r, pc, n).read = n
         /\ ReadTo(r, pc, n).msg = r.msg
         /\ ReadTo(r, pc, n).attempt = r.attempt
         /\ ReadTo(r, pc, n).done = r.done
<1> DEFINE s == [r EXCEPT !.pc = pc]
<1>1. /\ s \in ThreadState
      /\ s.pc = pc /\ s.msg = r.msg
      /\ s.attempt = r.attempt /\ s.done = r.done
  BY DEF ThreadState, Reading, NextLabel
<1>2. ReadTo(r, pc, n) = [s EXCEPT !.read = n]
  BY DEF ReadTo
<1> HIDE DEF s
<1> QED BY <1>1, <1>2 DEF ThreadState

\* The same for the thread of a client that reads on.
LEMMA ThreadReads ==
  ASSUME ServantInv, NEW c \in Client,
         NEW pc \in NextLabel, NEW n \in Nat
  PROVE  /\ ReadTo(thread[c], pc, n) \in ThreadState
         /\ ReadTo(thread[c], pc, n).pc = pc
         /\ ReadTo(thread[c], pc, n).read = n
         /\ ReadTo(thread[c], pc, n).msg = thread[c].msg
         /\ ReadTo(thread[c], pc, n).attempt = thread[c].attempt
         /\ ReadTo(thread[c], pc, n).done = thread[c].done
<1>1. thread[c] \in ThreadState
  BY Known
<1> QED BY <1>1, ReadToFields

LEMMA SentFields ==
  ASSUME NEW r \in ThreadState, NEW code \in Code
  PROVE  /\ Sent(r, code) \in ThreadState
         /\ Sent(r, code).pc = "send"
         /\ Sent(r, code).code = code
         /\ Sent(r, code).read = r.read
         /\ Sent(r, code).msg = r.msg
         /\ Sent(r, code).attempt = r.attempt
         /\ Sent(r, code).done = r.done
<1> DEFINE s == [r EXCEPT !.pc = "send"]
<1>1. /\ s \in ThreadState
      /\ s.pc = "send" /\ s.read = r.read /\ s.msg = r.msg
      /\ s.attempt = r.attempt /\ s.done = r.done
  BY DEF ThreadState
<1>2. Sent(r, code) = [s EXCEPT !.code = code]
  BY DEF Sent
<1> HIDE DEF s
<1> QED BY <1>1, <1>2 DEF ThreadState, Code, Refusal

LEMMA SentWithFields ==
  ASSUME NEW r \in ThreadState, NEW code \in Code, NEW d \in DoneState
  PROVE  /\ SentWith(r, code, d) \in ThreadState
         /\ SentWith(r, code, d).pc = "send"
         /\ SentWith(r, code, d).code = code
         /\ SentWith(r, code, d).read = r.read
         /\ SentWith(r, code, d).msg = r.msg
         /\ SentWith(r, code, d).attempt = r.attempt
         /\ SentWith(r, code, d).done = d
<1> DEFINE s == Sent(r, code)
<1>1. SentWith(r, code, d) = [s EXCEPT !.done = d]
  BY DEF SentWith, Sent
<1>2. /\ s \in ThreadState /\ s.pc = "send" /\ s.code = code
      /\ s.read = r.read /\ s.msg = r.msg /\ s.attempt = r.attempt
  BY SentFields
<1> HIDE DEF s
<1> QED BY <1>1, <1>2 DEF ThreadState

LEMMA MovedFields ==
  ASSUME NEW r \in ThreadState, NEW pc \in Handling
  PROVE  /\ Moved(r, pc) \in ThreadState
         /\ Moved(r, pc).pc = pc
         /\ Moved(r, pc).read = r.read
         /\ Moved(r, pc).msg = r.msg
         /\ Moved(r, pc).attempt = r.attempt
         /\ Moved(r, pc).done = r.done
BY DEF Moved, ThreadState, Handling

LEMMA GoneOnFields ==
  ASSUME NEW r \in ThreadState, NEW d \in DoneState
  PROVE  /\ GoneOn(r, d) \in ThreadState
         /\ GoneOn(r, d).pc = "commit"
         /\ GoneOn(r, d).read = r.read
         /\ GoneOn(r, d).msg = r.msg
         /\ GoneOn(r, d).attempt = r.attempt
         /\ GoneOn(r, d).done = d
<1> DEFINE s == Moved(r, "commit")
<1>1. GoneOn(r, d) = [s EXCEPT !.done = d]
  BY DEF GoneOn, Moved
<1>2. /\ s \in ThreadState /\ s.pc = "commit"
      /\ s.read = r.read /\ s.msg = r.msg /\ s.attempt = r.attempt
  BY MovedFields DEF Handling
<1> HIDE DEF s
<1> QED BY <1>1, <1>2 DEF ThreadState

LEMMA RestartedFields ==
  ASSUME NEW r \in ThreadState, NEW d \in DoneState
  PROVE  /\ Restarted(r, d) \in ThreadState
         /\ Restarted(r, d).pc = "call"
         /\ Restarted(r, d).read = r.read
         /\ Restarted(r, d).msg = r.msg
         /\ Restarted(r, d).attempt = 1
         /\ Restarted(r, d).done = d
<1> DEFINE s == Moved(r, "call")
           u == [s EXCEPT !.attempt = 1]
<1>1. Restarted(r, d) = [u EXCEPT !.done = d]
  BY DEF Restarted, Moved
<1>2. /\ s \in ThreadState /\ s.pc = "call" /\ s.read = r.read /\ s.msg = r.msg
  BY MovedFields DEF Handling
<1> HIDE DEF s
<1>3. /\ u \in ThreadState /\ u.pc = "call" /\ u.attempt = 1
      /\ u.read = r.read /\ u.msg = r.msg
  BY <1>2 DEF ThreadState
<1> HIDE DEF u
<1> QED BY <1>1, <1>3 DEF ThreadState

\* What a commit, a call of other servants and a commit without an answer add.
LEMMA CommittedFields ==
  ASSUME NEW d \in DoneState, d.effects <= 1
  PROVE  /\ Committed(d) \in DoneState
         /\ Committed(d).effects = d.effects + 1
         /\ Committed(d).told = d.told
         /\ Committed(d).unsure = d.unsure
BY DEF Committed, DoneState

LEMMA ToldFields ==
  ASSUME NEW d \in DoneState, d.told <= 1
  PROVE  /\ Told(d) \in DoneState
         /\ Told(d).effects = d.effects
         /\ Told(d).told = d.told + 1
         /\ Told(d).unsure = d.unsure
BY DEF Told, DoneState

LEMMA UnansweredFields ==
  ASSUME NEW d \in DoneState, d.effects <= 1
  PROVE  /\ Unanswered(d) \in DoneState
         /\ Unanswered(d).effects = d.effects + 1
         /\ Unanswered(d).told = d.told
         /\ Unanswered(d).unsure = TRUE
<1> DEFINE e == Committed(d)
<1>1. Unanswered(d) = [e EXCEPT !.unsure = TRUE]
  BY DEF Unanswered, Committed
<1>2. e \in DoneState /\ e.effects = d.effects + 1 /\ e.told = d.told
  BY CommittedFields
<1> HIDE DEF e
<1> QED BY <1>1, <1>2 DEF DoneState

LEMMA NothingDone ==
  /\ Nothing \in DoneState
  /\ Nothing.effects = 0 /\ Nothing.told = 0
BY DEF Nothing, DoneState

\* An answer needs only be an honest one.
LEMMA AnswerOK ==
  ASSUME NEW t \in ThreadState, t.pc = "send", t.read <= Items(t.msg),
         Honest(t.msg.path, t.code, t.attempt, t.done)
  PROVE  ThreadOK(t) /\ t.pc \notin {"none", "new"}
<1>1. WellRead(t)
  BY DEF WellRead, Handling
<1>2. WellCounted(t)
  BY DEF WellCounted
<1> QED BY <1>1, <1>2 DEF ThreadOK

\* Before the handler is called nothing has been done.
LEMMA SentEarly ==
  ASSUME ServantInv, NEW c \in Client, thread[c].pc \in Early,
         \E code \in Refusal : thread' = [thread EXCEPT ![c] = Sent(thread[c], code)],
         UNCHANGED <<socket, server, list, due>>
  PROVE  ServantInv'
<1>1. PICK code \in Refusal : thread' = [thread EXCEPT ![c] = Sent(thread[c], code)]
  OBVIOUS
<1> DEFINE t == Sent(thread[c], code)
<1>2. code \in Code /\ code # 200
  BY DEF Code, Refusal
<1>3. thread[c].done = Nothing
  <2>1. WellCounted(thread[c])
    BY Known
  <2> QED BY <2>1 DEF WellCounted, Early, Reading
<1>4. thread[c] \in ThreadState /\ thread[c].read <= Items(thread[c].msg)
  BY Known
<1>5. /\ t \in ThreadState /\ t.pc = "send" /\ t.code = code /\ t.done = Nothing
      /\ t.read = thread[c].read /\ t.msg = thread[c].msg
  BY <1>2, <1>3, <1>4, SentFields
<1> HIDE DEF t
<1>6. Honest(t.msg.path, t.code, t.attempt, t.done)
  BY <1>2, <1>5, NothingDone DEF Honest
<1>7. ThreadOK(t) /\ t.pc \notin {"none", "new"}
  BY <1>4, <1>5, <1>6, AnswerOK
<1>8. thread[c].pc \notin {"none", "new"}
  BY DEF Early, Reading
<1> QED BY <1>1, <1>7, <1>8, ThreadStep DEF t

-----------------------------------------------------------------------------
(* The actions of the thread: each keeps the invariant.                    *)

LEMMA ReadRequestLineInv ==
  ASSUME ServantInv, NEW c \in Client, ReadRequestLine(c)
  PROVE  ServantInv'
<1>1. CASE Msg(c).line = TRUE
  <2> DEFINE r == thread[c]
             t == ReadTo(r, "headers", r.read + 1)
  <2>1. thread' = [thread EXCEPT ![c] = t]
    BY <1>1 DEF ReadRequestLine, ReadOn, Becomes, ReadTo
  <2>2. /\ r \in ThreadState /\ Sized(r) /\ r.msg.line = TRUE
        /\ r.read = 0 /\ r.attempt = 0 /\ r.done = Nothing
        /\ r.pc = "line"
    BY <1>1, Known DEF ReadRequestLine, Msg, WellRead, WellCounted
  <2>3. /\ t \in ThreadState /\ t.pc = "headers" /\ t.read = 1 /\ t.msg = r.msg
        /\ t.attempt = 0 /\ t.done = Nothing
    <3>1. "headers" \in NextLabel
      BY DEF NextLabel
    <3>2. r.read + 1 = 1 /\ r.read + 1 \in Nat
      BY <2>2
    <3> QED BY <2>2, <3>1, <3>2, ThreadReads
  <2> HIDE DEF t
  <2>4. WellRead(t)
    <3>1. Len(r.msg.headers) \in Nat
      BY <2>2 DEF Sized
    <3>2. /\ 1 <= Len(r.msg.headers) + 1
          /\ \A i \in 1 .. Len(r.msg.headers) : ~(i < 1)
      BY <3>1
    <3>3. /\ t.pc = "headers" /\ t.msg.line = TRUE
          /\ t.read >= 1 /\ t.read <= Len(t.msg.headers) + 1
          /\ \A i \in 1 .. Len(t.msg.headers) : ~(i < t.read)
      BY <2>2, <2>3, <3>2
    <3> QED BY <3>3 DEF WellRead, Handling
  <2>5. WellCounted(t)
    BY <2>3 DEF WellCounted
  <2>6. t.read <= Items(t.msg)
    BY <2>2, <2>3 DEF Sized
  <2> QED BY <2>1, <2>2, <2>3, <2>4, <2>5, <2>6, ThreadStep DEF ReadRequestLine, ThreadOK
<1>2. CASE Msg(c).line = FALSE
  <2>1. \E code \in Refusal : thread' = [thread EXCEPT ![c] = Sent(thread[c], code)]
    BY <1>2 DEF ReadRequestLine, Answer, Becomes, Sent, Msg, Refusal
  <2>2. thread[c].pc \in Early /\ UNCHANGED <<socket, server, list, due>>
    BY DEF ReadRequestLine, Early, Reading
  <2> QED BY <2>1, <2>2, SentEarly
<1> QED BY <1>1, <1>2, Known, ServantAssumption DEF Msg

LEMMA ReadHeaderInv ==
  ASSUME ServantInv, NEW c \in Client, ReadHeader(c)
  PROVE  ServantInv'
<1> DEFINE r == thread[c]
           n == r.read + 1
           len == Len(r.msg.headers)
<1>1. /\ r \in ThreadState /\ r.pc = "headers"
      /\ WellRead(r) /\ WellCounted(r) /\ Sized(r)
  BY Known DEF ReadHeader
<1>2. /\ r.read \in Nat /\ len \in Nat /\ r.read <= len
      /\ Items(r.msg) = 2 + len + r.msg.body /\ r.msg.body \in Nat
  BY Known DEF ReadHeader, Msg, Sized
<1>3. /\ r.msg.line = TRUE
      /\ r.read >= 1
      /\ \A i \in 1 .. len : i < r.read => r.msg.headers[i] # "no colon"
  BY <1>1, <1>2 DEF WellRead
<1>4. r.attempt = 0 /\ r.done = Nothing
  BY <1>1 DEF WellCounted
<1>5. CASE r.msg.headers[r.read] # "no colon"
  <2> DEFINE t == ReadTo(r, "headers", n)
  <2>1. thread' = [thread EXCEPT ![c] = t]
    BY <1>5 DEF ReadHeader, ReadOn, Becomes, ReadTo, Msg
  <2>2. n >= 1 /\ n <= len + 1 /\ n <= Items(r.msg)
    BY <1>2
  <2>b. n \in Nat
    BY <1>2
  <2>3. \A i \in 1 .. len : i < n => r.msg.headers[i] # "no colon"
    <3>1. \A i \in 1 .. len : i < n => i < r.read \/ i = r.read
      BY <1>2
    <3> QED BY <1>3, <1>5, <3>1
  <2> HIDE DEF n, len
  <2>4. /\ t \in ThreadState /\ t.pc = "headers" /\ t.read = n /\ t.msg = r.msg
        /\ t.attempt = r.attempt /\ t.done = r.done
    <3>1. "headers" \in NextLabel
      BY DEF NextLabel
    <3> QED BY <2>b, <3>1, ThreadReads
  <2> HIDE DEF t
  <2>5. WellRead(t)
    BY <1>3, <2>2, <2>3, <2>4 DEF WellRead, Handling, len
  <2>6. WellCounted(t)
    BY <1>4, <2>4 DEF WellCounted
  <2>7. t.read <= Items(t.msg)
    BY <2>2, <2>4
  <2> QED BY <1>1, <2>1, <2>4, <2>5, <2>6, <2>7, ThreadStep DEF ReadHeader, ThreadOK
<1>6. CASE r.msg.headers[r.read] = "no colon"
  <2>1. \E code \in Refusal : thread' = [thread EXCEPT ![c] = Sent(thread[c], code)]
    BY <1>6 DEF ReadHeader, Answer, Becomes, Sent, Msg, Refusal
  <2>2. thread[c].pc \in Early /\ UNCHANGED <<socket, server, list, due>>
    BY <1>1 DEF ReadHeader, Early, Reading
  <2> QED BY <2>1, <2>2, SentEarly
<1> QED BY <1>5, <1>6

\* After the blank line, and after each byte, the server waits for the rest of
\* the body, or has read all that it will.
Past(m, n, label) ==
  /\ m.line = TRUE
  /\ \A i \in 1 .. Len(m.headers) : m.headers[i] # "no colon"
  /\ n <= Items(m)
  /\ \/ label = "body" /\ n >= 2 + Len(m.headers) /\ n < WholeSize(m)
     \/ label = "dispatch" /\ n = WholeSize(m)

\* Reading on keeps the invariant.
LEMMA ReadOnInv ==
  ASSUME ServantInv, NEW c \in Client, NEW n \in Nat, NEW label \in NextLabel,
         thread' = [thread EXCEPT ![c] = ReadTo(thread[c], label, n)],
         UNCHANGED <<socket, server, list, due>>,
         thread[c].pc \in Reading,
         Past(thread[c].msg, n, label)
  PROVE  ServantInv'
<1> DEFINE r == thread[c]
           t == ReadTo(r, label, n)
<1>1. r \in ThreadState /\ WellCounted(r)
  BY Known
<1>2. r.attempt = 0 /\ r.done = Nothing
  BY <1>1 DEF WellCounted, Reading
<1>3. /\ t \in ThreadState /\ t.pc = label /\ t.read = n /\ t.msg = r.msg
      /\ t.attempt = r.attempt /\ t.done = r.done
  BY ThreadReads
<1> HIDE DEF t
<1>4. Past(t.msg, t.read, t.pc)
  BY <1>3
<1>5. WellRead(t) /\ t.read <= Items(t.msg) /\ t.pc \in {"body", "dispatch"}
  BY <1>4 DEF WellRead, Handling, Past
<1>6. WellCounted(t)
  BY <1>2, <1>3, <1>5 DEF WellCounted
<1>7. ThreadOK(t) /\ t.pc \notin {"none", "new"} /\ r.pc \notin {"none", "new"}
  BY <1>3, <1>5, <1>6 DEF ThreadOK, Reading
<1> QED BY <1>7, ThreadStep DEF t

LEMMA ReadBlankLineInv ==
  ASSUME ServantInv, NEW c \in Client, ReadBlankLine(c)
  PROVE  ServantInv'
<1> DEFINE r == thread[c]
           n == r.read + 1
           len == Len(r.msg.headers)
           expected == ContentLength(r.msg)
           label == IF expected > 0 THEN "body" ELSE "dispatch"
<1>1. thread' = [thread EXCEPT ![c] = ReadTo(r, label, n)]
  BY DEF ReadBlankLine, ReadOn, Becomes, ReadTo, Msg
<1>2. r.pc = "headers" /\ WellRead(r)
  BY Known DEF ReadBlankLine
<1>3. /\ r.read \in Nat /\ len \in Nat /\ expected \in Nat
      /\ WholeSize(r.msg) = 2 + len + expected
      /\ Items(r.msg) = 2 + len + r.msg.body /\ r.msg.body \in Nat
      /\ r.read = 1 + len
  BY Known DEF ReadBlankLine, Msg, Sized
<1>4. \A i \in 1 .. len : i < r.read
  BY <1>3
<1>5. /\ r.msg.line = TRUE
      /\ \A i \in 1 .. len : r.msg.headers[i] # "no colon"
  BY <1>2, <1>4 DEF WellRead
<1>6. /\ n \in Nat /\ n <= Items(r.msg)
      /\ expected > 0 => n >= 2 + len /\ n < WholeSize(r.msg)
      /\ ~(expected > 0) => n = WholeSize(r.msg)
  BY <1>3
<1>7. /\ label \in {"body", "dispatch"} /\ label \in NextLabel
      /\ label = "body" => expected > 0
      /\ label = "dispatch" => ~(expected > 0)
  BY DEF NextLabel
<1>8. UNCHANGED <<socket, server, list, due>>
  BY DEF ReadBlankLine
<1>9. r.pc \in Reading
  BY <1>2 DEF Reading
<1> HIDE DEF n, label, expected
<1>10. Past(r.msg, n, label)
  BY <1>5, <1>6, <1>7 DEF Past
<1> QED BY <1>1, <1>6, <1>7, <1>8, <1>9, <1>10, ReadOnInv

LEMMA ReadByteInv ==
  ASSUME ServantInv, NEW c \in Client, ReadByte(c)
  PROVE  ServantInv'
<1> DEFINE r == thread[c]
           n == r.read + 1
           len == Len(r.msg.headers)
           whole == WholeSize(r.msg)
           label == IF n = whole THEN "dispatch" ELSE "body"
<1>1. thread' = [thread EXCEPT ![c] = ReadTo(r, label, n)]
  BY DEF ReadByte, ReadOn, Becomes, ReadTo, Msg
<1>2. r.pc = "body" /\ WellRead(r)
  BY Known DEF ReadByte
<1>3. /\ r.read \in Nat /\ len \in Nat /\ ContentLength(r.msg) \in Nat
      /\ whole = 2 + len + ContentLength(r.msg)
      /\ Items(r.msg) = 2 + len + r.msg.body /\ r.msg.body \in Nat
      /\ r.read < Items(r.msg)
  BY Known DEF ReadByte, Msg, Sized, Sendable
<1>4. /\ r.msg.line = TRUE
      /\ \A i \in 1 .. len : r.msg.headers[i] # "no colon"
  BY <1>2 DEF WellRead
<1>5. r.read >= 2 + len /\ r.read < whole
  BY <1>2 DEF WellRead
<1>8. n \in Nat /\ n <= Items(r.msg)
  <2>1. Items(r.msg) \in Nat
    BY Known, Sizes
  <2>2. r.read \in Nat /\ r.read < Items(r.msg)
    BY <1>3
  <2> HIDE DEF r
  <2> QED BY <2>1, <2>2
<1>9. n = whole \/ (n >= 2 + len /\ n < whole)
  <2>1. r.read \in Nat /\ len \in Nat /\ whole \in Nat
    BY <1>3
  <2> HIDE DEF len, whole
  <2> QED BY <1>5, <2>1
<1>6. /\ label \in {"body", "dispatch"} /\ label \in NextLabel
      /\ label = "body" => n # whole
      /\ label = "dispatch" => n = whole
  BY DEF NextLabel
<1>7. UNCHANGED <<socket, server, list, due>>
  BY DEF ReadByte
<1>10. r.pc \in Reading
  BY <1>2 DEF Reading
<1> HIDE DEF n, label
<1>11. Past(r.msg, n, label)
  BY <1>4, <1>6, <1>8, <1>9 DEF Past
<1> QED BY <1>1, <1>6, <1>7, <1>8, <1>10, <1>11, ReadOnInv

\* The client stops, or nothing arrives in time.
LEMMA CutInv ==
  ASSUME ServantInv, NEW c \in Client, ShortRead(c) \/ Timeout(c)
  PROVE  ServantInv'
<1>1. thread[c].pc \in Early /\ UNCHANGED <<socket, server, list, due>>
  BY DEF ShortRead, Timeout, Early
<1>2. \E code \in Refusal : thread' = [thread EXCEPT ![c] = Sent(thread[c], code)]
  BY DEF ShortRead, Timeout, Answer, Becomes, Sent, Refusal
<1> QED BY <1>1, <1>2, SentEarly

LEMMA DispatchInv ==
  ASSUME ServantInv, NEW c \in Client, Dispatch(c)
  PROVE  ServantInv'
<1> DEFINE r == thread[c]
           t == Moved(r, "auth")
<1>1. \/ \E code \in Refusal : thread' = [thread EXCEPT ![c] = Sent(r, code)]
      \/ thread' = [thread EXCEPT ![c] = t]
  BY DEF Dispatch, Answer, Goto, Becomes, Sent, Moved, Refusal
<1>2. /\ r \in ThreadState /\ r.read <= Items(r.msg)
      /\ WellRead(r) /\ WellCounted(r) /\ r.pc = "dispatch"
  BY Known DEF Dispatch
<1>3. /\ r.pc \in Early /\ r.pc \notin {"none", "new"}
      /\ UNCHANGED <<socket, server, list, due>>
  BY <1>2 DEF Dispatch, Early
<1>4. CASE thread' = [thread EXCEPT ![c] = t]
  <2>1. /\ t \in ThreadState /\ t.pc = "auth" /\ t.read = r.read /\ t.msg = r.msg
        /\ t.attempt = r.attempt /\ t.done = r.done
    BY <1>2, MovedFields DEF Handling
  <2> HIDE DEF t
  <2>2. Parsed(r.msg)
    <3>1. t.pc # "send"
      BY <2>1
    <3>2. \A code \in Refusal : thread' # [thread EXCEPT ![c] = Sent(r, code)]
      <4> SUFFICES ASSUME NEW code \in Refusal,
                          thread' = [thread EXCEPT ![c] = Sent(r, code)]
                   PROVE  FALSE
        OBVIOUS
      <4>1. thread'[c] = Sent(r, code) /\ thread'[c] = t
        BY <1>4 DEF ServantInv, TypeOK
      <4>2. Sent(r, code).pc = "send"
        BY <1>2, Codes, SentFields
      <4> QED BY <3>1, <4>1, <4>2
    <3>3. Served(c)
      BY <3>2 DEF Dispatch, Answer, Becomes, Sent, Refusal
    <3> QED BY <3>3 DEF Served, Msg
  <2>3. WellRead(t) /\ WellCounted(t)
    BY <1>2, <2>1, <2>2 DEF WellRead, WellCounted, Handling
  <2>4. ThreadOK(t) /\ t.pc \notin {"none", "new"}
    BY <1>2, <2>1, <2>3 DEF ThreadOK
  <2> QED BY <1>3, <1>4, <2>4, ThreadStep
<1>5. CASE \E code \in Refusal : thread' = [thread EXCEPT ![c] = Sent(r, code)]
  BY <1>3, <1>5, SentEarly
<1> QED BY <1>1, <1>4, <1>5

\* What is known while a handler runs, or its transaction is open.
LEMMA Doing ==
  ASSUME ServantInv, NEW c \in Client, thread[c].pc \in Called
  PROVE  /\ thread[c] \in ThreadState
         /\ thread[c].attempt \in {0, 1}
         /\ thread[c].read <= Items(thread[c].msg)
         /\ Done(c) \in DoneState
         /\ Done(c).effects \in 0 .. 2 /\ Done(c).told \in 0 .. 2
         /\ thread[c].pc = "call" => Callable(Msg(c).path, thread[c].attempt, Done(c))
         /\ thread[c].pc = "commit" => Returned(Msg(c).path, thread[c].attempt, Done(c))
<1>1. WellCounted(thread[c]) /\ thread[c].done \in DoneState
  BY Known
<1>2. /\ thread[c] \in ThreadState /\ thread[c].attempt \in 0 .. 1
      /\ thread[c].read <= Items(thread[c].msg)
  BY Known
<1>3. Done(c).effects \in 0 .. 2 /\ Done(c).told \in 0 .. 2
  BY <1>1 DEF Done, DoneState
<1> QED BY <1>1, <1>2, <1>3 DEF WellCounted, Msg, Done

\* A thread that goes on with the same request.
LEMMA CallOK ==
  ASSUME ServantInv, NEW c \in Client, thread[c].pc \in Handling,
         NEW t \in ThreadState, t.pc \in Called,
         t.read = thread[c].read, t.msg = thread[c].msg,
         t.pc = "call" => Callable(Msg(c).path, t.attempt, t.done),
         t.pc = "commit" => Returned(Msg(c).path, t.attempt, t.done)
  PROVE  ThreadOK(t) /\ t.pc \notin {"none", "new"}
<1>1. WellRead(thread[c]) /\ thread[c].read <= Items(thread[c].msg)
  BY Known
<1>2. WellRead(t)
  BY <1>1 DEF WellRead, Handling, Called
<1>3. WellCounted(t)
  BY DEF WellCounted, Called, Msg
<1> QED BY <1>1, <1>2, <1>3 DEF ThreadOK, Called

LEMMA CheckAuthInv ==
  ASSUME ServantInv, NEW c \in Client, CheckAuth(c)
  PROVE  ServantInv'
<1> DEFINE r == thread[c]
           t == Moved(r, "call")
<1>1. \/ \E code \in Refusal : thread' = [thread EXCEPT ![c] = Sent(r, code)]
      \/ thread' = [thread EXCEPT ![c] = t]
  BY DEF CheckAuth, Answer, Goto, Becomes, Sent, Moved, Refusal
<1>2. r \in ThreadState /\ WellCounted(r) /\ r.pc = "auth"
  BY Known DEF CheckAuth
<1>3. /\ r.pc \in Early /\ r.pc \notin {"none", "new"}
      /\ UNCHANGED <<socket, server, list, due>>
  BY <1>2 DEF CheckAuth, Early
<1>4. CASE thread' = [thread EXCEPT ![c] = t]
  <2>1. r.attempt = 0 /\ r.done = Nothing
    BY <1>2 DEF WellCounted
  <2>2. /\ t \in ThreadState /\ t.pc = "call" /\ t.read = r.read /\ t.msg = r.msg
        /\ t.attempt = 0 /\ t.done = Nothing
    BY <1>2, <2>1, MovedFields DEF Handling
  <2> HIDE DEF t
  <2>3. Callable(Msg(c).path, t.attempt, t.done)
    BY <2>2, NothingDone DEF Callable
  <2>4. t.pc \in Called /\ r.pc \in Handling /\ t.pc # "commit"
    BY <1>2, <2>2 DEF Called, Handling
  <2>5. ThreadOK(t) /\ t.pc \notin {"none", "new"}
    BY <2>2, <2>3, <2>4, CallOK
  <2> QED BY <1>3, <1>4, <2>5, ThreadStep
<1>5. CASE \E code \in Refusal : thread' = [thread EXCEPT ![c] = Sent(r, code)]
  BY <1>3, <1>5, SentEarly
<1> QED BY <1>1, <1>4, <1>5

\* The ends of a call: an honest answer, the wrapper's commit, or a restart.
LEMMA ReplyInv ==
  ASSUME ServantInv, NEW c \in Client, thread[c].pc \in Called,
         NEW code \in Code, NEW d \in DoneState,
         Honest(Msg(c).path, code, thread[c].attempt, d),
         Reply(c, code, d), UNCHANGED <<socket, server, list, due>>
  PROVE  ServantInv'
<1> DEFINE t == SentWith(thread[c], code, d)
<1>1. thread' = [thread EXCEPT ![c] = t]
  BY DEF Reply, Becomes, SentWith
<1>2. thread[c] \in ThreadState /\ thread[c].read <= Items(thread[c].msg)
  BY Doing
<1>3. /\ t \in ThreadState /\ t.pc = "send" /\ t.code = code /\ t.done = d
      /\ t.read = thread[c].read /\ t.msg = thread[c].msg /\ t.attempt = thread[c].attempt
  BY <1>2, SentWithFields
<1> HIDE DEF t
<1>4. ThreadOK(t) /\ t.pc \notin {"none", "new"}
  BY <1>2, <1>3, AnswerOK DEF Msg
<1> QED BY <1>1, <1>4, ThreadStep DEF Called

LEMMA GoOnInv ==
  ASSUME ServantInv, NEW c \in Client, thread[c].pc \in Called, NEW d \in DoneState,
         Returned(Msg(c).path, thread[c].attempt, d),
         GoOn(c, d), UNCHANGED <<socket, server, list, due>>
  PROVE  ServantInv'
<1> DEFINE t == GoneOn(thread[c], d)
<1>1. thread' = [thread EXCEPT ![c] = t]
  BY DEF GoOn, Becomes, GoneOn
<1>2. thread[c] \in ThreadState
  BY Doing
<1>3. /\ t \in ThreadState /\ t.pc = "commit" /\ t.done = d
      /\ t.read = thread[c].read /\ t.msg = thread[c].msg /\ t.attempt = thread[c].attempt
  BY <1>2, GoneOnFields
<1> HIDE DEF t
<1>4. t.pc \in Called /\ t.pc # "call" /\ thread[c].pc \in Handling
  BY <1>3 DEF Called, Handling
<1>5. ThreadOK(t) /\ t.pc \notin {"none", "new"}
  BY <1>3, <1>4, CallOK
<1> QED BY <1>1, <1>5, ThreadStep DEF Called

LEMMA RestartInv ==
  ASSUME ServantInv, NEW c \in Client, thread[c].pc \in Called, NEW d \in DoneState,
         Callable(Msg(c).path, 1, d),
         Restart(c, d), UNCHANGED <<socket, server, list, due>>
  PROVE  ServantInv'
<1> DEFINE t == Restarted(thread[c], d)
<1>1. thread' = [thread EXCEPT ![c] = t]
  BY DEF Restart, Becomes, Restarted
<1>2. thread[c] \in ThreadState
  BY Doing
<1>3. /\ t \in ThreadState /\ t.pc = "call" /\ t.done = d /\ t.attempt = 1
      /\ t.read = thread[c].read /\ t.msg = thread[c].msg
  BY <1>2, RestartedFields
<1> HIDE DEF t
<1>4. t.pc \in Called /\ t.pc # "commit" /\ thread[c].pc \in Handling
  BY <1>3 DEF Called, Handling
<1>5. ThreadOK(t) /\ t.pc \notin {"none", "new"}
  BY <1>3, <1>4, CallOK
<1> QED BY <1>1, <1>5, ThreadStep DEF Called

\* A database error: the method is restarted in the first attempt, unless it is plain.
LEMMA DatabaseErrorInv ==
  ASSUME ServantInv, NEW c \in Client, thread[c].pc \in Called, NEW d \in DoneState,
         Msg(c).path # "plain" /\ thread[c].attempt = 0 => Callable(Msg(c).path, 1, d),
         Msg(c).path = "plain" \/ thread[c].attempt = 1 =>
           Honest(Msg(c).path, 500, thread[c].attempt, d),
         DatabaseError(c, d), UNCHANGED <<socket, server, list, due>>
  PROVE  ServantInv'
<1>1. CASE MayRestart(c)
  <2>1. Restart(c, d)
    BY <1>1 DEF DatabaseError
  <2>2. Callable(Msg(c).path, 1, d)
    BY <1>1 DEF MayRestart, IsPlain
  <2> QED BY <2>1, <2>2, RestartInv
<1>2. CASE ~MayRestart(c)
  <2>1. Reply(c, 500, d)
    BY <1>2 DEF DatabaseError
  <2>2. thread[c].attempt \in {0, 1}
    BY Doing
  <2>3. Honest(Msg(c).path, 500, thread[c].attempt, d)
    BY <1>2, <2>2 DEF MayRestart, IsPlain
  <2> QED BY <2>1, <2>3, Codes, ReplyInv
<1> QED BY <1>1, <1>2

LEMMA HandlerReturnsInv ==
  ASSUME ServantInv, NEW c \in Client, HandlerReturns(c)
  PROVE  ServantInv'
<1> DEFINE d == Done(c)
           path == Msg(c).path
           k == thread[c].attempt
<1>1. thread[c].pc \in Called /\ UNCHANGED <<socket, server, list, due>>
  BY DEF HandlerReturns, Called
<1>2. /\ d \in DoneState /\ k \in {0, 1} /\ Callable(path, k, d)
      /\ d.effects \in 0 .. 2 /\ d.told \in 0 .. 2
  BY <1>1, Doing DEF HandlerReturns
<1> HIDE DEF d, k
<1>3. d.effects <= 1 /\ d.told <= 1
  BY <1>2 DEF Callable
<1>4. CASE path = "xml" /\ GoOn(c, d)
  <2>1. Returned(path, k, d)
    BY <1>2, <1>4 DEF Callable, Returned, Transactional
  <2> QED BY <1>1, <1>2, <1>4, <2>1, GoOnInv DEF k
<1>5. CASE path = "batch" /\ GoOn(c, Committed(d))
  <2> DEFINE e == Committed(d)
  <2>1. e \in DoneState /\ e.effects = d.effects + 1 /\ e.told = d.told
    BY <1>2, <1>3, CommittedFields
  <2> HIDE DEF e
  <2>2. Returned(path, k, e)
    BY <1>2, <1>5, <2>1 DEF Callable, Returned, Transactional
  <2> QED BY <1>1, <1>5, <2>1, <2>2, GoOnInv DEF e, k
<1>6. CASE path = "remote" /\ GoOn(c, Told(d))
  <2> DEFINE e == Told(d)
  <2>1. /\ e \in DoneState /\ e.effects = d.effects /\ e.told = d.told + 1
        /\ e.unsure = d.unsure
    BY <1>2, <1>3, ToldFields
  <2> HIDE DEF e
  <2>2. Returned(path, k, e)
    BY <1>2, <1>6, <2>1 DEF Callable, Returned, Transactional
  <2> QED BY <1>1, <1>6, <2>1, <2>2, GoOnInv DEF e, k
<1> QED BY <1>4, <1>5, <1>6 DEF HandlerReturns, d

\* A method without a database is not restarted, nor a plain one.
LEMMA FirstAttempt ==
  ASSUME ServantInv, NEW c \in Client, thread[c].pc = "call",
         Msg(c).path \notin Transactional
  PROVE  Done(c) \in DoneState /\ Done(c).effects = 0
<1>1. /\ thread[c].attempt \in {0, 1} /\ Done(c) \in DoneState
      /\ Callable(Msg(c).path, thread[c].attempt, Done(c))
      /\ Done(c).effects \in 0 .. 2
  BY Doing DEF Called
<1> QED BY <1>1 DEF Callable

LEMMA WithoutDatabaseInv ==
  ASSUME ServantInv, NEW c \in Client, WithoutDatabase(c)
  PROVE  ServantInv'
<1> DEFINE d == Done(c)
           e == Committed(d)
           path == Msg(c).path
           k == thread[c].attempt
<1>1. /\ thread[c].pc = "call" /\ path \in {"secured", "patch"}
      /\ UNCHANGED <<socket, server, list, due>>
  BY DEF WithoutDatabase
<1>2. thread[c].pc \in Called /\ path \notin Transactional
  BY <1>1 DEF Called, Transactional
<1>3. d \in DoneState /\ d.effects = 0
  BY <1>1, <1>2, FirstAttempt
<1>4. e \in DoneState /\ e.effects = 1
  BY <1>3, CommittedFields
<1>5. 200 \in Code
  BY Codes
<1> HIDE DEF d, e, k
<1>6. CASE Reply(c, 200, e)
  <2>1. Honest(path, 200, k, e)
    BY <1>1, <1>4 DEF Honest
  <2> QED BY <1>1, <1>2, <1>4, <1>5, <1>6, <2>1, ReplyInv DEF k
<1>7. CASE path = "patch" /\ Reply(c, 200, d)
  <2>1. Honest(path, 200, k, d)
    BY <1>3, <1>7 DEF Honest
  <2> QED BY <1>1, <1>2, <1>3, <1>5, <1>7, <2>1, ReplyInv DEF k
<1> QED BY <1>6, <1>7 DEF WithoutDatabase, d, e

\* What a handler that throws has left may be answered with 400 or 500, or be followed
\* by a second attempt.
LEMMA Thrown ==
  ASSUME ServantInv, NEW c \in Client, thread[c].pc = "call", NEW d \in Left(c)
  PROVE  /\ d \in DoneState
         /\ \A code \in {400, 500} : Honest(Msg(c).path, code, thread[c].attempt, d)
         /\ Msg(c).path \in Transactional /\ thread[c].attempt = 0 =>
              Callable(Msg(c).path, 1, d)
<1> DEFINE b == Done(c)
           path == Msg(c).path
           k == thread[c].attempt
<1>1. /\ b \in DoneState /\ k \in {0, 1} /\ Callable(path, k, b)
      /\ b.effects \in 0 .. 2 /\ b.told \in 0 .. 2
  BY Doing DEF Called
<1>2. d = b \/ (path = "remote" /\ d = Told(b))
  BY DEF Left
<1> HIDE DEF b, k, path
<1>3. b.told <= 1
  BY <1>1 DEF Callable
<1>4. /\ d \in DoneState /\ d.effects = b.effects /\ d.unsure = b.unsure
      /\ d.told \in {b.told, b.told + 1}
  <2>1. CASE d = b
    BY <1>1, <2>1
  <2>2. CASE d = Told(b)
    BY <1>1, <1>3, <2>2, ToldFields
  <2> QED BY <1>2, <2>1, <2>2
<1>5. ASSUME NEW code \in {400, 500}
      PROVE  Honest(path, code, k, d)
  BY <1>1, <1>4 DEF Callable, Honest
<1>6. ASSUME path \in Transactional, k = 0
      PROVE  Callable(path, 1, d)
  BY <1>1, <1>4, <1>6 DEF Callable
<1> QED BY <1>4, <1>5, <1>6 DEF path, k

LEMMA HandlerThrowsInv ==
  ASSUME ServantInv, NEW c \in Client, HandlerThrows(c)
  PROVE  ServantInv'
<1>1. /\ thread[c].pc = "call" /\ thread[c].pc \in Called
      /\ UNCHANGED <<socket, server, list, due>>
  BY DEF HandlerThrows, Called
<1>2. 400 \in Code /\ 500 \in Code
  BY Codes
<1>3. Done(c) \in Left(c)
  BY DEF Left
<1>4. CASE Reply(c, 400, Done(c))
  <2>1. Done(c) \in DoneState /\ Honest(Msg(c).path, 400, thread[c].attempt, Done(c))
    BY <1>1, <1>3, Thrown
  <2> QED BY <1>1, <1>2, <1>4, <2>1, ReplyInv
<1>5. CASE \E d \in Left(c) : Reply(c, 500, d)
  <2>1. PICK d \in Left(c) : Reply(c, 500, d)
    BY <1>5
  <2>2. d \in DoneState /\ Honest(Msg(c).path, 500, thread[c].attempt, d)
    BY <1>1, Thrown
  <2> QED BY <1>1, <1>2, <2>1, <2>2, ReplyInv
<1>6. CASE /\ Msg(c).path \in Transactional \cup {"plain"}
           /\ \E d \in Left(c) : DatabaseError(c, d)
  <2>1. PICK d \in Left(c) : DatabaseError(c, d)
    BY <1>6
  <2>2. /\ d \in DoneState /\ Honest(Msg(c).path, 500, thread[c].attempt, d)
        /\ Msg(c).path # "plain" /\ thread[c].attempt = 0 => Callable(Msg(c).path, 1, d)
    BY <1>1, <1>6, Thrown
  <2> QED BY <1>1, <2>1, <2>2, DatabaseErrorInv
<1>7. CASE Msg(c).path = "batch" /\ DatabaseError(c, Unanswered(Done(c)))
  <2> DEFINE b == Done(c)
             e == Unanswered(b)
             path == Msg(c).path
             k == thread[c].attempt
  <2>1. /\ b \in DoneState /\ k \in {0, 1} /\ Callable(path, k, b)
        /\ b.effects \in 0 .. 2 /\ b.told \in 0 .. 2
    BY <1>1, Doing
  <2>2. b.effects <= 1
    BY <2>1 DEF Callable
  <2>3. /\ e \in DoneState /\ e.effects = b.effects + 1 /\ e.unsure = TRUE
        /\ e.told = b.told
    BY <2>1, <2>2, UnansweredFields
  <2> HIDE DEF b, e, k
  <2>4. Honest(path, 500, k, e)
    BY <1>7, <2>1, <2>3 DEF Honest
  <2>5. k = 0 => Callable(path, 1, e)
    BY <1>7, <2>1, <2>3 DEF Callable, Transactional
  <2>6. DatabaseError(c, e)
    BY <1>7 DEF e, b
  <2> QED BY <1>1, <2>3, <2>4, <2>5, <2>6, DatabaseErrorInv DEF k
<1> QED BY <1>4, <1>5, <1>6, <1>7 DEF HandlerThrows

LEMMA PlainMethodInv ==
  ASSUME ServantInv, NEW c \in Client, PlainMethod(c)
  PROVE  ServantInv'
<1> DEFINE d == Done(c)
           e == Committed(d)
           path == Msg(c).path
           k == thread[c].attempt
<1>1. /\ thread[c].pc = "call" /\ path = "plain"
      /\ UNCHANGED <<socket, server, list, due>>
  BY DEF PlainMethod, IsPlain
<1>2. thread[c].pc \in Called /\ path \notin Transactional
  BY <1>1 DEF Called, Transactional
<1>3. d \in DoneState /\ d.effects = 0
  BY <1>1, <1>2, FirstAttempt
<1>4. e \in DoneState /\ e.effects = 1
  BY <1>3, CommittedFields
<1>5. 200 \in Code /\ 500 \in Code
  BY Codes
<1> HIDE DEF d, e, k
<1>6. Honest(path, 200, k, e) /\ Honest(path, 500, k, e)
  BY <1>1, <1>4 DEF Honest
<1>7. CASE Reply(c, 200, e)
  BY <1>1, <1>2, <1>4, <1>5, <1>6, <1>7, ReplyInv DEF k
<1>8. CASE Reply(c, 500, e)
  BY <1>1, <1>2, <1>4, <1>5, <1>6, <1>8, ReplyInv DEF k
<1>9. CASE DatabaseError(c, e)
  BY <1>1, <1>2, <1>4, <1>6, <1>9, DatabaseErrorInv DEF k
<1> QED BY <1>7, <1>8, <1>9 DEF PlainMethod, d, e

LEMMA CommitInv ==
  ASSUME ServantInv, NEW c \in Client, Commit(c)
  PROVE  ServantInv'
<1> DEFINE d == Done(c)
           path == Msg(c).path
           k == thread[c].attempt
           e == IF path = "batch" THEN d ELSE Committed(d)
<1>1. /\ thread[c].pc = "commit" /\ thread[c].pc \in Called
      /\ UNCHANGED <<socket, server, list, due>>
  BY DEF Commit, Called
<1>2. /\ d \in DoneState /\ k \in {0, 1} /\ Returned(path, k, d)
      /\ d.effects \in 0 .. 2 /\ d.told \in 0 .. 2
  BY <1>1, Doing
<1>3. Reply(c, 200, e) /\ 200 \in Code
  BY Codes DEF Commit
<1> HIDE DEF d, k
<1>4. CASE path = "batch"
  <2>1. e = d
    BY <1>4
  <2>2. Honest(path, 200, k, d)
    BY <1>2, <1>4 DEF Returned, Honest
  <2> QED BY <1>1, <1>2, <1>3, <2>1, <2>2, ReplyInv DEF k
<1>5. CASE path # "batch"
  <2>1. d.effects <= 1
    BY <1>2, <1>5 DEF Returned
  <2>2. /\ e \in DoneState /\ e.effects = d.effects + 1 /\ e.told = d.told
        /\ e.unsure = d.unsure
    BY <1>2, <1>5, <2>1, CommittedFields
  <2> HIDE DEF e
  <2>3. Honest(path, 200, k, e)
    BY <1>2, <1>5, <2>2 DEF Returned, Honest
  <2> QED BY <1>1, <1>3, <2>2, <2>3, ReplyInv DEF k
<1> QED BY <1>4, <1>5

LEMMA CommitFailsInv ==
  ASSUME ServantInv, NEW c \in Client, CommitFails(c)
  PROVE  ServantInv'
<1> DEFINE d == Done(c)
           path == Msg(c).path
           k == thread[c].attempt
<1>1. /\ thread[c].pc = "commit" /\ thread[c].pc \in Called
      /\ UNCHANGED <<socket, server, list, due>>
  BY DEF CommitFails, Called
<1>2. /\ d \in DoneState /\ k \in {0, 1} /\ Returned(path, k, d)
      /\ d.effects \in 0 .. 2 /\ d.told \in 0 .. 2
  BY <1>1, Doing
<1> HIDE DEF d, k
<1>3. path \in Transactional /\ path # "plain"
  BY <1>2 DEF Returned, Transactional
<1>4. CASE DatabaseError(c, d)
  <2>1. k = 0 => Callable(path, 1, d)
    BY <1>2, <1>3 DEF Returned, Callable
  <2>2. k = 1 => Honest(path, 500, k, d)
    BY <1>2, <1>3 DEF Returned, Honest
  <2> QED BY <1>1, <1>2, <1>3, <1>4, <2>1, <2>2, DatabaseErrorInv DEF k
<1>5. CASE path # "batch" /\ DatabaseError(c, Unanswered(d))
  <2> DEFINE e == Unanswered(d)
  <2>1. d.effects <= 1
    BY <1>2, <1>5 DEF Returned
  <2>2. /\ e \in DoneState /\ e.effects = d.effects + 1 /\ e.unsure = TRUE
        /\ e.told = d.told
    BY <1>2, <2>1, UnansweredFields
  <2> HIDE DEF e
  <2>3. k = 0 => Callable(path, 1, e)
    BY <1>2, <1>3, <1>5, <2>2 DEF Returned, Callable
  <2>4. k = 1 => Honest(path, 500, k, e)
    BY <1>2, <1>3, <1>5, <2>2 DEF Returned, Honest
  <2>5. DatabaseError(c, e)
    BY <1>5 DEF e
  <2> QED BY <1>1, <1>3, <2>2, <2>3, <2>4, <2>5, DatabaseErrorInv DEF k
<1> QED BY <1>4, <1>5 DEF CommitFails, d

-----------------------------------------------------------------------------
(* serve(), and the ends of a connection.                                  *)

LEMMA NoThreadOK == ThreadOK(NoThread)
<1>1. NoThread \in ThreadState
  BY ServantAssumption, NothingDone DEF NoThread, ThreadState
<1>2. NoThread.msg \in Message
  BY ServantAssumption DEF NoThread
<1>3. Items(NoThread.msg) \in Nat
  BY <1>2, Sizes
<1>4. NoThread.read <= Items(NoThread.msg)
  BY <1>3 DEF NoThread
<1>5. /\ NoThread.pc = "none" /\ NoThread.read = 0
      /\ NoThread.attempt = 0 /\ NoThread.done = Nothing
  BY DEF NoThread
<1>6. WellRead(NoThread) /\ WellCounted(NoThread)
  BY <1>5 DEF WellRead, WellCounted, Handling
<1> QED BY <1>1, <1>4, <1>6 DEF ThreadOK

Socket == {"closed", "backlog", "open"}
ServerState == [pc : {"accept", "start", "clean"}, client : Client \cup {NoClient},
                force : BOOLEAN]

\* A step that changes the record of one thread and its socket.
LEMMA ConnectionStep ==
  ASSUME ServantInv, NEW c \in Client, NEW t, NEW s \in Socket,
         thread' = [thread EXCEPT ![c] = t],
         socket' = [socket EXCEPT ![c] = s],
         ThreadOK(t),
         s = "open" <=> t.pc # "none",
         server' \in ServerState, dead' \in Nat, unstarted' \in 0 .. MaxFailedStarts,
         due' \in BOOLEAN,
         StartsAccepted'
  PROVE  ServantInv'
<1>1. \A d \in Client : thread'[d] = IF d = c THEN t ELSE thread[d]
  BY DEF ServantInv, TypeOK
<1>2. \A d \in Client : ThreadOK(thread[d])'
  <2> SUFFICES ASSUME NEW d \in Client
               PROVE  ThreadOK(thread'[d])
    BY DEF ThreadOK, WellRead, WellCounted, Callable, Returned, Honest
  <2> QED BY <1>1 DEF ServantInv
<1>3. TypeOK'
  <2>1. thread' \in [Client -> ThreadState]
    BY DEF ServantInv, TypeOK, ThreadOK
  <2>2. \A d \in Client : thread'[d].read <= Items(thread'[d].msg)
    BY <1>1 DEF ServantInv, TypeOK, ThreadOK
  <2>3. socket' \in [Client -> Socket]
    BY DEF ServantInv, TypeOK, Socket
  <2> QED BY <2>1, <2>2, <2>3 DEF TypeOK, Socket, ServerState
<1>4. OpenRuns'
  <2>1. \A d \in Client : socket'[d] = IF d = c THEN s ELSE socket[d]
    BY DEF ServantInv, TypeOK
  <2> QED BY <1>1, <2>1 DEF ServantInv, OpenRuns
<1> QED BY <1>2, <1>3, <1>4 DEF ServantInv

LEMMA ConnectInv ==
  ASSUME ServantInv, NEW c \in Client, NEW m \in Message, Connect(c, m)
  PROVE  ServantInv'
<1> DEFINE r == thread[c]
           t == [r EXCEPT !.msg = m]
<1>1. r \in ThreadState /\ WellRead(r) /\ WellCounted(r)
  BY Known
<1>2. r.pc = "none"
  BY DEF Connect, ServantInv, OpenRuns
<1>3. r.read = 0 /\ r.attempt = 0 /\ r.done = Nothing
  BY <1>1, <1>2 DEF WellRead, WellCounted
<1>4. /\ t \in ThreadState /\ t.msg = m /\ t.pc = r.pc /\ t.read = r.read
      /\ t.attempt = r.attempt /\ t.done = r.done
  BY <1>1 DEF ThreadState
<1>5. thread' = [thread EXCEPT ![c] = t]
  BY DEF Connect
<1> HIDE DEF t
<1>6. WellRead(t) /\ WellCounted(t)
  BY <1>2, <1>3, <1>4 DEF WellRead, WellCounted, Handling
<1>7. t.read <= Items(t.msg)
  <2>1. Items(m) \in Nat
    BY Sizes
  <2> QED BY <1>3, <1>4, <2>1
<1>8. ThreadOK(t)
  BY <1>4, <1>6, <1>7 DEF ThreadOK
<1>9. StartsAccepted'
  <2>1. \A d \in Client : thread'[d].pc = thread[d].pc
    BY <1>4, <1>5 DEF ServantInv, TypeOK
  <2> QED BY <2>1 DEF Connect, ServantInv, StartsAccepted
<1>10. /\ socket' = [socket EXCEPT ![c] = "backlog"] /\ "backlog" \in Socket
       /\ server' \in ServerState /\ dead' \in Nat /\ unstarted' \in 0 .. MaxFailedStarts
       /\ due' \in BOOLEAN
  BY DEF Connect, list, ServantInv, TypeOK, ServerState, Socket
<1> QED BY <1>2, <1>4, <1>5, <1>8, <1>9, <1>10, ConnectionStep

LEMMA AcceptInv ==
  ASSUME ServantInv, NEW c \in Client, Accept(c)
  PROVE  ServantInv'
<1> DEFINE r == thread[c]
           t == [r EXCEPT !.pc = "new"]
<1>1. r \in ThreadState /\ WellRead(r) /\ WellCounted(r) /\ r.read <= Items(r.msg)
  BY Known
<1>2. r.pc = "none"
  BY DEF Accept, ServantInv, OpenRuns
<1>3. r.read = 0 /\ r.attempt = 0 /\ r.done = Nothing
  BY <1>1, <1>2 DEF WellRead, WellCounted
<1>4. /\ t \in ThreadState /\ t.msg = r.msg /\ t.pc = "new" /\ t.read = r.read
      /\ t.attempt = r.attempt /\ t.done = r.done
  BY <1>1 DEF ThreadState
<1>5. thread' = [thread EXCEPT ![c] = t]
  BY DEF Accept
<1> HIDE DEF t
<1>6. WellRead(t) /\ WellCounted(t)
  BY <1>3, <1>4 DEF WellRead, WellCounted, Handling
<1>7. ThreadOK(t)
  BY <1>1, <1>4, <1>6 DEF ThreadOK
<1>8. server' \in ServerState /\ server'.pc = "start" /\ server'.client = c
  <2>1. server \in ServerState
    BY DEF ServantInv, TypeOK, ServerState
  <2>2. server' = [server EXCEPT !.pc = "start", !.client = c]
    BY DEF Accept
  <2> QED BY <2>1, <2>2 DEF ServerState
<1>9. StartsAccepted'
  <2>1. \A d \in Client : thread'[d] = IF d = c THEN t ELSE thread[d]
    BY <1>5 DEF ServantInv, TypeOK
  <2>2. \A d \in Client : thread[d].pc # "new"
    BY DEF Accept, ServantInv, StartsAccepted
  <2> QED BY <1>4, <1>8, <2>1, <2>2 DEF StartsAccepted
<1>10. /\ socket' = [socket EXCEPT ![c] = "open"] /\ "open" \in Socket
       /\ dead' \in Nat /\ unstarted' \in 0 .. MaxFailedStarts /\ due' \in BOOLEAN
  BY DEF Accept, list, ServantInv, TypeOK, Socket
<1> QED BY <1>4, <1>5, <1>7, <1>8, <1>9, <1>10, ConnectionStep

LEMMA AcceptFailsInv ==
  ASSUME ServantInv, NEW c \in Client, AcceptFails(c)
  PROVE  ServantInv'
<1> DEFINE r == thread[c]
<1>1. ThreadOK(r)
  BY DEF ServantInv
<1>2. r.pc = "none"
  BY DEF AcceptFails, ServantInv, OpenRuns
<1>3. thread' = [thread EXCEPT ![c] = r]
  BY DEF AcceptFails, ServantInv, TypeOK
<1>4. server' \in ServerState /\ server'.pc = "clean"
  <2>1. server \in ServerState
    BY DEF ServantInv, TypeOK, ServerState
  <2>2. server' = [server EXCEPT !.pc = "clean", !.force = TRUE]
    BY DEF AcceptFails
  <2> QED BY <2>1, <2>2 DEF ServerState
<1>5. StartsAccepted'
  <2>1. thread' = thread /\ (\A d \in Client : thread[d].pc # "new")
    BY DEF AcceptFails, ServantInv, StartsAccepted
  <2> QED BY <1>4, <2>1 DEF StartsAccepted
<1>6. dead' \in Nat /\ unstarted' \in 0 .. MaxFailedStarts /\ due' \in BOOLEAN
  BY DEF AcceptFails, list, ServantInv, TypeOK
<1>7. /\ "closed" \in Socket /\ "backlog" \in Socket
      /\ \/ socket' = [socket EXCEPT ![c] = "closed"]
         \/ socket' = [socket EXCEPT ![c] = "backlog"]
  BY DEF AcceptFails, ServantInv, TypeOK, Socket
<1>8. CASE socket' = [socket EXCEPT ![c] = "closed"]
  BY <1>1, <1>2, <1>3, <1>4, <1>5, <1>6, <1>7, <1>8, ConnectionStep
<1>9. CASE socket' = [socket EXCEPT ![c] = "backlog"]
  BY <1>1, <1>2, <1>3, <1>4, <1>5, <1>6, <1>7, <1>9, ConnectionStep
<1> QED BY <1>7, <1>8, <1>9

\* When no thread waits to be started any more.
LEMMA NoneNew ==
  ASSUME ServantInv, NEW c \in Client, NEW t,
         server.pc = "start", server.client = c,
         thread' = [thread EXCEPT ![c] = t],
         t.pc # "new", server'.pc # "start"
  PROVE  StartsAccepted'
<1>1. \A d \in Client : thread'[d] = IF d = c THEN t ELSE thread[d]
  BY DEF ServantInv, TypeOK
<1>2. \A d \in Client : thread[d].pc = "new" => d = c
  BY DEF ServantInv, StartsAccepted
<1> QED BY <1>1, <1>2 DEF StartsAccepted

LEMMA StartWorkerInv ==
  ASSUME ServantInv, StartWorker
  PROVE  ServantInv'
<1> DEFINE c == server.client
           r == thread[c]
           t == [r EXCEPT !.pc = "line"]
<1>1. c \in Client /\ r.pc = "new" /\ server.pc = "start"
  BY DEF StartWorker, ServantInv, StartsAccepted
<1>2. r \in ThreadState /\ WellRead(r) /\ WellCounted(r) /\ r.read <= Items(r.msg)
  BY <1>1, Known
<1>3. r.read = 0 /\ r.attempt = 0 /\ r.done = Nothing
  BY <1>1, <1>2 DEF WellRead, WellCounted
<1>4. /\ t \in ThreadState /\ t.msg = r.msg /\ t.pc = "line" /\ t.read = r.read
      /\ t.attempt = r.attempt /\ t.done = r.done
  BY <1>2 DEF ThreadState, Reading
<1>5. thread' = [thread EXCEPT ![c] = t]
  BY DEF StartWorker
<1> HIDE DEF t
<1>6. WellRead(t) /\ WellCounted(t)
  BY <1>3, <1>4 DEF WellRead, WellCounted, Handling
<1>7. ThreadOK(t)
  BY <1>2, <1>4, <1>6 DEF ThreadOK
<1>8. server' \in ServerState /\ server'.pc = "clean"
  BY DEF StartWorker, Waiting, ServerState
<1>9. socket[c] = "open"
  BY <1>1 DEF ServantInv, OpenRuns
<1>10. /\ socket' = [socket EXCEPT ![c] = "open"] /\ "open" \in Socket
       /\ dead' \in Nat /\ unstarted' \in 0 .. MaxFailedStarts /\ due' \in BOOLEAN
  BY <1>9 DEF StartWorker, list, ServantInv, TypeOK, Socket
<1> HIDE DEF c
<1>11. StartsAccepted'
  BY <1>1, <1>4, <1>5, <1>8, NoneNew DEF c
<1> QED BY <1>1, <1>4, <1>5, <1>7, <1>8, <1>10, <1>11, ConnectionStep

LEMMA StartFailsInv ==
  ASSUME ServantInv, StartFails
  PROVE  ServantInv'
<1> DEFINE c == server.client
<1>1. c \in Client /\ server.pc = "start"
  BY DEF StartFails, ServantInv, StartsAccepted
<1>2. thread' = [thread EXCEPT ![c] = NoThread] /\ NoThread.pc = "none"
  BY DEF StartFails, NoThread
<1>3. server' \in ServerState /\ server'.pc = "clean"
  <2> DEFINE w == [Waiting EXCEPT !.pc = "clean"]
  <2>1. w \in ServerState /\ w.pc = "clean"
    BY DEF Waiting, ServerState
  <2>2. server' = [w EXCEPT !.force = TRUE]
    BY DEF StartFails
  <2> HIDE DEF w
  <2> QED BY <2>1, <2>2 DEF ServerState
<1>4. unstarted' \in 0 .. MaxFailedStarts
  BY ServantAssumption DEF StartFails, ServantInv, TypeOK
<1>5. /\ socket' = [socket EXCEPT ![c] = "closed"] /\ "closed" \in Socket
      /\ dead' \in Nat /\ due' \in BOOLEAN
  BY DEF StartFails, ServantInv, TypeOK, Socket
<1> HIDE DEF c
<1>6. StartsAccepted'
  BY <1>1, <1>2, <1>3, NoneNew DEF c
<1> QED BY <1>1, <1>2, <1>3, <1>4, <1>5, <1>6, NoThreadOK, ConnectionStep

LEMMA SendResponseInv ==
  ASSUME ServantInv, NEW c \in Client, SendResponse(c)
  PROVE  ServantInv'
<1>1. thread' = [thread EXCEPT ![c] = NoThread] /\ NoThread.pc = "none"
  BY DEF SendResponse, NoThread
<1>2. /\ socket' = [socket EXCEPT ![c] = "closed"] /\ "closed" \in Socket
      /\ server' \in ServerState /\ dead' \in Nat
      /\ unstarted' \in 0 .. MaxFailedStarts /\ due' \in BOOLEAN
  BY DEF SendResponse, ServantInv, TypeOK, Socket, ServerState
<1>3. StartsAccepted'
  <2>1. \A d \in Client : thread'[d] = IF d = c THEN NoThread ELSE thread[d]
    BY <1>1 DEF ServantInv, TypeOK
  <2>2. thread[c].pc = "send" /\ server' = server
    BY DEF SendResponse
  <2> QED BY <1>1, <2>1, <2>2 DEF ServantInv, StartsAccepted
<1> QED BY <1>1, <1>2, <1>3, NoThreadOK, ConnectionStep

\* A step that changes no thread and no socket.
LEMMA ServerStep ==
  ASSUME ServantInv, UNCHANGED <<thread, socket, unstarted>>,
         server' = server \/ (server' = Waiting /\ server.pc = "clean"),
         dead' \in Nat, due' \in BOOLEAN
  PROVE  ServantInv'
<1>1. server' \in ServerState
  <2>1. Waiting \in ServerState
    BY DEF Waiting, ServerState
  <2>2. server \in ServerState
    BY DEF ServantInv, TypeOK, ServerState
  <2> QED BY <2>1, <2>2
<1>2. TypeOK'
  BY <1>1 DEF ServantInv, TypeOK, ServerState
<1>3. \A d \in Client : ThreadOK(thread[d])'
  <2> SUFFICES ASSUME NEW d \in Client
               PROVE  ThreadOK(thread'[d])
    BY DEF ThreadOK, WellRead, WellCounted, Callable, Returned, Honest
  <2> QED BY DEF ServantInv
<1>4. OpenRuns'
  BY DEF ServantInv, OpenRuns
<1>5. StartsAccepted'
  BY DEF ServantInv, StartsAccepted, Waiting
<1> QED BY <1>2, <1>3, <1>4, <1>5 DEF ServantInv

LEMMA CleanupWorkersInv ==
  ASSUME ServantInv, CleanupWorkers
  PROVE  ServantInv'
<1>1. dead' \in Nat /\ due' \in BOOLEAN
  <2>1. dead \in Nat /\ due \in BOOLEAN
    BY DEF ServantInv, TypeOK
  <2>2. (dead' = 0 /\ due' = FALSE) \/ UNCHANGED <<dead, due>>
    BY DEF CleanupWorkers
  <2>3. CASE dead' = 0 /\ due' = FALSE
    BY <2>3
  <2>4. CASE UNCHANGED <<dead, due>>
    BY <2>1, <2>4
  <2> QED BY <2>2, <2>3, <2>4
<1>2. UNCHANGED <<thread, socket, unstarted>> /\ server' = Waiting /\ server.pc = "clean"
  BY DEF CleanupWorkers
<1> QED BY <1>1, <1>2, ServerStep

LEMMA FiveSecondsInv ==
  ASSUME ServantInv, FiveSeconds \/ UNCHANGED vars
  PROVE  ServantInv'
<1>1. dead' \in Nat /\ due' \in BOOLEAN
  BY DEF FiveSeconds, vars, list, ServantInv, TypeOK
<1>2. UNCHANGED <<thread, socket, unstarted>> /\ server' = server
  BY DEF FiveSeconds, vars, list
<1> QED BY <1>1, <1>2, ServerStep

-----------------------------------------------------------------------------
(* The invariant, and what follows from it.                                *)

\* ServantInv is inductive: it holds initially and each step keeps it.
LEMMA InitInv == Init => ServantInv
<1> SUFFICES ASSUME Init PROVE ServantInv
  OBVIOUS
<1>1. \A c \in Client : thread[c] = NoThread
  BY DEF Init
<1>2. NoThread \in ThreadState /\ NoThread.pc = "none" /\ NoThread.read <= Items(NoThread.msg)
  BY NoThreadOK DEF ThreadOK, NoThread
<1>3. thread \in [Client -> ThreadState]
  BY <1>2 DEF Init
<1>4. TypeOK
  <2>1. server \in ServerState
    BY DEF Init, Waiting, ServerState
  <2>2. \A c \in Client : thread[c].read <= Items(thread[c].msg)
    BY <1>1, <1>2
  <2>3. socket \in [Client -> Socket] /\ dead \in Nat /\ due \in BOOLEAN
    BY DEF Init, Socket
  <2>4. unstarted \in 0 .. MaxFailedStarts
    BY ServantAssumption DEF Init
  <2> QED BY <1>3, <2>1, <2>2, <2>3, <2>4 DEF TypeOK, Socket, ServerState
<1>5. OpenRuns /\ StartsAccepted
  BY <1>1, <1>2 DEF Init, OpenRuns, StartsAccepted, Waiting
<1> QED BY <1>1, <1>4, <1>5, NoThreadOK DEF ServantInv

LEMMA NextInv == ServantInv /\ [Next]_vars => ServantInv'
<1> SUFFICES ASSUME ServantInv, [Next]_vars
             PROVE  ServantInv'
  OBVIOUS
<1>1. ASSUME NEW c \in Client, NEW m \in Sends[c], Connect(c, m)
      PROVE  ServantInv'
  <2>1. m \in Message
    BY DEF Message
  <2> QED BY <1>1, <2>1, ConnectInv
<1>2. CASE Serve
  BY <1>2, AcceptInv, AcceptFailsInv, StartWorkerInv, StartFailsInv, CleanupWorkersInv DEF Serve
<1>3. CASE FiveSeconds \/ UNCHANGED vars
  BY <1>3, FiveSecondsInv
<1>4. ASSUME NEW c \in Client, Input(c)
      PROVE  ServantInv'
  BY <1>4, ReadRequestLineInv, ReadHeaderInv, ReadBlankLineInv, ReadByteInv, CutInv DEF Input
<1>5. ASSUME NEW c \in Client, Work(c)
      PROVE  ServantInv'
  BY <1>5, CutInv, DispatchInv, SendResponseInv, CheckAuthInv, HandlerReturnsInv,
     WithoutDatabaseInv,
     HandlerThrowsInv, PlainMethodInv, CommitInv, CommitFailsInv DEF Work
<1> QED BY <1>1, <1>2, <1>3, <1>4, <1>5 DEF Next, ClientsConnect

LEMMA Invariance == Spec => []ServantInv
BY InitInv, NextInv, PTL DEF Spec

\* The state is well typed: in particular no thread reads beyond what was sent, and
\* the work of a request is committed twice at most, and told to others twice.
THEOREM TypeCorrect == Spec => []TypeOK
<1>1. ServantInv => TypeOK
  BY DEF ServantInv
<1> QED BY <1>1, Invariance, PTL

\* Handlers run on whole, well-formed requests only, wherever the client stops,
\* whatever the lengths of the headers and of the body.
THEOREM HandledWhole == Spec => []OnlyWholeRequests
<1>1. ServantInv => OnlyWholeRequests
  <2> SUFFICES ASSUME ServantInv, NEW c \in Client, thread[c].pc \in Handling
               PROVE  /\ Msg(c).line
                      /\ "no colon" \notin {Msg(c).headers[i] : i \in DOMAIN Msg(c).headers}
                      /\ thread[c].read = WholeSize(Msg(c))
                      /\ Parsed(Msg(c))
    BY DEF OnlyWholeRequests
  <2>1. WellRead(thread[c]) /\ thread[c].msg \in Message
    BY Known
  <2>2. /\ Msg(c).line = TRUE
        /\ \A i \in 1 .. Len(Msg(c).headers) : Msg(c).headers[i] # "no colon"
        /\ thread[c].read = WholeSize(Msg(c))
        /\ Parsed(Msg(c))
    BY <2>1 DEF WellRead, Msg
  <2>3. DOMAIN Msg(c).headers = 1 .. Len(Msg(c).headers)
    BY <2>1, ServantAssumption DEF Msg
  <2> QED BY <2>2, <2>3
<1> QED BY <1>1, Invariance, PTL

\* What the client may conclude from its answer is so, for each kind of method,
\* with any number of clients and whichever calls and statements fail: what was
\* committed, how often, and that nothing is committed before the others are told.
THEOREM AnswersTrue == Spec => []AnswerTellsEffect
<1>1. ServantInv => AnswerTellsEffect
  <2> SUFFICES ASSUME ServantInv, NEW c \in Client, thread[c].pc = "send"
               PROVE  LET t == thread[c]
                          d == Done(c)
                          path == Msg(c).path
                      IN  /\ t.code \in {401, 404} => d = Nothing
                          /\ t.code = 200 => d.effects > 0 \/ path = "patch"
                          /\ t.code # 200 /\ d.effects > 0 =>
                               \/ d.unsure
                               \/ path = "plain" /\ t.code = 500
                               \/ path = "batch" /\ t.attempt = 1
                          /\ d.effects = 2 => d.unsure \/ path = "batch"
                          /\ path = "remote" => d.effects <= d.told
    BY DEF AnswerTellsEffect
  <2>1. WellCounted(thread[c])
    BY Known
  <2>2. Honest(Msg(c).path, thread[c].code, thread[c].attempt, Done(c))
    BY <2>1 DEF WellCounted, Msg, Done
  <2> QED BY <2>2 DEF Honest
<1> QED BY <1>1, Invariance, PTL

\* No connection stays open without a thread that will close it.
THEOREM NoLeak == Spec => []OpenIsServed
<1>1. ServantInv => OpenIsServed
  BY DEF ServantInv, OpenRuns, OpenIsServed, Running
<1> QED BY <1>1, Invariance, PTL

=============================================================================
