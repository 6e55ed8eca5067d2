---------------------------- MODULE ProxyProofs ----------------------------
(***************************************************************************)
(* No card number and no CVN goes to an upstream, for any requests, texts  *)
(* and tokens: a request that has to be tokenized reaches the upstream     *)
(* through the commit only, where both of its texts are replaced.          *)
(*                                                                         *)
(* A token that went to an upstream in their place is kept until the card  *)
(* expires: a request promises it when it finds or makes the row, and no   *)
(* step of another takes back what is promised.  It expands to the text it *)
(* was made for: some function from the tokens to texts agrees with all    *)
(* that rows, requests and upstreams hold.                                 *)
(***************************************************************************)
EXTENDS Proxy, CodecsProofs

\* What a request consists of; its message goes on with the same parameters.
Fields(q) ==
  /\ q \in [pc : {q.pc}, msg : {q.msg}, out : {q.out}, at : {q.at}, new : {q.new},
            renewed : {q.renewed}, answer : {q.answer}, reply : {q.reply}]
  /\ q.out \in [kind : {q.out.kind}, card : {q.out.card}, cvn : {q.out.cvn},
                exp : {q.out.exp}, cardToken : {q.out.cardToken},
                cvnToken : {q.out.cvnToken}]

\* How much of the card data has been replaced: nothing at first, then the CVN, and
\* before the commit everything.
Replaced(q) ==
  /\ q.pc = "fix" => q.out = q.msg
  /\ q.pc = "card" => q.out.cvn = Empty
  /\ q.pc = "commit" => q.out.card = Empty /\ q.out.cvn = Empty

Passed(r) ==
  req[r].pc = "send" /\ req[r].msg.kind = "incoming" /\ ~(ValidCard(r) /\ IsFake(r))
    => req[r].out.card = Empty /\ req[r].out.cvn = Empty

ProxyInv ==
  /\ req = [r \in Request |-> req[r]]
  /\ \A r \in Request : Fields(req[r]) /\ Replaced(req[r]) /\ Passed(r)

LEMMA InitInv == Init => ProxyInv
<1> SUFFICES ASSUME Init PROVE ProxyInv
  OBVIOUS
<1>1. \A r \in Request : req[r] = NoRequest
  BY DEF Init
<1>2. Fields(NoRequest) /\ Replaced(NoRequest) /\ NoRequest.pc = "idle"
  BY DEF Fields, Replaced, NoRequest, NoMessage
<1>3. req = [r \in Request |-> req[r]]
  BY DEF Init
<1> QED
  BY <1>1, <1>2, <1>3 DEF ProxyInv, Passed

\* A step changes one request.
LEMMA BecomesInv ==
  ASSUME ProxyInv, NEW r \in Request, NEW q, Becomes(r, q),
         Fields(q), Replaced(q), Passed(r)'
  PROVE  ProxyInv'
<1>1. req' = [req EXCEPT ![r] = q]
  BY DEF Becomes
<1>2. req'[r] = q /\ \A s \in Request \ {r} : req'[s] = req[s]
  BY <1>1 DEF ProxyInv
<1>3. req' = [s \in Request |-> req'[s]]
  BY <1>1 DEF ProxyInv
<1>4. ASSUME NEW s \in Request, s # r
      PROVE  Fields(req'[s]) /\ Replaced(req'[s]) /\ Passed(s)'
  <2>1. req'[s] = req[s]
    BY <1>2, <1>4
  <2>2. Fields(req[s]) /\ Replaced(req[s]) /\ Passed(s)
    BY DEF ProxyInv
  <2> QED
    BY <2>1, <2>2 DEF Passed, ValidCard, HasCard, IsFake, Pan
<1> QED
  BY <1>2, <1>3, <1>4 DEF ProxyInv

\* In particular a step that does not lead to the upstream.
LEMMA ElsewhereInv ==
  ASSUME ProxyInv, NEW r \in Request, NEW q, Becomes(r, q),
         Fields(q), q.pc \notin {"fix", "card", "commit", "send"}
  PROVE  ProxyInv'
<1>1. req'[r] = q
  BY DEF ProxyInv, Becomes
<1>2. Replaced(q) /\ Passed(r)'
  BY <1>1 DEF Replaced, Passed
<1> QED
  BY <1>2, BecomesInv

LEMMA BeginInv ==
  ASSUME ProxyInv, NEW r \in Request, ClientNext(r)
  PROVE  ProxyInv'
<1>1. ASSUME NEW m, Begin(r, m),
             m \in [kind : {m.kind}, card : {m.card}, cvn : {m.cvn}, exp : {m.exp},
                    cardToken : {m.cardToken}, cvnToken : {m.cvnToken}]
      PROVE  ProxyInv'
  <2> DEFINE q == [NoRequest EXCEPT !.pc = "fix", !.msg = m, !.out = m, !.at = now]
  <2>1. q.pc = "fix" /\ q.msg = m /\ q.out = m
    BY DEF NoRequest
  <2>2. Fields(q) /\ Replaced(q)
    BY <1>1, <2>1 DEF Fields, Replaced, NoRequest
  <2>3. Becomes(r, q)
    BY <1>1 DEF Begin
  <2>4. req'[r] = q
    BY <2>3 DEF Becomes, ProxyInv
  <2>5. Passed(r)'
    BY <2>1, <2>4 DEF Passed
  <2> HIDE DEF q
  <2> QED
    BY <2>2, <2>3, <2>5, BecomesInv
<1>2. ASSUME NEW m \in Message, Begin(r, m) PROVE ProxyInv'
  BY <1>1, <1>2, ProxyAssumption DEF ProxyAssumption
<1>3. ASSUME NEW t, NEW u, Begin(r, Authorize(t, u)) PROVE ProxyInv'
  BY <1>1, <1>3 DEF Authorize, NoMessage
<1> QED
  BY <1>2, <1>3 DEF ClientNext

LEMMA PassOnInv ==
  ASSUME ProxyInv, NEW r \in Request, PassOn(r)
  PROVE  ProxyInv'
<1> DEFINE q == [req[r] EXCEPT !.pc = "send"]
<1>1. Fields(req[r]) /\ req[r].out = req[r].msg
  BY DEF ProxyInv, Replaced, PassOn
<1>2. q.pc = "send" /\ q.out = req[r].out /\ q.msg = req[r].msg
  BY <1>1 DEF Fields
<1>3. Fields(q) /\ Replaced(q)
  BY <1>1 DEF Fields, Replaced
<1>4. Becomes(r, q)
  BY DEF PassOn, Goto
<1>5. req'[r] = q
  BY <1>4 DEF Becomes, ProxyInv
<1>6. Passed(r)'
  BY <1>1, <1>2, <1>5 DEF PassOn, Passed, HasCard, HasCvn, ValidCard, IsFake, Pan
<1> HIDE DEF q
<1> QED
  BY <1>3, <1>4, <1>6, BecomesInv

\* A text is replaced by a token.
LEMMA TokenizedFields ==
  ASSUME NEW q, Fields(q), NEW t
  PROVE  /\ Tokenized(q.out, "cvn", t) = [q.out EXCEPT !.cvn = Empty, !.cvnToken = t]
         /\ Tokenized(q.out, "card", t) = [q.out EXCEPT !.card = Empty, !.cardToken = t]
  BY DEF Tokenized

LEMMA TokenizeCvnInv ==
  ASSUME ProxyInv, NEW r \in Request, TokenizeCvn(r)
  PROVE  ProxyInv'
<1>1. PICK block \in BcdEncode(req[r].msg.cvn) :
        Becomes(r, [req[r] EXCEPT
          !.pc = "card",
          !.new = Adding(r, last + 1, NewRow(last + 1, req[r].msg.cvn, block, now)),
          !.out = Tokenized(@, "cvn", last + 1)])
  BY DEF TokenizeCvn
<1> DEFINE new == Adding(r, last + 1, NewRow(last + 1, req[r].msg.cvn, block, now))
           out == Tokenized(req[r].out, "cvn", last + 1)
           q == [req[r] EXCEPT !.pc = "card", !.new = new, !.out = out]
<1>2. Becomes(r, q)
  BY <1>1
<1>3. Fields(req[r])
  BY DEF ProxyInv
<1>4. out = [req[r].out EXCEPT !.cvn = Empty, !.cvnToken = last + 1]
  BY <1>3, TokenizedFields
<1> HIDE DEF new, out
<1>5. Fields(q) /\ q.pc = "card" /\ q.out.cvn = Empty
  BY <1>3, <1>4 DEF Fields
<1>6. req'[r] = q
  BY <1>2 DEF Becomes, ProxyInv
<1> HIDE DEF q
<1>7. Replaced(q) /\ Passed(r)'
  BY <1>5, <1>6 DEF Replaced, Passed
<1> QED
  BY <1>2, <1>5, <1>7, BecomesInv

\* Where the card is replaced, the CVN has been, or there is none.
LEMMA CardReplaced ==
  ASSUME ProxyInv, NEW r \in Request, AtCard(r), NEW t, NEW new, NEW renewed,
         NEW q, q = [req[r] EXCEPT !.pc = "commit", !.new = new, !.renewed = renewed,
                                   !.out = Tokenized(@, "card", t)],
         Becomes(r, q)
  PROVE  ProxyInv'
<1>1. Fields(req[r]) /\ Replaced(req[r])
  BY DEF ProxyInv
<1>2. req[r].out.cvn = Empty
  BY <1>1 DEF AtCard, ValidCard, HasCard, HasCvn, Replaced
<1> DEFINE out == Tokenized(req[r].out, "card", t)
<1>3. out = [req[r].out EXCEPT !.card = Empty, !.cardToken = t]
  BY <1>1, TokenizedFields
<1>4. q = [req[r] EXCEPT !.pc = "commit", !.new = new, !.renewed = renewed, !.out = out]
  BY <1>1 DEF Fields
<1> HIDE DEF out
<1>5. Fields(q) /\ q.pc = "commit" /\ q.out.card = Empty /\ q.out.cvn = Empty
  <2>1. out.card = Empty /\ out.cvn = Empty
    BY <1>1, <1>2, <1>3 DEF Fields
  <2>2. q.pc = "commit" /\ q.out = out
    BY <1>1, <1>4 DEF Fields
  <2>3. out \in [kind : {out.kind}, card : {out.card}, cvn : {out.cvn}, exp : {out.exp},
                 cardToken : {out.cardToken}, cvnToken : {out.cvnToken}]
    BY <1>1, <1>3 DEF Fields
  <2>4. q \in [pc : {q.pc}, msg : {q.msg}, out : {q.out}, at : {q.at}, new : {q.new},
               renewed : {q.renewed}, answer : {q.answer}, reply : {q.reply}]
    BY <1>1, <1>4 DEF Fields
  <2> QED
    BY <2>1, <2>2, <2>3, <2>4 DEF Fields
<1>6. req'[r] = q
  BY DEF Becomes, ProxyInv
<1>7. Replaced(q) /\ Passed(r)'
  BY <1>5, <1>6 DEF Replaced, Passed
<1> QED
  BY <1>5, <1>7, BecomesInv

LEMMA CardInv ==
  ASSUME ProxyInv, NEW r \in Request, FoundCard(r) \/ TokenizeCard(r)
  PROVE  ProxyInv'
<1>1. Fields(req[r])
  BY DEF ProxyInv
<1>2. CASE FoundCard(r)
  <2> DEFINE t == Search(r)
             renewed == rows[t].finish < Finish(req[r].msg.exp)
             q == [req[r] EXCEPT !.pc = "commit", !.renewed = renewed,
                                 !.out = Tokenized(@, "card", t)]
  <2>1. AtCard(r) /\ Becomes(r, q)
    BY <1>2 DEF FoundCard
  <2> HIDE DEF t, renewed
  <2>2. q = [req[r] EXCEPT !.pc = "commit", !.new = req[r].new, !.renewed = renewed,
                           !.out = Tokenized(@, "card", t)]
    BY <1>1 DEF Fields
  <2> HIDE DEF q
  <2> QED
    BY <2>1, <2>2, CardReplaced
<1>3. CASE TokenizeCard(r)
  <2>1. PICK block \in BcdEncode(Pan(r)) :
          Becomes(r, [req[r] EXCEPT
            !.pc = "commit",
            !.new = Adding(r, last + 1,
                           NewRow(last + 1, Pan(r), block, Finish(req[r].msg.exp))),
            !.out = Tokenized(@, "card", last + 1)])
    BY <1>3 DEF TokenizeCard
  <2> DEFINE new == Adding(r, last + 1,
                           NewRow(last + 1, Pan(r), block, Finish(req[r].msg.exp)))
             q == [req[r] EXCEPT !.pc = "commit", !.new = new,
                                 !.out = Tokenized(@, "card", last + 1)]
  <2>2. AtCard(r) /\ Becomes(r, q)
    BY <1>3, <2>1 DEF TokenizeCard
  <2> HIDE DEF new
  <2>3. q = [req[r] EXCEPT !.pc = "commit", !.new = new, !.renewed = req[r].renewed,
                           !.out = Tokenized(@, "card", last + 1)]
    BY <1>1 DEF Fields
  <2> HIDE DEF q
  <2> QED
    BY <2>2, <2>3, CardReplaced
<1> QED
  BY <1>2, <1>3

LEMMA CommitInv ==
  ASSUME ProxyInv, NEW r \in Request, Commit(r)
  PROVE  ProxyInv'
<1> DEFINE q == [req[r] EXCEPT !.pc = "send", !.new = NoRequest.new]
<1>1. Fields(req[r]) /\ req[r].out.card = Empty /\ req[r].out.cvn = Empty
  BY DEF ProxyInv, Replaced, Commit
<1>2. Becomes(r, q)
  BY DEF Commit, ToSend
<1>3. req'[r] = q
  BY <1>2 DEF Becomes, ProxyInv
<1>4. Fields(q) /\ q.pc = "send" /\ q.out.card = Empty /\ q.out.cvn = Empty
  BY <1>1 DEF Fields
<1> HIDE DEF q
<1>5. Replaced(q) /\ Passed(r)'
  BY <1>3, <1>4 DEF Replaced, Passed
<1> QED
  BY <1>2, <1>4, <1>5, BecomesInv

\* Card data goes on in full only in outgoing requests.
LEMMA ExpandInv ==
  ASSUME ProxyInv, NEW r \in Request, Expand(r)
  PROVE  ProxyInv'
<1> DEFINE card == Detokenize(req[r].msg.cardToken)
           cvn == IF req[r].msg.cvnToken = NoToken THEN req[r].out.cvn
                  ELSE Detokenize(req[r].msg.cvnToken)
           q == [req[r] EXCEPT !.pc = "send",
                               !.out.cardToken = NoToken, !.out.cvnToken = NoToken,
                               !.out.card = card, !.out.cvn = cvn]
<1>1. Fields(req[r]) /\ req[r].msg.kind = "authorize"
  BY DEF ProxyInv, Expand, HasTokens
<1>2. Becomes(r, q)
  BY <1>1 DEF Expand, Fields
<1>3. req'[r] = q
  BY <1>2 DEF Becomes, ProxyInv
<1> HIDE DEF card, cvn
<1>4. Fields(q) /\ q.pc = "send" /\ q.msg.kind = "authorize"
  BY <1>1 DEF Fields
<1> HIDE DEF q
<1>5. Replaced(q) /\ Passed(r)'
  BY <1>3, <1>4 DEF Replaced, Passed
<1> QED
  BY <1>2, <1>4, <1>5, BecomesInv

LEMMA ReplyInv ==
  ASSUME ProxyInv, NEW r \in Request, NEW answer, NEW code, Reply(r, answer, code)
  PROVE  ProxyInv'
<1> DEFINE q == [NoRequest EXCEPT !.pc = "reply", !.answer = answer, !.reply = code]
<1>1. Fields(q) /\ q.pc = "reply"
  BY DEF Fields, NoRequest, NoMessage
<1>2. Becomes(r, q)
  BY DEF Reply
<1> HIDE DEF q
<1> QED
  BY <1>1, <1>2, ElsewhereInv

LEMMA ForwardInv ==
  ASSUME ProxyInv, NEW r \in Request, Forward(r)
  PROVE  ProxyInv'
<1> DEFINE q == [NoRequest EXCEPT !.pc = "wait", !.at = req[r].at]
<1>1. Fields(q) /\ q.pc = "wait"
  BY DEF Fields, NoRequest, NoMessage
<1>2. Becomes(r, q)
  BY DEF Forward
<1> HIDE DEF q
<1> QED
  BY <1>1, <1>2, ElsewhereInv

LEMMA SendReplyInv ==
  ASSUME ProxyInv, NEW r \in Request, SendReply(r)
  PROVE  ProxyInv'
<1>1. Fields(NoRequest) /\ NoRequest.pc = "idle"
  BY DEF Fields, NoRequest, NoMessage
<1>2. Becomes(r, NoRequest)
  BY DEF SendReply
<1> QED
  BY <1>1, <1>2, ElsewhereInv

LEMMA RequestInv ==
  ASSUME ProxyInv, NEW r \in Request, RequestNext(r)
  PROVE  ProxyInv'
<1>1. CASE Fails(r)
  BY <1>1, ReplyInv DEF Fails
<1>2. CASE CommitUnanswered(r)
  BY <1>2, ReplyInv DEF CommitUnanswered
<1>3. ASSUME NEW answer \in Answer, Completes(r, answer)
      PROVE  ProxyInv'
  BY <1>3, ReplyInv DEF Completes
<1>4. ASSUME NEW answer \in Answer, TransferFails(r, answer)
      PROVE  ProxyInv'
  BY <1>4, ReplyInv DEF TransferFails
<1> QED
  BY <1>1, <1>2, <1>3, <1>4, PassOnInv, TokenizeCvnInv, CardInv, CommitInv, ExpandInv,
     ForwardInv, SendReplyInv
     DEF RequestNext

LEMMA NextInv == ProxyInv /\ [Next]_vars => ProxyInv'
<1> SUFFICES ASSUME ProxyInv, [Next]_vars PROVE ProxyInv'
  OBVIOUS
<1>1. ASSUME req' = req PROVE ProxyInv'
  BY <1>1 DEF ProxyInv, Passed, ValidCard, HasCard, IsFake, Pan
<1>2. ASSUME NEW t \in Token, RemoveCard(t) PROVE ProxyInv'
  BY <1>1, <1>2 DEF RemoveCard
<1>3. CASE Clean
  BY <1>1, <1>3 DEF Clean
<1>4. CASE Tick
  BY <1>1, <1>4 DEF Tick
<1>5. CASE UNCHANGED vars
  BY <1>1, <1>5 DEF vars
<1> QED
  BY <1>2, <1>3, <1>4, <1>5, BeginInv, RequestInv DEF Next

\* No card number and no CVN is sent to the upstream of an incoming request, for any
\* number of requests and tokens and any texts, whatever fails and whichever rows are
\* found, removed or cleaned up meanwhile.
THEOREM OnlyTokensLeave == Spec => []OpaqueUpstream
<1>1. ProxyInv => OpaqueUpstream
  BY DEF ProxyInv, Passed, OpaqueUpstream
<1> QED
  BY <1>1, InitInv, NextInv, PTL DEF Spec

-----------------------------------------------------------------------------

\* What the data of token t stand for.
Plain(t, data) == BcdDecode(Decrypt("ecb", Dek(t), DecodeBase64(data)))

\* A row of token t can be decoded, and to the text of its digest.
GoodRow(t, row) ==
  /\ row \in [data : {row.data}, digest : {row.digest}, finish : Nat, late : BOOLEAN]
  /\ CheckBase64(row.data) /\ row.data # <<>>
  /\ Plain(t, row.data) \in Seq(Digit)
  /\ row.digest \in Seq(Digit) \ {Empty} => row.digest = Plain(t, row.data)

Parameters ==
  [kind : Kind, card : Seq(0 .. Space), cvn : Seq(0 .. Space), exp : Nat \cup {NoExpiry},
   cardToken : Token \cup {NoToken}, cvnToken : Token \cup {NoToken}]

\* A request at each of its points, when n tokens have been made: which tokens it may
\* have, what it has checked before it has them, and whose answer it gives.
Formed(q, n) ==
  /\ q.pc \in {"idle", "fix", "card", "commit", "send", "wait", "reply"}
  /\ q.msg \in Parameters /\ q.out.kind = q.msg.kind
  /\ q.msg.kind # "authorize" => q.msg.cardToken = NoToken /\ q.msg.cvnToken = NoToken
  /\ q.at \in 0 .. MaxNow /\ q.renewed \in BOOLEAN /\ q.reply \in Code \cup {NoCode}
  /\ DOMAIN q.new \subseteq 1 .. n
  /\ \A t \in DOMAIN q.new : GoodRow(t, q.new[t])
  /\ IF q.pc \in {"card", "commit"} THEN q.msg.kind = "incoming" ELSE DOMAIN q.new = {}
  /\ q.pc # "fix" \/ q.msg.kind # "authorize" =>
        {q.msg.cardToken, q.msg.cvnToken, q.out.cardToken, q.out.cvnToken} \subseteq 0 .. n
  /\ q.msg.kind = "incoming" /\ q.out.cardToken # NoToken =>
        /\ q.pc \in {"commit", "send"}
        /\ NormalizePan(q.msg.card) # Error /\ q.msg.exp # NoExpiry
  /\ /\ q.msg.kind = "authorize" /\ q.pc = "send"
     /\ q.msg.cardToken # NoToken \/ q.msg.cvnToken # NoToken
     => q.msg.cardToken # NoToken /\ q.out.card \in Seq(Digit) \ {Empty}
  /\ q.pc = "reply" /\ q.reply # 500 =>
        q.answer \in Answer /\ q.reply = Status(q.answer) /\ q.reply # NoCode

Tables ==
  /\ last \in 0 .. MaxToken /\ now \in 0 .. MaxNow /\ idle \in 0 .. Window - 1
  /\ rows = [t \in Token |-> rows[t]] /\ given = [t \in Token |-> given[t]]
  /\ \A t \in Token : Stored(t) => t <= last /\ GoodRow(t, rows[t])
  /\ \A t \in Token : given[t] # NotGiven => t <= last
  /\ removed \subseteq 1 .. last

WellFormed == Tables /\ \A r \in Request : Formed(req[r], last)

-----------------------------------------------------------------------------

\* A request takes no longer than a tick.
Timely ==
  \A r \in Request : req[r].pc \notin {"idle", "reply"} =>
     req[r].at <= now /\ now <= req[r].at + 1

\* What is stored or will be stored expires in time for the cleaner.
Expiring ==
  /\ \A t \in Token : Stored(t) => rows[t].late \/ rows[t].finish + idle + 1 >= now
  /\ \A r \in Request : \A t \in DOMAIN req[r].new :
        req[r].new[t].late \/ req[r].new[t].finish >= req[r].at

\* The tokens that a request has made are its own until it commits.
Fresh(r, s) ==
  \A t \in DOMAIN req[r].new :
     /\ ~Stored(t) /\ given[t] = NotGiven
     /\ s # r => t \notin DOMAIN req[s].new
     /\ s # r /\ req[s].msg.kind = "incoming" =>
          t # req[s].out.cardToken /\ t # req[s].out.cvnToken

\* Token t, that was or will be given as one until `exp`, is kept until then.
Held(t, exp, renewed) ==
  IF Stored(t) THEN exp <= rows[t].finish \/ renewed
  ELSE t \in removed \/ exp < now \/ renewed

Promise(r, t, exp, renewed) ==
  t \in Token =>
     IF t \in DOMAIN req[r].new THEN exp <= req[r].new[t].finish ELSE Held(t, exp, renewed)

Promised(r) ==
  req[r].msg.kind = "incoming" =>
     /\ Promise(r, req[r].out.cardToken, req[r].msg.exp, req[r].renewed)
     /\ Promise(r, req[r].out.cvnToken, req[r].at, FALSE)

Kept(t) ==
  given[t] # NotGiven =>
     /\ given[t].exp \in Int /\ given[t].renewed \in BOOLEAN
     /\ Held(t, given[t].exp, given[t].renewed)

TimeInv ==
  /\ Timely /\ Expiring
  /\ \A r, s \in Request : Fresh(r, s)
  /\ \A r \in Request : Promised(r)
  /\ \A t \in Token : Kept(t)

-----------------------------------------------------------------------------

\* f is the text of each token, by all that is known of it anywhere.
RowText(f, t) == Stored(t) => Plain(t, rows[t].data) = f[t]
GivenText(f, t) == given[t].text \in Seq(Digit) \ {Empty} => given[t].text = f[t]
RequestText(f, r) ==
  LET q == req[r]
  IN  /\ \A t \in DOMAIN q.new : Plain(t, q.new[t].data) = f[t]
      /\ q.msg.kind = "incoming" /\ q.out.cardToken # NoToken =>
           NormalizePan(q.msg.card) = f[q.out.cardToken]
      /\ q.msg.kind = "incoming" /\ q.out.cvnToken # NoToken /\ q.msg.cvn \in Seq(Digit) =>
           q.msg.cvn = f[q.out.cvnToken]
      /\ q.msg.kind = "authorize" /\ q.pc = "send" /\ q.msg.cardToken # NoToken =>
           q.out.card = f[q.msg.cardToken]
      /\ q.msg.kind = "authorize" /\ q.pc = "send" /\ q.msg.cvnToken # NoToken =>
           q.out.cvn = f[q.msg.cvnToken]

Texts(f) ==
  /\ \A t \in Token : RowText(f, t) /\ GivenText(f, t)
  /\ \A r \in Request : RequestText(f, r)

TextInv == \E f \in [Token -> Seq(Digit)] : Texts(f)

-----------------------------------------------------------------------------

\* What is stored for a text gives the text back, if it is of digits.
LEMMA NewRowGood ==
  ASSUME NEW t \in Token, NEW text \in Seq(0 .. Space) \ {Empty},
         NEW block \in BcdEncode(text), NEW finish \in Nat
  PROVE  LET row == NewRow(t, text, block, finish)
         IN  /\ GoodRow(t, row) /\ row # NoRow
             /\ row.finish = finish /\ row.late = (finish < now)
             /\ text \in Seq(Digit) => Plain(t, row.data) = text
<1> DEFINE data == EncodeBase64(Encrypt("ecb", Dek(t), block))
           digest == IF Len(text) >= MinHashed THEN text ELSE <<>>
           late == finish < now
           row == [data |-> data, digest |-> digest, finish |-> finish, late |-> late]
<1>1. row = NewRow(t, text, block, finish)
  BY DEF NewRow
<1>2. /\ CheckBase64(data) /\ data # <<>> /\ Plain(t, data) \in Seq(Digit)
      /\ text \in Seq(Digit) => Plain(t, data) = text
  <2>1. Dek(t) \in Int
    BY DEF Dek, Token
  <2> QED
    BY <2>1, NumbersReturn DEF Plain, Empty
<1>3. digest \in Seq(Digit) \ {Empty} => digest = text
  BY DEF Empty
<1>4. late \in BOOLEAN
  OBVIOUS
<1> HIDE DEF data, digest, late
<1>5. /\ row.data = data /\ row.digest = digest /\ row.finish = finish /\ row.late = late
      /\ row \in [data : {data}, digest : {digest}, finish : Nat, late : BOOLEAN]
  BY <1>4
<1>6. NoRow.data = <<>>
  BY DEF NoRow
<1> HIDE DEF row
<1>7. row # NoRow
  BY <1>2, <1>5, <1>6
<1>8. GoodRow(t, row)
  BY <1>2, <1>3, <1>5 DEF GoodRow
<1> QED
  BY <1>1, <1>2, <1>5, <1>7, <1>8 DEF late

\* A least token with the digest is found.
LEMMA SearchFinds ==
  ASSUME NEW r \in Request, Matches(r) # {}
  PROVE  Search(r) \in Token /\ Stored(Search(r)) /\ rows[Search(r)].digest = Pan(r)
<1>1. Matches(r) \in SUBSET Nat
  BY DEF Matches, Token
<1>2. PICK t \in Matches(r) : \A u \in Matches(r) : t <= u
  BY <1>1, HasLeast
<1>3. Search(r) \in Matches(r)
  BY <1>2 DEF Search
<1> QED
  BY <1>3 DEF Matches

LEMMA LargerSeq ==
  ASSUME NEW A, NEW C, A \subseteq C, NEW s \in Seq(A)
  PROVE  s \in Seq(C)
<1>1. \A i \in 1 .. Len(s) : s[i] \in C
  OBVIOUS
<1> QED
  BY <1>1

\* A valid card has a number of digits.
LEMMA ValidPan ==
  ASSUME NEW card \in Seq(0 .. Space), NormalizePan(card) # Error
  PROVE  /\ NormalizePan(card) \in Seq(Digit) \ {Empty}
         /\ NormalizePan(card) \in Seq(0 .. Space)
         /\ card # Empty
<1>1. NormalizePan(card) \in Seq(Digit)
  BY NormalForm
<1>2. Len(NormalizePan(card)) >= 1
  <2>1. PanMin \in Nat /\ PanMin >= 1 /\ PanMax \in Int
    BY ProxyAssumption, CodecsAssumption DEF ProxyAssumption, CodecsAssumption
  <2>2. Len(NormalizePan(card)) \in PanMin .. PanMax
    BY NormalForm
  <2> QED
    BY <2>1, <2>2
<1>3. Len(card) >= 1
  <2>1. Len(NormalizePan(card)) <= Len(card)
    BY NormalForm
  <2> QED
    BY <1>1, <1>2, <2>1
<1>4. NormalizePan(card) \in Seq(0 .. Space)
  <2>1. Digit \subseteq 0 .. Space
    BY DEF Digit, Space
  <2> QED
    BY <1>1, <2>1, LargerSeq
<1>5. NormalizePan(card) # Empty /\ card # Empty
  BY <1>2, <1>3 DEF Empty
<1> QED
  BY <1>1, <1>4, <1>5

\* A request that has sent what it had, or has not begun.
LEMMA Blank ==
  ASSUME NEW q, NEW n \in Nat, q.msg = NoMessage, q.out = NoMessage,
         q.new = NoRequest.new, q.renewed = FALSE, q.at \in 0 .. MaxNow,
         q.pc \in {"idle", "wait", "reply"}, q.reply \in Code \cup {NoCode},
         q.pc = "reply" /\ q.reply # 500 =>
           q.answer \in Answer /\ q.reply = Status(q.answer) /\ q.reply # NoCode
  PROVE  Formed(q, n)
<1>1. /\ NoMessage.kind = "other" /\ NoMessage.cardToken = NoToken
      /\ NoMessage.cvnToken = NoToken /\ NoMessage \in Parameters
  BY DEF NoMessage, Parameters, Kind, Empty
<1>2. NoToken \in 0 .. n
  BY DEF NoToken
<1>3. DOMAIN NoRequest.new = {}
  BY DEF NoRequest
<1>4. q.msg.kind = "other" /\ q.out.kind = "other" /\ q.msg \in Parameters
  BY <1>1
<1>5. {q.msg.cardToken, q.msg.cvnToken, q.out.cardToken, q.out.cvnToken} \subseteq 0 .. n
  BY <1>1, <1>2
<1>6. DOMAIN q.new = {} /\ q.pc \notin {"fix", "card", "commit", "send"}
  BY <1>3
<1>7. q.msg.cardToken = NoToken /\ q.msg.cvnToken = NoToken
  BY <1>1
<1> QED
  BY <1>4, <1>5, <1>6, <1>7 DEF Formed

LEMMA FormedMore ==
  ASSUME NEW q, NEW m \in Nat, NEW n \in Nat, m <= n, Formed(q, m)
  PROVE  Formed(q, n)
<1>1. 1 .. m \subseteq 1 .. n /\ 0 .. m \subseteq 0 .. n
  OBVIOUS
<1> QED
  BY <1>1 DEF Formed

Inv == ProxyInv /\ WellFormed /\ TimeInv /\ TextInv
After == WellFormed' /\ TimeInv' /\ TextInv'

\* A step of request r changes no other one.
LEMMA OneRequest ==
  ASSUME ProxyInv, NEW r \in Request, NEW q, Becomes(r, q)
  PROVE  req'[r] = q /\ \A s \in Request : s # r => req'[s] = req[s]
  BY DEF ProxyInv, Becomes

LEMMA NewAreTokens ==
  ASSUME WellFormed, NEW r \in Request
  PROVE  /\ DOMAIN req[r].new \subseteq Token
         /\ last \in Nat /\ \A t \in 1 .. last : t \in Token
<1>1. last \in Nat /\ \A t \in 1 .. last : t \in Token
  BY ProxyAssumption DEF WellFormed, Tables, Token, ProxyAssumption
<1>2. DOMAIN req[r].new \subseteq 1 .. last
  BY DEF WellFormed, Formed
<1> QED
  BY <1>1, <1>2

\* What is known of the tables does not change with a request.
LEMMA SameTables ==
  ASSUME Tables, UNCHANGED <<rows, last, given, removed, time>>
  PROVE  /\ Tables'
         /\ \A t \in Token : Stored(t)' = Stored(t)
         /\ \A t, exp, renewed : Held(t, exp, renewed)' = Held(t, exp, renewed)
         /\ \A t \in Token : Kept(t) => Kept(t)'
<1>1. rows' = rows /\ last' = last /\ given' = given /\ removed' = removed
      /\ now' = now /\ idle' = idle
  BY DEF time
<1> QED
  BY <1>1 DEF Tables, Stored, Held, Kept

\* A step of a request that makes no token and stores none.
LEMMA LocalInv ==
  ASSUME Inv, NEW r \in Request, NEW q, Becomes(r, q),
         UNCHANGED <<rows, last, given, removed, time>>, Formed(q, last),
         q.pc \notin {"idle", "reply"} => q.at <= now /\ now <= q.at + 1,
         DOMAIN q.new = {} \/ (q.new = req[r].new /\ q.at = req[r].at),
         \A t \in Token : q.msg.kind = "incoming" /\ t \in {q.out.cardToken, q.out.cvnToken} =>
            \/ Stored(t)
            \/ /\ req[r].msg.kind = "incoming"
               /\ t \in {req[r].out.cardToken, req[r].out.cvnToken},
         Promised(r)', \A f \in [Token -> Seq(Digit)] : Texts(f) => RequestText(f, r)'
  PROVE  After
<1>1. req'[r] = q /\ \A s \in Request : s # r => req'[s] = req[s]
  BY OneRequest DEF Inv
<1>2. rows' = rows /\ last' = last /\ given' = given /\ removed' = removed
      /\ now' = now /\ idle' = idle
  BY DEF time
<1>3. /\ Tables /\ Tables' /\ \A s \in Request : Formed(req[s], last)
      /\ \A t \in Token : Stored(t)' = Stored(t)
      /\ \A t, exp, renewed : Held(t, exp, renewed)' = Held(t, exp, renewed)
  BY SameTables DEF Inv, WellFormed
<1>4. WellFormed'
  <2>1. \A s \in Request : Formed(req'[s], last')
    BY <1>1, <1>2, <1>3
  <2> QED
    BY <1>3, <2>1 DEF WellFormed
<1>5. Timely'
  BY <1>1, <1>2 DEF Inv, TimeInv, Timely
<1>6. Expiring'
  <2>1. Expiring
    BY DEF Inv, TimeInv
  <2>2. \A t \in Token : Stored(t)' => rows'[t].late \/ rows'[t].finish + idle' + 1 >= now'
    BY <1>2, <1>3, <2>1 DEF Expiring
  <2>3. ASSUME NEW s \in Request, NEW t \in DOMAIN req'[s].new
        PROVE  req'[s].new[t].late \/ req'[s].new[t].finish >= req'[s].at
    BY <1>1, <2>1, <2>3 DEF Expiring
  <2> QED
    BY <2>2, <2>3 DEF Expiring
<1>7. ASSUME NEW a \in Request, NEW b \in Request PROVE Fresh(a, b)'
  <2>1. Fresh(a, b)
    BY DEF Inv, TimeInv
  <2> SUFFICES ASSUME NEW t \in DOMAIN req'[a].new
               PROVE  /\ ~Stored(t)' /\ given'[t] = NotGiven
                      /\ b # a => t \notin DOMAIN req'[b].new
                      /\ b # a /\ req'[b].msg.kind = "incoming" =>
                           t # req'[b].out.cardToken /\ t # req'[b].out.cvnToken
    BY DEF Fresh
  <2>2. t \in DOMAIN req[a].new
    BY <1>1
  <2>3. t \in Token
    BY <2>2, NewAreTokens DEF Inv
  <2>4. ~Stored(t)' /\ given'[t] = NotGiven
    BY <1>2, <1>3, <2>1, <2>2, <2>3 DEF Fresh
  <2>5. ASSUME b # a PROVE t \notin DOMAIN req'[b].new
    BY <1>1, <2>1, <2>2, <2>5 DEF Fresh
  <2>6. ASSUME b # a, req'[b].msg.kind = "incoming"
        PROVE  t # req'[b].out.cardToken /\ t # req'[b].out.cvnToken
    BY <1>1, <2>1, <2>2, <2>3, <2>6 DEF Fresh
  <2> QED
    BY <2>4, <2>5, <2>6
<1>8. ASSUME NEW s \in Request PROVE Promised(s)'
  <2>1. CASE s # r
    <3>1. Promised(s) /\ req'[s] = req[s]
      BY <1>1, <2>1 DEF Inv, TimeInv
    <3> QED
      BY <1>3, <3>1 DEF Promised, Promise
  <2> QED
    BY <2>1
<1>9. \A t \in Token : Kept(t)'
  BY <1>3, SameTables DEF Inv, TimeInv
<1>10. TimeInv'
  BY <1>5, <1>6, <1>7, <1>8, <1>9 DEF TimeInv
<1>11. TextInv'
  <2>1. PICK f \in [Token -> Seq(Digit)] : Texts(f)
    BY DEF Inv, TextInv
  <2>2. \A t \in Token : RowText(f, t)' /\ GivenText(f, t)'
    BY <1>2, <1>3, <2>1 DEF Texts, RowText, GivenText
  <2>3. ASSUME NEW s \in Request PROVE RequestText(f, s)'
    <3>1. CASE s # r
      BY <1>1, <2>1, <3>1 DEF Texts, RequestText
    <3> QED
      BY <2>1, <3>1
  <2>4. Texts(f)'
    BY <2>2, <2>3 DEF Texts
  <2> QED
    BY <2>4 DEF TextInv
<1> QED
  BY <1>4, <1>10, <1>11 DEF After

LEMMA NoTokenIsNone ==
  NoToken \notin Token /\ NoMessage.kind = "other" /\ DOMAIN NoRequest.new = {}
  BY DEF NoToken, Token, NoMessage, NoRequest

\* A request is answered or ends.
LEMMA EndInv ==
  ASSUME Inv, NEW r \in Request, NEW q, Becomes(r, q),
         UNCHANGED <<rows, last, given, removed, time>>,
         q.msg = NoMessage, q.out = NoMessage, q.new = NoRequest.new, q.renewed = FALSE,
         q.at = 0, q.pc \in {"idle", "reply"}, q.reply \in Code \cup {NoCode},
         q.pc = "reply" /\ q.reply # 500 =>
           q.answer \in Answer /\ q.reply = Status(q.answer) /\ q.reply # NoCode
  PROVE  After
<1>1. last \in Nat /\ 0 \in 0 .. MaxNow
  BY NewAreTokens, ProxyAssumption DEF Inv, ProxyAssumption
<1>2. Formed(q, last)
  BY <1>1, Blank
<1>3. req'[r] = q
  BY OneRequest DEF Inv
<1>4. q.msg.kind = "other" /\ DOMAIN q.new = {}
  BY NoTokenIsNone
<1>5. Promised(r)'
  BY <1>3, <1>4 DEF Promised
<1>6. \A f \in [Token -> Seq(Digit)] : Texts(f) => RequestText(f, r)'
  BY <1>3, <1>4 DEF RequestText
<1> QED
  BY <1>2, <1>4, <1>5, <1>6, LocalInv

LEMMA ReplyAfter ==
  ASSUME Inv, NEW r \in Request, NEW answer, NEW code \in Code, Reply(r, answer, code),
         UNCHANGED <<rows, last, given, removed, time>>,
         code # 500 => answer \in Answer /\ code = Status(answer) /\ code # NoCode
  PROVE  After
<1> DEFINE q == [NoRequest EXCEPT !.pc = "reply", !.answer = answer, !.reply = code]
<1>1. /\ q.pc = "reply" /\ q.msg = NoMessage /\ q.out = NoMessage /\ q.new = NoRequest.new
      /\ q.renewed = FALSE /\ q.at = 0 /\ q.answer = answer /\ q.reply = code
  BY DEF NoRequest
<1>2. Becomes(r, q)
  BY DEF Reply
<1> HIDE DEF q
<1> QED
  BY <1>1, <1>2, EndInv

LEMMA SendReplyAfter ==
  ASSUME Inv, NEW r \in Request, SendReply(r)
  PROVE  After
<1>1. /\ NoRequest.pc = "idle" /\ NoRequest.msg = NoMessage /\ NoRequest.out = NoMessage
      /\ NoRequest.renewed = FALSE /\ NoRequest.at = 0 /\ NoRequest.reply = NoCode
  BY DEF NoRequest
<1> QED
  BY <1>1, EndInv DEF SendReply

LEMMA BeginAfter ==
  ASSUME Inv, NEW r \in Request, NEW m \in Parameters, Begin(r, m),
         m.kind # "authorize" => m.cardToken = NoToken /\ m.cvnToken = NoToken
  PROVE  After
<1> DEFINE q == [NoRequest EXCEPT !.pc = "fix", !.msg = m, !.out = m, !.at = now]
<1>1. /\ q.pc = "fix" /\ q.msg = m /\ q.out = m /\ q.new = NoRequest.new
      /\ q.renewed = FALSE /\ q.at = now /\ q.reply = NoCode
  BY DEF NoRequest
<1>2. Becomes(r, q) /\ UNCHANGED <<rows, last, given, removed, time>>
  BY DEF Begin
<1> HIDE DEF q
<1>3. now \in 0 .. MaxNow /\ last \in Nat /\ NoToken \in 0 .. last
  BY NewAreTokens DEF Inv, WellFormed, Tables, NoToken
<1>4. DOMAIN q.new = {}
  BY <1>1, NoTokenIsNone
<1>5. Formed(q, last)
  BY <1>1, <1>3, <1>4 DEF Formed
<1>6. req'[r] = q
  BY <1>2, OneRequest DEF Inv
<1>7. Promised(r)'
  BY <1>1, <1>6, NoTokenIsNone DEF Promised, Promise
<1>8. \A f \in [Token -> Seq(Digit)] : Texts(f) => RequestText(f, r)'
  BY <1>1, <1>4, <1>6 DEF RequestText
<1>9. q.at <= now /\ now <= q.at + 1
  BY <1>1, <1>3, ProxyAssumption DEF ProxyAssumption
<1>10. \A t \in Token : q.msg.kind = "incoming" => t \notin {q.out.cardToken, q.out.cvnToken}
  BY <1>1, NoTokenIsNone
<1> QED
  BY <1>2, <1>4, <1>5, <1>7, <1>8, <1>9, <1>10, LocalInv

\* What is known of a request, and of its time.
LEMMA Of ==
  ASSUME Inv, NEW r \in Request
  PROVE  /\ Fields(req[r]) /\ Replaced(req[r]) /\ Formed(req[r], last) /\ Tables
         /\ req[r].pc \notin {"idle", "reply"} => req[r].at <= now /\ now <= req[r].at + 1
         /\ Promised(r) /\ last \in Nat /\ DOMAIN req[r].new \subseteq Token
         /\ \A s \in Request : Fresh(r, s) /\ Fresh(s, r)
  BY NewAreTokens DEF Inv, ProxyInv, WellFormed, TimeInv, Timely

LEMMA PassOnAfter ==
  ASSUME Inv, NEW r \in Request, PassOn(r)
  PROVE  After
<1> DEFINE q == [req[r] EXCEPT !.pc = "send"]
<1>1. /\ Fields(req[r]) /\ Formed(req[r], last) /\ req[r].pc = "fix"
      /\ req[r].out = req[r].msg /\ last \in Nat
  BY Of DEF PassOn, Replaced
<1>2. /\ q.pc = "send" /\ q.msg = req[r].msg /\ q.out = req[r].msg /\ q.new = req[r].new
      /\ q.renewed = req[r].renewed /\ q.at = req[r].at /\ q.reply = req[r].reply
  BY <1>1 DEF Fields
<1>3. Becomes(r, q) /\ UNCHANGED <<rows, last, given, removed, time>>
  BY DEF PassOn, Goto
<1> HIDE DEF q
<1>4. q.msg.cardToken = NoToken /\ q.msg.cvnToken = NoToken
  BY <1>1, <1>2 DEF PassOn, HasTokens, Formed
<1>5. DOMAIN q.new = {} /\ NoToken \in 0 .. last
  BY <1>1, <1>2 DEF Formed, NoToken
<1>6. Formed(q, last)
  BY <1>1, <1>2, <1>4, <1>5 DEF Formed
<1>7. req'[r] = q
  BY <1>3, OneRequest DEF Inv
<1>8. Promised(r)'
  BY <1>2, <1>4, <1>7, NoTokenIsNone DEF Promised, Promise
<1>9. \A f \in [Token -> Seq(Digit)] : Texts(f) => RequestText(f, r)'
  BY <1>2, <1>4, <1>5, <1>7 DEF RequestText
<1>10. q.at <= now /\ now <= q.at + 1
  BY <1>1, <1>2, Of
<1>11. \A t \in Token : t \notin {q.out.cardToken, q.out.cvnToken}
  BY <1>2, <1>4, NoTokenIsNone
<1> QED
  BY <1>3, <1>5, <1>6, <1>8, <1>9, <1>10, <1>11, LocalInv

\* The row that is found has the text of the card, and its date, or is told not to.
LEMMA FoundCardAfter ==
  ASSUME Inv, NEW r \in Request, FoundCard(r)
  PROVE  After
<1> DEFINE t == Search(r)
           renewed == rows[t].finish < Finish(req[r].msg.exp)
           out == Tokenized(req[r].out, "card", t)
           q == [req[r] EXCEPT !.pc = "commit", !.renewed = renewed, !.out = out]
<1>1. /\ Fields(req[r]) /\ Formed(req[r], last) /\ Tables /\ last \in Nat
      /\ ValidCard(r) /\ req[r].pc \in {"fix", "card"} /\ req[r].msg.kind = "incoming"
      /\ Pan(r) # Error /\ req[r].msg.exp # NoExpiry
  BY Of DEF FoundCard, AtCard, ValidCard, HasCard
<1>2. /\ t \in Token /\ Stored(t) /\ rows[t].digest = Pan(r)
      /\ t \in 1 .. last /\ GoodRow(t, rows[t])
  <2>1. t \in Token /\ Stored(t) /\ rows[t].digest = Pan(r)
    BY SearchFinds DEF FoundCard
  <2>2. t <= last /\ GoodRow(t, rows[t])
    BY <1>1, <2>1 DEF Tables
  <2> QED
    BY <1>1, <2>1, <2>2 DEF Token
<1>3. renewed \in BOOLEAN
  OBVIOUS
<1>4. Becomes(r, q) /\ UNCHANGED <<rows, last, given, removed, time>>
  BY <1>1 DEF FoundCard, Fields
<1>5. /\ out.cardToken = t /\ out.cvnToken = req[r].out.cvnToken
      /\ out.kind = req[r].out.kind
  <2>1. out = [req[r].out EXCEPT !.card = Empty, !.cardToken = t]
    BY <1>1, TokenizedFields
  <2> HIDE DEF out, t
  <2> QED
    BY <1>1, <2>1 DEF Fields
<1> HIDE DEF out, renewed
<1>6. /\ q.pc = "commit" /\ q.msg = req[r].msg /\ q.out = out /\ q.new = req[r].new
      /\ q.renewed = renewed /\ q.at = req[r].at /\ q.reply = req[r].reply
  BY <1>1 DEF Fields
<1> HIDE DEF q, t
<1>7. Formed(q, last)
  <2>1. {q.msg.cardToken, q.msg.cvnToken, q.out.cardToken, q.out.cvnToken} \subseteq 0 .. last
    BY <1>1, <1>2, <1>5, <1>6 DEF Formed
  <2> QED
    BY <1>1, <1>3, <1>5, <1>6, <2>1 DEF Formed, Pan
<1>8. req'[r] = q
  BY <1>4, OneRequest DEF Inv
<1>9. Promised(r)'
  <2>1. rows' = rows /\ removed' = removed /\ now' = now
    BY <1>4 DEF time
  <2>2. Promised(r) /\ Fresh(r, r)
    BY Of
  <2>3. t \notin DOMAIN req[r].new
    BY <1>2, <2>2 DEF Fresh
  <2>4. req[r].msg.exp <= rows[t].finish \/ renewed
    <3>1. req[r].msg.exp \in Nat /\ Grace \in Nat
      BY <1>1, ProxyAssumption DEF Formed, Parameters, ProxyAssumption
    <3>2. rows[t].finish \in Nat
      BY <1>2 DEF GoodRow
    <3> QED
      BY <3>1, <3>2 DEF renewed, Finish, t
  <2>5. Held(t, req[r].msg.exp, renewed)
    BY <1>2, <2>4 DEF Held
  <2>6. Promise(r, req[r].out.cardToken, req[r].msg.exp, req[r].renewed)'
    BY <1>5, <1>6, <1>8, <2>1, <2>3, <2>5 DEF Promise, Held, Stored
  <2>7. Promise(r, req[r].out.cvnToken, req[r].at, FALSE)'
    BY <1>1, <1>5, <1>6, <1>8, <2>1, <2>2 DEF Promised, Promise, Held, Stored
  <2> QED
    BY <1>8, <2>6, <2>7 DEF Promised
<1>10. ASSUME NEW f \in [Token -> Seq(Digit)], Texts(f) PROVE RequestText(f, r)'
  <2>1. RequestText(f, r) /\ RowText(f, t)
    BY <1>2, <1>10 DEF Texts
  <2>2. NormalizePan(req[r].msg.card) \in Seq(Digit) \ {Empty}
    BY <1>1, ValidPan DEF Formed, Parameters, Pan
  <2>3. NormalizePan(req[r].msg.card) = f[t]
    BY <1>2, <2>1, <2>2 DEF RowText, GoodRow, Pan
  <2> QED
    BY <1>1, <1>5, <1>6, <1>8, <2>1, <2>3 DEF RequestText
<1>11. q.at <= now /\ now <= q.at + 1
  BY <1>1, <1>6, Of
<1>12. \A u \in Token : u \in {q.out.cardToken, q.out.cvnToken} =>
          Stored(u) \/ u \in {req[r].out.cardToken, req[r].out.cvnToken}
  BY <1>2, <1>5, <1>6
<1> QED
  BY <1>1, <1>4, <1>6, <1>7, <1>9, <1>10, <1>11, <1>12, LocalInv

\* What is decoded to a card number has digits, as a row of the table gives.
LEMMA DetokenizedCard ==
  ASSUME Tables, NEW t \in Token, Stored(t)
  PROVE  /\ Detokenize(t) \in Seq(Digit) /\ Detokenize(t) = Plain(t, rows[t].data)
         /\ NormalizePan(Detokenize(t)) # Error => Detokenize(t) # Empty
<1>1. GoodRow(t, rows[t])
  BY DEF Tables
<1>2. Detokenize(t) \in Seq(Digit) /\ Detokenize(t) = Plain(t, rows[t].data)
  BY <1>1 DEF GoodRow, Plain, Detokenize
<1>3. Detokenize(t) \in Seq(0 .. Space)
  <2>1. Digit \subseteq 0 .. Space
    BY DEF Digit, Space
  <2> QED
    BY <1>2, <2>1, LargerSeq
<1> QED
  BY <1>2, <1>3, ValidPan

LEMMA ExpandAfter ==
  ASSUME Inv, NEW r \in Request, Expand(r)
  PROVE  After
<1> DEFINE card == Detokenize(req[r].msg.cardToken)
           cvn == IF req[r].msg.cvnToken = NoToken THEN req[r].out.cvn
                  ELSE Detokenize(req[r].msg.cvnToken)
           q == [req[r] EXCEPT !.pc = "send",
                               !.out.cardToken = NoToken, !.out.cvnToken = NoToken,
                               !.out.card = card, !.out.cvn = cvn]
<1>1. /\ Fields(req[r]) /\ Formed(req[r], last) /\ Tables /\ last \in Nat
      /\ req[r].pc = "fix" /\ req[r].msg.kind = "authorize"
      /\ req[r].msg.cardToken # NoToken /\ Stored(req[r].msg.cardToken)
      /\ NormalizePan(Detokenize(req[r].msg.cardToken)) # Error
      /\ req[r].msg.cvnToken # NoToken => Stored(req[r].msg.cvnToken)
  BY Of DEF Expand, HasTokens
<1>2. Becomes(r, q) /\ UNCHANGED <<rows, last, given, removed, time>>
  BY <1>1 DEF Expand, Fields
<1>3. /\ req[r].msg.cardToken \in Token
      /\ req[r].msg.cvnToken # NoToken => req[r].msg.cvnToken \in Token
  BY <1>1 DEF Formed, Parameters
<1>4. /\ card \in Seq(Digit) \ {Empty}
      /\ card = Plain(req[r].msg.cardToken, rows[req[r].msg.cardToken].data)
      /\ req[r].msg.cvnToken # NoToken =>
           cvn = Plain(req[r].msg.cvnToken, rows[req[r].msg.cvnToken].data)
  BY <1>1, <1>3, DetokenizedCard
<1> HIDE DEF card, cvn
<1>5. /\ q.pc = "send" /\ q.msg = req[r].msg /\ q.new = req[r].new
      /\ q.renewed = req[r].renewed /\ q.at = req[r].at /\ q.reply = req[r].reply
      /\ q.out.kind = req[r].out.kind /\ q.out.card = card /\ q.out.cvn = cvn
      /\ q.out.cardToken = NoToken /\ q.out.cvnToken = NoToken
  BY <1>1 DEF Fields
<1> HIDE DEF q
<1>6. DOMAIN q.new = {} /\ NoToken \in 0 .. last
  BY <1>1, <1>5 DEF Formed, NoToken
<1>7. Formed(q, last)
  <2>1. \A t \in Token : Stored(t) => t \in 0 .. last
    BY <1>1 DEF Tables, Token
  <2>2. {q.msg.cardToken, q.msg.cvnToken, q.out.cardToken, q.out.cvnToken} \subseteq 0 .. last
    BY <1>1, <1>3, <1>5, <1>6, <2>1
  <2> QED
    BY <1>1, <1>4, <1>5, <1>6, <2>2 DEF Formed
<1>8. req'[r] = q
  BY <1>2, OneRequest DEF Inv
<1>9. Promised(r)'
  BY <1>1, <1>5, <1>8 DEF Promised
<1>10. ASSUME NEW f \in [Token -> Seq(Digit)], Texts(f) PROVE RequestText(f, r)'
  <2>1. \A t \in Token : RowText(f, t)
    BY <1>10 DEF Texts
  <2>2. card = f[req[r].msg.cardToken]
    BY <1>1, <1>3, <1>4, <2>1 DEF RowText
  <2>3. req[r].msg.cvnToken # NoToken => cvn = f[req[r].msg.cvnToken]
    BY <1>1, <1>3, <1>4, <2>1 DEF RowText
  <2> QED
    BY <1>1, <1>5, <1>6, <1>8, <2>2, <2>3 DEF RequestText
<1>11. q.at <= now /\ now <= q.at + 1
  BY <1>1, <1>5, Of
<1>12. \A t \in Token : t \notin {q.out.cardToken, q.out.cvnToken}
  BY <1>5, NoTokenIsNone
<1> QED
  BY <1>2, <1>6, <1>7, <1>9, <1>10, <1>11, <1>12, LocalInv

\* The next token has no row yet, and nobody knows of it.
LEMMA NextIsNew ==
  ASSUME Inv, last < MaxToken
  PROVE  /\ last + 1 \in Token /\ last + 1 # NoToken /\ ~Stored(last + 1)
         /\ given[last + 1] = NotGiven
         /\ \A s \in Request :
              /\ last + 1 \notin DOMAIN req[s].new
              /\ req[s].pc # "fix" \/ req[s].msg.kind # "authorize" =>
                   last + 1 \notin {req[s].msg.cardToken, req[s].msg.cvnToken,
                                    req[s].out.cardToken, req[s].out.cvnToken}
<1> DEFINE n == last + 1
<1>1. last \in Nat /\ MaxToken \in Nat /\ Tables
  BY ProxyAssumption DEF ProxyAssumption, Inv, WellFormed, Tables
<1>2. n \in Token /\ n \notin 0 .. last /\ n # NoToken /\ ~(n <= last)
  BY <1>1 DEF Token, NoToken
<1>3. n \notin 1 .. last
  BY <1>2, <1>1
<1> HIDE DEF n
<1>4. ~Stored(n) /\ given[n] = NotGiven
  BY <1>1, <1>2 DEF Tables
<1>5. ASSUME NEW s \in Request
      PROVE  /\ n \notin DOMAIN req[s].new
             /\ req[s].pc # "fix" \/ req[s].msg.kind # "authorize" =>
                  n \notin {req[s].msg.cardToken, req[s].msg.cvnToken,
                            req[s].out.cardToken, req[s].out.cvnToken}
  <2>1. Formed(req[s], last)
    BY DEF Inv, WellFormed
  <2> QED
    BY <1>2, <1>3, <2>1 DEF Formed
<1> QED
  BY <1>2, <1>4, <1>5 DEF n

\* A token is made for one of the texts of a request: the card, or the CVN.
ForCard(q, p, row) ==
  /\ q.out.cardToken = last + 1 /\ q.out.cvnToken = p.out.cvnToken
  /\ p.msg.exp <= row.finish
  /\ NormalizePan(p.msg.card) = Plain(last + 1, row.data)

ForCvn(q, p, row) ==
  /\ q.out.cvnToken = last + 1 /\ q.out.cardToken = p.out.cardToken
  /\ p.at <= row.finish
  /\ p.msg.cvn \in Seq(Digit) => p.msg.cvn = Plain(last + 1, row.data)

LEMMA MakesToken ==
  ASSUME Inv, NEW r \in Request, NEW q, NEW row, Becomes(r, q), last < MaxToken,
         last' = last + 1, UNCHANGED <<rows, given, removed, time>>,
         Formed(q, last + 1), q.pc \notin {"idle", "reply"},
          req[r].pc \notin {"idle", "reply"},
         req[r].msg.kind = "incoming", q.msg = req[r].msg, q.at = req[r].at,
         q.renewed = req[r].renewed, q.new = Adding(r, last + 1, row),
         row.late \/ row.finish >= req[r].at, Plain(last + 1, row.data) \in Seq(Digit),
         ForCard(q, req[r], row) \/ ForCvn(q, req[r], row)
  PROVE  After
<1> DEFINE n == last + 1
<1>1. req'[r] = q /\ \A s \in Request : s # r => req'[s] = req[s]
  BY OneRequest DEF Inv
<1>2. rows' = rows /\ given' = given /\ removed' = removed /\ now' = now /\ idle' = idle
  BY DEF time
<1>3. /\ Tables /\ last \in Nat /\ last <= n
      /\ \A s \in Request : Formed(req[s], last)
      /\ \A t \in Token : Stored(t)' = Stored(t)
      /\ \A t, exp, renewed : Held(t, exp, renewed)' = Held(t, exp, renewed)
  BY <1>2 DEF Inv, WellFormed, Tables, Stored, Held
<1>4. n \in Token /\ n # NoToken /\ ~Stored(n) /\ given[n] = NotGiven /\ n \in Nat
  BY <1>3, NextIsNew
<1>5. \A s \in Request :
        /\ n \notin DOMAIN req[s].new
        /\ req[s].pc # "fix" \/ req[s].msg.kind # "authorize" =>
             n \notin {req[s].msg.cardToken, req[s].msg.cvnToken,
                       req[s].out.cardToken, req[s].out.cvnToken}
  BY NextIsNew
<1>6. /\ DOMAIN q.new = DOMAIN req[r].new \cup {n} /\ q.new[n] = row
      /\ \A t \in DOMAIN req[r].new : q.new[t] = req[r].new[t]
  BY <1>5 DEF Adding
<1>7. \A t \in {q.out.cardToken, q.out.cvnToken} :
         t = n \/ t \in {req[r].out.cardToken, req[r].out.cvnToken}
  BY DEF ForCard, ForCvn
<1>8. last' = n /\ q.new = Adding(r, n, row) /\ Formed(q, n)
  OBVIOUS
<1> HIDE DEF n
<1>9. WellFormed'
  <2>1. Tables'
    <3>1. last' \in 0 .. MaxToken
      BY <1>3, <1>4, <1>8 DEF Token
    <3>2. \A t \in Token : t <= last => t <= last'
      BY <1>3, <1>8, <1>4 DEF Token
    <3>3. removed' \subseteq 1 .. last'
      BY <1>2, <1>3, <1>4, <1>8 DEF Tables
    <3> QED
      BY <1>2, <1>3, <3>1, <3>2, <3>3 DEF Tables
  <2>2. ASSUME NEW s \in Request PROVE Formed(req'[s], last')
    BY <1>1, <1>3, <1>4, <1>8, FormedMore
  <2> QED
    BY <2>1, <2>2 DEF WellFormed
<1>10. Timely'
  BY <1>1, <1>2 DEF Inv, TimeInv, Timely
<1>11. Expiring'
  <2>1. Expiring
    BY DEF Inv, TimeInv
  <2>2. \A t \in Token : Stored(t)' => rows'[t].late \/ rows'[t].finish + idle' + 1 >= now'
    BY <1>2, <1>3, <2>1 DEF Expiring
  <2>3. ASSUME NEW s \in Request, NEW t \in DOMAIN req'[s].new
        PROVE  req'[s].new[t].late \/ req'[s].new[t].finish >= req'[s].at
    BY <1>1, <1>6, <2>1, <2>3 DEF Expiring
  <2> QED
    BY <2>2, <2>3 DEF Expiring
<1>12. ASSUME NEW a \in Request, NEW b \in Request PROVE Fresh(a, b)'
  <2>1. Fresh(a, b)
    BY DEF Inv, TimeInv
  <2> SUFFICES ASSUME NEW t \in DOMAIN req'[a].new
               PROVE  /\ ~Stored(t)' /\ given'[t] = NotGiven
                      /\ b # a => t \notin DOMAIN req'[b].new
                      /\ b # a /\ req'[b].msg.kind = "incoming" =>
                           t # req'[b].out.cardToken /\ t # req'[b].out.cvnToken
    BY DEF Fresh
  <2>2. CASE t = n
    <3>1. a = r
      BY <1>1, <1>5, <2>2
    <3>2. b # a => req'[b] = req[b]
      BY <1>1, <3>1
    <3> QED
      BY <1>2, <1>3, <1>4, <1>5, <2>2, <3>2
  <2>3. CASE t # n
    <3>1. t \in DOMAIN req[a].new
      BY <1>1, <1>6, <2>3
    <3>2. t \in Token
      BY <3>1, NewAreTokens DEF Inv
    <3>3. ~Stored(t)' /\ given'[t] = NotGiven
      BY <1>2, <1>3, <2>1, <3>1, <3>2 DEF Fresh
    <3>4. ASSUME b # a PROVE t \notin DOMAIN req'[b].new
      BY <1>1, <1>6, <2>1, <2>3, <3>1, <3>4 DEF Fresh
    <3>5. ASSUME b # a, req'[b].msg.kind = "incoming"
          PROVE  t # req'[b].out.cardToken /\ t # req'[b].out.cvnToken
      BY <1>1, <1>7, <2>1, <2>3, <3>1, <3>5 DEF Fresh
    <3> QED
      BY <3>3, <3>4, <3>5
  <2> QED
    BY <2>2, <2>3
<1>13. ASSUME NEW s \in Request PROVE Promised(s)'
  <2>1. Promised(s)
    BY DEF Inv, TimeInv
  <2>2. CASE s # r
    <3>1. req'[s] = req[s]
      BY <1>1, <2>2
    <3> QED
      BY <1>3, <2>1, <3>1 DEF Promised, Promise
  <2>3. CASE s = r
    <3>1. /\ Promise(r, req[r].out.cardToken, req[r].msg.exp, req[r].renewed)
          /\ Promise(r, req[r].out.cvnToken, req[r].at, FALSE)
      BY <2>1, <2>3 DEF Promised
    <3>2. n \notin {req[r].out.cardToken, req[r].out.cvnToken}
      BY <1>5
    <3>3. CASE ForCard(q, req[r], row)
      <4>1. Promise(r, req[r].out.cardToken, req[r].msg.exp, req[r].renewed)'
        BY <1>1, <1>6, <3>3 DEF Promise, ForCard, n
      <4>2. Promise(r, req[r].out.cvnToken, req[r].at, FALSE)'
        BY <1>1, <1>3, <1>6, <3>1, <3>2, <3>3 DEF Promise, ForCard
      <4> QED
        BY <2>3, <4>1, <4>2 DEF Promised
    <3>4. CASE ForCvn(q, req[r], row)
      <4>1. Promise(r, req[r].out.cvnToken, req[r].at, FALSE)'
        BY <1>1, <1>6, <3>4 DEF Promise, ForCvn, n
      <4>2. Promise(r, req[r].out.cardToken, req[r].msg.exp, req[r].renewed)'
        BY <1>1, <1>3, <1>6, <3>1, <3>2, <3>4 DEF Promise, ForCvn
      <4> QED
        BY <2>3, <4>1, <4>2 DEF Promised
    <3> QED
      BY <3>3, <3>4
  <2> QED
    BY <2>2, <2>3
<1>14. \A t \in Token : Kept(t)'
  BY <1>2, <1>3 DEF Inv, TimeInv, Kept
<1>15. TextInv'
  <2>1. PICK f \in [Token -> Seq(Digit)] : Texts(f)
    BY DEF Inv, TextInv
  <2>2. PICK g \in [Token -> Seq(Digit)] :
          g[n] = Plain(n, row.data) /\ \A t \in Token : t # n => g[t] = f[t]
    <3>1. LET g == [f EXCEPT ![n] = Plain(n, row.data)]
          IN  /\ g \in [Token -> Seq(Digit)] /\ g[n] = Plain(n, row.data)
              /\ \A t \in Token : t # n => g[t] = f[t]
      BY <1>4 DEF n
    <3> QED
      BY <3>1
  <2>3. ASSUME NEW t \in Token PROVE RowText(g, t)' /\ GivenText(g, t)'
    <3>1. RowText(f, t) /\ GivenText(f, t)
      BY <2>1 DEF Texts
    <3>2. CASE t = n
      BY <1>2, <1>3, <1>4, <3>2 DEF RowText, GivenText, NotGiven, Empty
    <3>3. CASE t # n
      BY <1>2, <1>3, <2>2, <3>1, <3>3 DEF RowText, GivenText
    <3> QED
      BY <3>2, <3>3
  <2>4. ASSUME NEW s \in Request PROVE RequestText(g, s)'
    <3>1. RequestText(f, s) /\ Formed(req[s], last) /\ DOMAIN req[s].new \subseteq Token
      BY <1>3, <2>1, NewAreTokens DEF Texts, Inv
    <3>2. \A t \in DOMAIN req[s].new : Plain(t, req[s].new[t].data) = g[t]
      BY <1>5, <2>2, <3>1 DEF RequestText
    <3>3. \A t \in 1 .. last : g[t] = f[t]
      BY <1>3, <2>2, NewAreTokens DEF Inv, n
    <3>4. \A t \in 0 .. last : t # NoToken => g[t] = f[t]
      BY <1>3, <3>3 DEF NoToken
    <3>5. CASE s # r
      <4>1. req'[s] = req[s]
        BY <1>1, <3>5
      <4>2. /\ req[s].msg.kind = "incoming" =>
                 req[s].out.cardToken \in 0 .. last /\ req[s].out.cvnToken \in 0 .. last
            /\ req[s].msg.kind = "authorize" /\ req[s].pc = "send" =>
                 req[s].msg.cardToken \in 0 .. last /\ req[s].msg.cvnToken \in 0 .. last
        BY <3>1 DEF Formed
      <4> QED
        BY <3>1, <3>2, <3>4, <4>1, <4>2 DEF RequestText
    <3>6. CASE s = r
      <4>1. req[r].out.cardToken \in 0 .. last /\ req[r].out.cvnToken \in 0 .. last
        BY <3>1, <3>6 DEF Formed
      <4>2. \A t \in DOMAIN q.new : Plain(t, q.new[t].data) = g[t]
        BY <1>6, <2>2, <3>2, <3>6
      <4>3. q.out.cardToken # NoToken => NormalizePan(q.msg.card) = g[q.out.cardToken]
        BY <2>2, <3>1, <3>4, <3>6, <4>1 DEF RequestText, ForCard, ForCvn, n
      <4>4. q.out.cvnToken # NoToken /\ q.msg.cvn \in Seq(Digit) =>
              q.msg.cvn = g[q.out.cvnToken]
        BY <2>2, <3>1, <3>4, <3>6, <4>1 DEF RequestText, ForCard, ForCvn, n
      <4> QED
        BY <1>1, <3>6, <4>2, <4>3, <4>4 DEF RequestText
    <3> QED
      BY <3>5, <3>6
  <2>5. Texts(g)'
    BY <2>3, <2>4 DEF Texts
  <2> QED
    BY <2>2, <2>5 DEF TextInv
<1> QED
  BY <1>9, <1>10, <1>11, <1>12, <1>13, <1>14, <1>15 DEF After, TimeInv

LEMMA AddingFormed ==
  ASSUME Inv, NEW r \in Request, NEW row, last < MaxToken, GoodRow(last + 1, row)
  PROVE  LET new == Adding(r, last + 1, row)
         IN  /\ DOMAIN new \subseteq 1 .. last + 1
             /\ \A t \in DOMAIN new : GoodRow(t, new[t])
<1>1. Formed(req[r], last) /\ last \in Nat
  BY Of
<1>2. DOMAIN req[r].new \subseteq 1 .. last + 1 /\ last + 1 \in 1 .. last + 1
  BY <1>1 DEF Formed
<1>3. \A t \in DOMAIN req[r].new : GoodRow(t, req[r].new[t])
  BY <1>1 DEF Formed
<1> QED
  BY <1>2, <1>3 DEF Adding

LEMMA TokenizeCvnAfter ==
  ASSUME Inv, NEW r \in Request, TokenizeCvn(r)
  PROVE  After
<1>1. PICK block \in BcdEncode(req[r].msg.cvn) :
        Becomes(r, [req[r] EXCEPT
          !.pc = "card",
          !.new = Adding(r, last + 1, NewRow(last + 1, req[r].msg.cvn, block, now)),
          !.out = Tokenized(@, "cvn", last + 1)])
  BY DEF TokenizeCvn
<1> DEFINE row == NewRow(last + 1, req[r].msg.cvn, block, now)
           new == Adding(r, last + 1, row)
           out == Tokenized(req[r].out, "cvn", last + 1)
           q == [req[r] EXCEPT !.pc = "card", !.new = new, !.out = out]
<1>2. /\ Fields(req[r]) /\ Formed(req[r], last) /\ Tables /\ last \in Nat
      /\ req[r].pc = "fix" /\ req[r].msg.kind = "incoming" /\ req[r].out = req[r].msg
      /\ last < MaxToken /\ now \in Nat /\ req[r].msg.cvn # Empty
  BY Of DEF TokenizeCvn, HasCvn, Replaced, Tables
<1>3. /\ Becomes(r, q) /\ last' = last + 1
      /\ UNCHANGED <<rows, given, removed, time>>
  BY <1>1 DEF TokenizeCvn
<1>4. last + 1 \in Token /\ last + 1 # NoToken
  BY <1>2, NextIsNew
<1>5. /\ GoodRow(last + 1, row) /\ row.finish = now
      /\ req[r].msg.cvn \in Seq(Digit) => Plain(last + 1, row.data) = req[r].msg.cvn
  BY <1>1, <1>2, <1>4, NewRowGood DEF Formed, Parameters
<1> HIDE DEF row
<1>6. DOMAIN new \subseteq 1 .. last + 1 /\ \A t \in DOMAIN new : GoodRow(t, new[t])
  BY <1>2, <1>5, AddingFormed
<1>7. out = [req[r].out EXCEPT !.cvn = Empty, !.cvnToken = last + 1]
  BY <1>2, TokenizedFields
<1> HIDE DEF new, out
<1>8. /\ out.cvnToken = last + 1 /\ out.cardToken = req[r].out.cardToken
      /\ out.kind = req[r].out.kind
  BY <1>2, <1>7 DEF Fields
<1>9. /\ q.pc = "card" /\ q.msg = req[r].msg /\ q.out = out /\ q.new = new
      /\ q.renewed = req[r].renewed /\ q.at = req[r].at /\ q.reply = req[r].reply
  BY <1>2 DEF Fields
<1> HIDE DEF q
<1>10. q.msg.cardToken = NoToken /\ q.msg.cvnToken = NoToken /\ q.out.cardToken = NoToken
  BY <1>2, <1>8, <1>9 DEF Formed
<1>11. {q.msg.cardToken, q.msg.cvnToken, q.out.cardToken, q.out.cvnToken}
          \subseteq 0 .. last + 1
  BY <1>2, <1>8, <1>9, <1>10 DEF NoToken
<1>12. Formed(q, last + 1)
  BY <1>2, <1>6, <1>8, <1>9, <1>10, <1>11 DEF Formed
<1>13. req[r].at \in Nat /\ req[r].at <= now
  BY <1>2, Of, ProxyAssumption DEF Formed, ProxyAssumption
<1>14. ForCvn(q, req[r], row)
  BY <1>5, <1>8, <1>9, <1>13 DEF ForCvn
<1>15. row.late \/ row.finish >= req[r].at
  BY <1>2, <1>5, <1>13
<1>16. Plain(last + 1, row.data) \in Seq(Digit)
  BY <1>5 DEF GoodRow
<1> QED
  BY <1>2, <1>3, <1>9, <1>12, <1>14, <1>15, <1>16, MakesToken DEF new

LEMMA TokenizeCardAfter ==
  ASSUME Inv, NEW r \in Request, TokenizeCard(r)
  PROVE  After
<1>1. PICK block \in BcdEncode(Pan(r)) :
        Becomes(r, [req[r] EXCEPT
          !.pc = "commit",
          !.new = Adding(r, last + 1,
                         NewRow(last + 1, Pan(r), block, Finish(req[r].msg.exp))),
          !.out = Tokenized(@, "card", last + 1)])
  BY DEF TokenizeCard
<1> DEFINE row == NewRow(last + 1, Pan(r), block, Finish(req[r].msg.exp))
           new == Adding(r, last + 1, row)
           out == Tokenized(req[r].out, "card", last + 1)
           q == [req[r] EXCEPT !.pc = "commit", !.new = new, !.out = out]
<1>2. /\ Fields(req[r]) /\ Formed(req[r], last) /\ Tables /\ last \in Nat
      /\ req[r].pc \in {"fix", "card"} /\ req[r].msg.kind = "incoming"
      /\ Pan(r) # Error /\ req[r].msg.exp # NoExpiry
      /\ last < MaxToken /\ now \in Nat
  BY Of DEF TokenizeCard, AtCard, ValidCard, HasCard, Tables
<1>3. /\ Becomes(r, q) /\ last' = last + 1
      /\ UNCHANGED <<rows, given, removed, time>>
  BY <1>1 DEF TokenizeCard
<1>4. last + 1 \in Token /\ last + 1 # NoToken
  BY <1>2, NextIsNew
<1>5. Pan(r) \in Seq(Digit) /\ Pan(r) \in Seq(0 .. Space) \ {Empty}
  BY <1>2, ValidPan DEF Pan, Formed, Parameters
<1>6. req[r].msg.exp \in Nat /\ Finish(req[r].msg.exp) \in Nat
      /\ req[r].msg.exp <= Finish(req[r].msg.exp)
  <2>1. req[r].msg.exp \in Nat
    BY <1>2 DEF Formed, Parameters
  <2>2. Grace \in Nat
    BY ProxyAssumption DEF ProxyAssumption
  <2> QED
    BY <2>1, <2>2 DEF Finish
<1>7. /\ GoodRow(last + 1, row) /\ row.finish = Finish(req[r].msg.exp)
      /\ row.late = (row.finish < now) /\ Plain(last + 1, row.data) = Pan(r)
  BY <1>4, <1>5, <1>6, NewRowGood
<1> HIDE DEF row
<1>8. DOMAIN new \subseteq 1 .. last + 1 /\ \A t \in DOMAIN new : GoodRow(t, new[t])
  BY <1>2, <1>7, AddingFormed
<1>9. out = [req[r].out EXCEPT !.card = Empty, !.cardToken = last + 1]
  BY <1>2, TokenizedFields
<1> HIDE DEF new, out
<1>10. /\ out.cardToken = last + 1 /\ out.cvnToken = req[r].out.cvnToken
       /\ out.kind = req[r].out.kind
  BY <1>2, <1>9 DEF Fields
<1>11. /\ q.pc = "commit" /\ q.msg = req[r].msg /\ q.out = out /\ q.new = new
       /\ q.renewed = req[r].renewed /\ q.at = req[r].at /\ q.reply = req[r].reply
  BY <1>2 DEF Fields
<1> HIDE DEF q
<1>12. {q.msg.cardToken, q.msg.cvnToken, q.out.cardToken, q.out.cvnToken}
          \subseteq 0 .. last + 1
  <2>1. {q.msg.cardToken, q.msg.cvnToken, q.out.cvnToken} \subseteq 0 .. last
    BY <1>2, <1>10, <1>11 DEF Formed
  <2>2. 0 .. last \subseteq 0 .. last + 1 /\ last + 1 \in 0 .. last + 1
    BY <1>2
  <2> QED
    BY <1>10, <1>11, <2>1, <2>2
<1>13. Formed(q, last + 1)
  BY <1>2, <1>8, <1>10, <1>11, <1>12 DEF Formed, Pan
<1>14. req[r].at \in Nat /\ req[r].at <= now
  BY <1>2, Of, ProxyAssumption DEF Formed, ProxyAssumption
<1>15. ForCard(q, req[r], row)
  BY <1>6, <1>7, <1>10, <1>11 DEF ForCard, Pan
<1>16. row.late \/ row.finish >= req[r].at
  <2>1. row.finish \in Nat
    BY <1>6, <1>7
  <2>2. CASE row.finish < now
    BY <1>7, <2>2
  <2>3. CASE ~(row.finish < now)
    BY <1>2, <1>14, <2>1, <2>3
  <2> QED
    BY <2>2, <2>3
<1>17. Plain(last + 1, row.data) \in Seq(Digit)
  BY <1>7 DEF GoodRow
<1> QED
  BY <1>2, <1>3, <1>11, <1>13, <1>15, <1>16, <1>17, MakesToken DEF new

\* The tokens of a request are stored, and it goes on with them or is answered.
LEMMA StoresTokens ==
  ASSUME Inv, NEW r \in Request, NEW q, Becomes(r, q), rows' = WithNew(r),
         UNCHANGED <<last, given, removed, time>>, Formed(q, last), DOMAIN q.new = {},
         q.pc \in {"send", "reply"}, req[r].pc = "commit", q.msg.kind # "authorize",
         q.pc = "send" => q.at = req[r].at,
         q.msg.kind = "incoming" =>
           /\ q.msg = req[r].msg /\ q.out = req[r].out
           /\ q.renewed = req[r].renewed /\ q.at = req[r].at
  PROVE  After
<1> DEFINE D == DOMAIN req[r].new
<1>1. req'[r] = q /\ \A s \in Request : s # r => req'[s] = req[s]
  BY OneRequest DEF Inv
<1>2. last' = last /\ given' = given /\ removed' = removed /\ now' = now /\ idle' = idle
  BY DEF time
<1>3. /\ Formed(req[r], last) /\ Tables /\ D \subseteq Token /\ last \in Nat
      /\ \A s \in Request : Fresh(r, s) /\ Fresh(s, r) /\ Formed(req[s], last)
      /\ req[r].msg.kind = "incoming"
      /\ now <= req[r].at + 1
  BY Of DEF Formed
<1>4. /\ \A t \in D : rows'[t] = req[r].new[t] /\ GoodRow(t, req[r].new[t])
      /\ \A t \in Token : t \notin D => rows'[t] = rows[t]
      /\ rows' = [t \in Token |-> rows'[t]]
  BY <1>3 DEF WithNew, Formed
<1>5. /\ \A t \in D : Stored(t)'
      /\ \A t \in Token : t \notin D => Stored(t)' = Stored(t)
  <2>1. ASSUME NEW t \in D PROVE rows'[t] # NoRow
    <3>1. rows'[t].data # <<>>
      BY <1>4 DEF GoodRow
    <3>2. NoRow.data = <<>>
      BY DEF NoRow
    <3> QED
      BY <3>1, <3>2
  <2> QED
    BY <1>4, <2>1 DEF Stored
<1>6. /\ \A t \in Token : t \notin D =>
            \A exp, renewed : Held(t, exp, renewed)' = Held(t, exp, renewed)
      /\ \A t \in D : \A exp, renewed :
            exp <= req[r].new[t].finish => Held(t, exp, renewed)'
  BY <1>2, <1>4, <1>5 DEF Held
<1>7. WellFormed'
  <2>1. ASSUME NEW t \in Token, Stored(t)' PROVE t <= last' /\ GoodRow(t, rows'[t])
    <3>1. CASE t \in D
      <4>1. t \in 1 .. last
        BY <1>3, <3>1 DEF Formed
      <4> QED
        BY <1>2, <1>3, <1>4, <3>1, <4>1
    <3>2. CASE t \notin D
      BY <1>2, <1>3, <1>4, <1>5, <2>1, <3>2 DEF Tables
    <3> QED
      BY <3>1, <3>2
  <2>2. Tables'
    BY <1>2, <1>3, <1>4, <2>1 DEF Tables
  <2>3. \A s \in Request : Formed(req'[s], last')
    BY <1>1, <1>2, <1>3
  <2> QED
    BY <2>2, <2>3 DEF WellFormed
<1>8. Timely'
  BY <1>1, <1>2 DEF Inv, TimeInv, Timely
<1>9. Expiring'
  <2>1. Expiring
    BY DEF Inv, TimeInv
  <2>2. ASSUME NEW t \in Token, Stored(t)'
        PROVE  rows'[t].late \/ rows'[t].finish + idle' + 1 >= now'
    <3>1. CASE t \in D
      <4>1. rows'[t].late \/ rows'[t].finish >= req[r].at
        BY <1>4, <2>1, <3>1 DEF Expiring
      <4>2. rows'[t].finish \in Nat
        BY <1>4, <3>1 DEF GoodRow
      <4>3. req[r].at \in Nat /\ now \in Nat /\ idle \in Nat
        BY <1>3, ProxyAssumption DEF Formed, Tables, ProxyAssumption
      <4> QED
        BY <1>2, <1>3, <4>1, <4>2, <4>3
    <3>2. CASE t \notin D
      BY <1>2, <1>4, <1>5, <2>1, <2>2, <3>2 DEF Expiring
    <3> QED
      BY <3>1, <3>2
  <2>3. ASSUME NEW s \in Request, NEW t \in DOMAIN req'[s].new
        PROVE  req'[s].new[t].late \/ req'[s].new[t].finish >= req'[s].at
    BY <1>1, <2>1, <2>3 DEF Expiring
  <2> QED
    BY <2>2, <2>3 DEF Expiring
<1>10. ASSUME NEW a \in Request, NEW b \in Request PROVE Fresh(a, b)'
  <2> SUFFICES ASSUME NEW t \in DOMAIN req'[a].new
               PROVE  /\ ~Stored(t)' /\ given'[t] = NotGiven
                      /\ b # a => t \notin DOMAIN req'[b].new
                      /\ b # a /\ req'[b].msg.kind = "incoming" =>
                           t # req'[b].out.cardToken /\ t # req'[b].out.cvnToken
    BY DEF Fresh
  <2>1. a # r /\ t \in DOMAIN req[a].new /\ t \in Token
    <3>1. a # r
      BY <1>1
    <3> QED
      BY <1>1, <3>1, Of
  <2>2. Fresh(a, b) /\ Fresh(a, r)
    BY Of
  <2>3. t \notin D
    BY <2>1, <2>2 DEF Fresh
  <2>4. ~Stored(t)' /\ given'[t] = NotGiven
    BY <1>2, <1>5, <2>1, <2>2, <2>3 DEF Fresh
  <2>5. ASSUME b # a PROVE t \notin DOMAIN req'[b].new
    BY <1>1, <2>1, <2>2, <2>5 DEF Fresh
  <2>6. ASSUME b # a, req'[b].msg.kind = "incoming"
        PROVE  t # req'[b].out.cardToken /\ t # req'[b].out.cvnToken
    BY <1>1, <1>3, <2>1, <2>2, <2>6 DEF Fresh
  <2> QED
    BY <2>4, <2>5, <2>6
<1>11. ASSUME NEW s \in Request PROVE Promised(s)'
  <2>1. Promised(s)
    BY DEF Inv, TimeInv
  <2>2. CASE s # r
    <3> SUFFICES ASSUME req[s].msg.kind = "incoming" PROVE Promised(s)'
      BY <1>1, <2>2 DEF Promised
    <3>1. req'[s] = req[s]
      BY <1>1, <2>2
    <3>2. req[s].out.cardToken \notin D /\ req[s].out.cvnToken \notin D
      BY <1>3, <2>2 DEF Fresh
    <3> QED
      BY <1>6, <2>1, <3>1, <3>2 DEF Promised, Promise
  <2>3. CASE s = r
    <3> SUFFICES ASSUME q.msg.kind = "incoming" PROVE Promised(r)'
      BY <1>1, <2>3 DEF Promised
    <3>1. /\ q.msg = req[r].msg /\ q.out = req[r].out
          /\ q.renewed = req[r].renewed /\ q.at = req[r].at
      OBVIOUS
    <3>2. /\ Promise(r, req[r].out.cardToken, req[r].msg.exp, req[r].renewed)
          /\ Promise(r, req[r].out.cvnToken, req[r].at, FALSE)
      BY <1>3, <2>1, <2>3 DEF Promised
    <3>3. /\ Promise(r, req[r].out.cardToken, req[r].msg.exp, req[r].renewed)'
          /\ Promise(r, req[r].out.cvnToken, req[r].at, FALSE)'
      BY <1>1, <1>6, <3>1, <3>2 DEF Promise
    <3> QED
      BY <3>3 DEF Promised
  <2> QED
    BY <2>2, <2>3
<1>12. ASSUME NEW t \in Token PROVE Kept(t)'
  <2>1. Kept(t)
    BY DEF Inv, TimeInv
  <2>2. given[t] # NotGiven => t \notin D
    BY <1>3 DEF Fresh
  <2> QED
    BY <1>2, <1>6, <2>1, <2>2 DEF Kept
<1>13. TextInv'
  <2>1. PICK f \in [Token -> Seq(Digit)] : Texts(f)
    BY DEF Inv, TextInv
  <2>2. ASSUME NEW t \in Token PROVE RowText(f, t)' /\ GivenText(f, t)'
    <3>1. RowText(f, t) /\ GivenText(f, t) /\ RequestText(f, r)
      BY <2>1 DEF Texts
    <3>2. RowText(f, t)'
      <4>1. CASE t \in D
        BY <1>4, <3>1, <4>1 DEF RowText, RequestText
      <4>2. CASE t \notin D
        BY <1>4, <1>5, <3>1, <4>2 DEF RowText
      <4> QED
        BY <4>1, <4>2
    <3> QED
      BY <1>2, <3>1, <3>2 DEF GivenText
  <2>3. ASSUME NEW s \in Request PROVE RequestText(f, s)'
    <3>1. RequestText(f, s)
      BY <2>1 DEF Texts
    <3>2. CASE s # r
      BY <1>1, <3>1, <3>2 DEF RequestText
    <3>3. CASE s = r
      BY <1>1, <3>1, <3>3 DEF RequestText
    <3> QED
      BY <3>2, <3>3
  <2>4. Texts(f)'
    BY <2>2, <2>3 DEF Texts
  <2> QED
    BY <2>4 DEF TextInv
<1> QED
  BY <1>7, <1>8, <1>9, <1>10, <1>11, <1>12, <1>13 DEF After, TimeInv

LEMMA CommitAfter ==
  ASSUME Inv, NEW r \in Request, Commit(r)
  PROVE  After
<1> DEFINE q == [req[r] EXCEPT !.pc = "send", !.new = NoRequest.new]
<1>1. /\ Fields(req[r]) /\ Formed(req[r], last) /\ req[r].pc = "commit"
      /\ req[r].msg.kind = "incoming"
  BY Of DEF Commit, Formed
<1>2. Becomes(r, q) /\ rows' = WithNew(r) /\ UNCHANGED <<last, given, removed, time>>
  BY DEF Commit, ToSend
<1>3. /\ q.pc = "send" /\ q.msg = req[r].msg /\ q.out = req[r].out /\ q.new = NoRequest.new
      /\ q.renewed = req[r].renewed /\ q.at = req[r].at /\ q.reply = req[r].reply
  BY <1>1 DEF Fields
<1> HIDE DEF q
<1>4. DOMAIN q.new = {}
  BY <1>3, NoTokenIsNone
<1>5. Formed(q, last)
  BY <1>1, <1>3, <1>4 DEF Formed
<1> QED
  BY <1>1, <1>2, <1>3, <1>4, <1>5, StoresTokens

LEMMA CommitUnansweredAfter ==
  ASSUME Inv, NEW r \in Request, CommitUnanswered(r)
  PROVE  After
<1> DEFINE q == [NoRequest EXCEPT !.pc = "reply", !.answer = <<>>, !.reply = 500]
<1>1. /\ q.pc = "reply" /\ q.msg = NoMessage /\ q.out = NoMessage /\ q.new = NoRequest.new
      /\ q.renewed = FALSE /\ q.at = 0 /\ q.reply = 500
  BY DEF NoRequest
<1>2. /\ Becomes(r, q) /\ rows' = WithNew(r) /\ UNCHANGED <<last, given, removed, time>>
      /\ req[r].pc = "commit"
  BY DEF CommitUnanswered, Reply
<1> HIDE DEF q
<1>3. DOMAIN q.new = {} /\ q.msg.kind = "other"
  BY <1>1, NoTokenIsNone
<1>4. last \in Nat /\ 0 \in 0 .. MaxNow /\ 500 \in Code
  BY Of, ProxyAssumption DEF ProxyAssumption, Code
<1>5. Formed(q, last)
  BY <1>1, <1>4, Blank
<1> QED
  BY <1>1, <1>2, <1>3, <1>5, StoresTokens

\* What the upstream is told of a token is what has been promised of it.
LEMMA ForwardAfter ==
  ASSUME Inv, NEW r \in Request, Forward(r)
  PROVE  After
<1> DEFINE q == [NoRequest EXCEPT !.pc = "wait", !.at = req[r].at]
<1>1. /\ q.pc = "wait" /\ q.msg = NoMessage /\ q.out = NoMessage /\ q.new = NoRequest.new
      /\ q.renewed = FALSE /\ q.at = req[r].at /\ q.reply = NoCode
  BY DEF NoRequest
<1>2. Becomes(r, q) /\ req[r].pc = "send"
  BY DEF Forward
<1> HIDE DEF q
<1>3. rows' = rows /\ last' = last /\ removed' = removed /\ now' = now /\ idle' = idle
  BY DEF Forward, time
<1>4. /\ Formed(req[r], last) /\ Tables /\ last \in Nat /\ DOMAIN req[r].new = {}
      /\ \A s \in Request : Fresh(s, r) /\ Formed(req[s], last)
  BY <1>2, Of DEF Formed
<1>5. req'[r] = q /\ \A s \in Request : s # r => req'[s] = req[s]
  BY <1>2, OneRequest DEF Inv
<1>6. DOMAIN q.new = {} /\ q.msg.kind = "other"
  BY <1>1, NoTokenIsNone
<1>7. Formed(q, last)
  BY <1>1, <1>4, Blank DEF Formed
<1>8. /\ \A t \in Token : Stored(t)' = Stored(t)
      /\ \A t, exp, renewed : Held(t, exp, renewed)' = Held(t, exp, renewed)
  BY <1>3 DEF Stored, Held
<1>9. ASSUME NEW t \in Token
      PROVE  \/ given'[t] = given[t]
             \/ /\ req[r].msg.kind = "incoming" /\ t = req[r].out.cardToken
                /\ given'[t] = [text |-> Pan(r), exp |-> req[r].msg.exp,
                                renewed |-> req[r].renewed]
             \/ /\ req[r].msg.kind = "incoming" /\ t = req[r].out.cvnToken
                /\ given'[t] = [text |-> req[r].msg.cvn, exp |-> req[r].at,
                                renewed |-> FALSE]
  BY DEF Forward, Told
<1>10. given' = [t \in Token |-> given'[t]]
  BY <1>4 DEF Forward, Tables
<1>11. \A t \in Token : given'[t] # given[t] =>
          /\ req[r].msg.kind = "incoming"
          /\ t = req[r].out.cardToken \/ t = req[r].out.cvnToken
  BY <1>9
<1>12. WellFormed'
  <2>1. ASSUME NEW t \in Token, given'[t] # NotGiven PROVE t <= last
    <3>1. CASE given'[t] = given[t]
      BY <1>4, <2>1, <3>1 DEF Tables
    <3>2. CASE given'[t] # given[t]
      <4>1. t \in 0 .. last
        BY <1>2, <1>4, <1>11, <3>2 DEF Formed
      <4> QED
        BY <1>4, <4>1
    <3> QED
      BY <3>1, <3>2
  <2>2. Tables'
    BY <1>3, <1>4, <1>8, <1>10, <2>1 DEF Tables
  <2>3. \A s \in Request : Formed(req'[s], last')
    BY <1>3, <1>4, <1>5, <1>7
  <2> QED
    BY <2>2, <2>3 DEF WellFormed
<1>13. Timely'
  BY <1>1, <1>2, <1>3, <1>5 DEF Inv, TimeInv, Timely
<1>14. Expiring'
  <2>1. Expiring
    BY DEF Inv, TimeInv
  <2>2. \A t \in Token : Stored(t)' => rows'[t].late \/ rows'[t].finish + idle' + 1 >= now'
    BY <1>3, <1>8, <2>1 DEF Expiring
  <2>3. ASSUME NEW s \in Request, NEW t \in DOMAIN req'[s].new
        PROVE  req'[s].new[t].late \/ req'[s].new[t].finish >= req'[s].at
    BY <1>5, <1>6, <2>1, <2>3 DEF Expiring
  <2> QED
    BY <2>2, <2>3 DEF Expiring
<1>15. ASSUME NEW a \in Request, NEW b \in Request PROVE Fresh(a, b)'
  <2> SUFFICES ASSUME NEW t \in DOMAIN req'[a].new
               PROVE  /\ ~Stored(t)' /\ given'[t] = NotGiven
                      /\ b # a => t \notin DOMAIN req'[b].new
                      /\ b # a /\ req'[b].msg.kind = "incoming" =>
                           t # req'[b].out.cardToken /\ t # req'[b].out.cvnToken
    BY DEF Fresh
  <2>1. a # r /\ t \in DOMAIN req[a].new /\ t \in Token
    <3>1. a # r
      BY <1>5, <1>6
    <3> QED
      BY <1>5, <3>1, Of
  <2>2. Fresh(a, b) /\ Fresh(a, r)
    BY Of
  <2>3. ~Stored(t)' /\ given'[t] = NotGiven
    BY <1>8, <1>11, <2>1, <2>2 DEF Fresh
  <2>4. ASSUME b # a PROVE t \notin DOMAIN req'[b].new
    BY <1>5, <1>6, <2>1, <2>2, <2>4 DEF Fresh
  <2>5. ASSUME b # a, req'[b].msg.kind = "incoming"
        PROVE  t # req'[b].out.cardToken /\ t # req'[b].out.cvnToken
    BY <1>5, <1>6, <2>1, <2>2, <2>5 DEF Fresh
  <2> QED
    BY <2>3, <2>4, <2>5
<1>16. ASSUME NEW s \in Request PROVE Promised(s)'
  <2>1. Promised(s)
    BY DEF Inv, TimeInv
  <2>2. CASE s # r
    BY <1>5, <1>8, <2>1, <2>2 DEF Promised, Promise
  <2>3. CASE s = r
    BY <1>5, <1>6, <2>3 DEF Promised
  <2> QED
    BY <2>2, <2>3
<1>17. ASSUME NEW t \in Token PROVE Kept(t)'
  <2>1. Kept(t) /\ Promised(r)
    BY DEF Inv, TimeInv
  <2>2. CASE given'[t] = given[t]
    BY <1>8, <2>1, <2>2 DEF Kept
  <2>3. ASSUME req[r].msg.kind = "incoming", t = req[r].out.cardToken,
               given'[t] = [text |-> Pan(r), exp |-> req[r].msg.exp,
                            renewed |-> req[r].renewed]
        PROVE  Kept(t)'
    <3>1. Held(t, req[r].msg.exp, req[r].renewed)
      BY <1>4, <2>1, <2>3 DEF Promised, Promise
    <3>2. req[r].msg.exp \in Int /\ req[r].renewed \in BOOLEAN
      BY <1>4 DEF Formed, Parameters, NoExpiry
    <3>3. given'[t].exp = req[r].msg.exp /\ given'[t].renewed = req[r].renewed
      BY <2>3
    <3> QED
      BY <1>3, <1>8, <3>1, <3>2, <3>3 DEF Kept, Held
  <2>4. ASSUME req[r].msg.kind = "incoming", t = req[r].out.cvnToken,
               given'[t] = [text |-> req[r].msg.cvn, exp |-> req[r].at, renewed |-> FALSE]
        PROVE  Kept(t)'
    <3>1. Held(t, req[r].at, FALSE)
      BY <1>4, <2>1, <2>4 DEF Promised, Promise
    <3>2. req[r].at \in Int
      BY <1>4 DEF Formed
    <3>3. given'[t].exp = req[r].at /\ given'[t].renewed = FALSE
      BY <2>4
    <3> QED
      BY <1>3, <1>8, <3>1, <3>2, <3>3 DEF Kept, Held
  <2> QED
    BY <1>9, <2>2, <2>3, <2>4
<1>18. TextInv'
  <2>1. PICK f \in [Token -> Seq(Digit)] : Texts(f)
    BY DEF Inv, TextInv
  <2>2. ASSUME NEW t \in Token PROVE RowText(f, t)' /\ GivenText(f, t)'
    <3>1. RowText(f, t) /\ GivenText(f, t) /\ RequestText(f, r)
      BY <2>1 DEF Texts
    <3>2. RowText(f, t)'
      BY <1>3, <1>8, <3>1 DEF RowText
    <3>3. t # NoToken
      BY NoTokenIsNone
    <3>4. GivenText(f, t)'
      <4>1. CASE given'[t] = given[t]
        BY <3>1, <4>1 DEF GivenText
      <4>2. CASE /\ req[r].msg.kind = "incoming" /\ t = req[r].out.cardToken
                 /\ given'[t].text = NormalizePan(req[r].msg.card)
        BY <3>1, <3>3, <4>2 DEF GivenText, RequestText
      <4>3. CASE /\ req[r].msg.kind = "incoming" /\ t = req[r].out.cvnToken
                 /\ given'[t].text = req[r].msg.cvn
        BY <3>1, <3>3, <4>3 DEF GivenText, RequestText
      <4> QED
        BY <1>9, <4>1, <4>2, <4>3 DEF Pan
    <3> QED
      BY <3>2, <3>4
  <2>3. ASSUME NEW s \in Request PROVE RequestText(f, s)'
    <3>1. RequestText(f, s)
      BY <2>1 DEF Texts
    <3>2. CASE s # r
      BY <1>5, <3>1, <3>2 DEF RequestText
    <3>3. CASE s = r
      BY <1>5, <1>6, <3>3 DEF RequestText
    <3> QED
      BY <3>2, <3>3
  <2>4. Texts(f)'
    BY <2>2, <2>3 DEF Texts
  <2> QED
    BY <2>4 DEF TextInv
<1> QED
  BY <1>12, <1>13, <1>14, <1>15, <1>16, <1>17, <1>18 DEF After, TimeInv

\* Rows go, or time passes.
LEMMA TablesStep ==
  ASSUME Inv, UNCHANGED <<req, given, last>>,
         rows' = [t \in Token |-> rows'[t]],
         \A t \in Token : rows'[t] = rows[t] \/ rows'[t] = NoRow,
         removed' \subseteq 1 .. last, now' \in 0 .. MaxNow, idle' \in 0 .. Window - 1,
         Timely',
         \A t \in Token : Stored(t)' => rows'[t].late \/ rows'[t].finish + idle' + 1 >= now',
         \A t \in Token, exp \in Int, renewed \in BOOLEAN :
            Held(t, exp, renewed) => Held(t, exp, renewed)'
  PROVE  After
<1>1. Tables /\ \A s \in Request : Formed(req[s], last)
  BY DEF Inv, WellFormed
<1>2. \A t \in Token : Stored(t)' => Stored(t) /\ rows'[t] = rows[t]
  BY DEF Stored
<1>3. WellFormed'
  <2>1. Tables'
    BY <1>1, <1>2 DEF Tables
  <2> QED
    BY <1>1, <2>1 DEF WellFormed
<1>4. Expiring'
  BY DEF Inv, TimeInv, Expiring
<1>5. ASSUME NEW a \in Request, NEW b \in Request PROVE Fresh(a, b)'
  <2>1. Fresh(a, b) /\ DOMAIN req[a].new \subseteq Token
    BY Of
  <2> QED
    BY <1>2, <2>1 DEF Fresh
<1>6. ASSUME NEW s \in Request PROVE Promised(s)'
  <2>1. Promised(s) /\ Formed(req[s], last)
    BY Of
  <2>2. req[s].msg.exp \in Int /\ req[s].at \in Int /\ req[s].renewed \in BOOLEAN
    BY <2>1 DEF Formed, Parameters, NoExpiry
  <2> QED
    BY <2>1, <2>2 DEF Promised, Promise
<1>7. \A t \in Token : Kept(t)'
  BY DEF Inv, TimeInv, Kept
<1>8. TextInv'
  <2>1. PICK f \in [Token -> Seq(Digit)] : Texts(f)
    BY DEF Inv, TextInv
  <2>2. Texts(f)'
    BY <1>2, <2>1 DEF Texts, RowText, GivenText, RequestText
  <2> QED
    BY <2>2 DEF TextInv
<1> QED
  BY <1>3, <1>4, <1>5, <1>6, <1>7, <1>8 DEF After, TimeInv

LEMMA RemoveCardAfter ==
  ASSUME Inv, NEW t \in Token, RemoveCard(t)
  PROVE  After
<1>1. Tables
  BY DEF Inv, WellFormed
<1>2. /\ rows' = [u \in Token |-> rows'[u]]
      /\ \A u \in Token : rows'[u] = IF u = t THEN NoRow ELSE rows[u]
  BY <1>1 DEF RemoveCard, Tables
<1>3. removed' = removed \cup {t} /\ now' = now /\ idle' = idle
      /\ UNCHANGED <<req, given, last>>
  BY DEF RemoveCard, time
<1>4. removed' \subseteq 1 .. last
  BY <1>1, <1>3 DEF RemoveCard, Tables, Token
<1>5. Timely'
  BY <1>3 DEF Inv, TimeInv, Timely
<1>6. \A u \in Token : Stored(u)' => rows'[u].late \/ rows'[u].finish + idle' + 1 >= now'
  BY <1>2, <1>3 DEF Inv, TimeInv, Expiring, Stored
<1>7. \A u \in Token, exp \in Int, renewed \in BOOLEAN :
         Held(u, exp, renewed) => Held(u, exp, renewed)'
  BY <1>2, <1>3 DEF Held, Stored
<1> QED
  BY <1>1, <1>2, <1>3, <1>4, <1>5, <1>6, <1>7, TablesStep DEF Tables

\* The cleaner takes rows that have expired, and comes in time for all the others.
LEMMA CleanAfter ==
  ASSUME Inv, Clean
  PROVE  After
<1>1. Tables /\ now \in Nat /\ idle \in Nat /\ Window \in Nat /\ idle <= Window - 1
      /\ 0 \in 0 .. Window - 1
  BY ProxyAssumption DEF ProxyAssumption, Inv, WellFormed, Tables
<1>2. /\ rows' = [t \in Token |-> rows'[t]]
      /\ \A t \in Token : rows'[t] = IF Stale(t) THEN NoRow ELSE rows[t]
      /\ idle' = 0 /\ removed' = removed /\ now' = now /\ UNCHANGED <<req, given, last>>
  BY DEF Clean
<1>3. Timely'
  BY <1>2 DEF Inv, TimeInv, Timely
<1>4. \A t \in Token : Stored(t) => rows[t].finish \in Nat
  BY <1>1 DEF Tables, GoodRow
<1>5. ASSUME NEW t \in Token, Stored(t)'
      PROVE  rows'[t].late \/ rows'[t].finish + idle' + 1 >= now'
  <2>1. Stored(t) /\ ~Stale(t) /\ rows'[t] = rows[t] /\ rows[t].finish \in Nat
    BY <1>2, <1>4, <1>5 DEF Stored
  <2>2. rows[t].late \/ rows[t].finish + idle + 1 >= now
    BY <2>1 DEF Inv, TimeInv, Expiring
  <2>3. ~(now - Window <= rows[t].finish /\ rows[t].finish < now)
    BY <2>1 DEF Stale
  <2> QED
    BY <1>1, <1>2, <2>1, <2>2, <2>3
<1>6. ASSUME NEW t \in Token, NEW exp \in Int, NEW renewed \in BOOLEAN,
             Held(t, exp, renewed)
      PROVE  Held(t, exp, renewed)'
  <2>1. CASE Stored(t) /\ Stale(t)
    <3>1. ~Stored(t)'
      BY <1>2, <2>1 DEF Stored
    <3>2. rows[t].finish \in Nat /\ rows[t].finish < now
      BY <1>4, <2>1 DEF Stale
    <3>3. exp < now \/ renewed
      BY <1>1, <1>6, <2>1, <3>2 DEF Held
    <3> QED
      BY <1>2, <3>1, <3>3 DEF Held
  <2>2. CASE ~(Stored(t) /\ Stale(t))
    <3>1. rows'[t] = rows[t]
      BY <1>2, <2>2 DEF Stale
    <3> QED
      BY <1>2, <1>6, <3>1 DEF Held, Stored
  <2> QED
    BY <2>1, <2>2
<1> QED
  BY <1>1, <1>2, <1>3, <1>5, <1>6, TablesStep DEF Tables

LEMMA TickAfter ==
  ASSUME Inv, Tick
  PROVE  After
<1>1. Tables /\ now \in Nat /\ idle \in Nat /\ Window \in Nat /\ MaxNow \in Nat
  BY ProxyAssumption DEF ProxyAssumption, Inv, WellFormed, Tables
<1>2. /\ rows' = rows /\ req' = req /\ given' = given /\ last' = last /\ removed' = removed
      /\ now' = now + 1 /\ idle' = idle + 1
  BY DEF Tick
<1>3. now' \in 0 .. MaxNow /\ idle' \in 0 .. Window - 1
  BY <1>1, <1>2 DEF Tick
<1>4. Timely'
  <2> SUFFICES ASSUME NEW r \in Request, req[r].pc \notin {"idle", "reply"}
               PROVE  req[r].at <= now + 1 /\ now + 1 <= req[r].at + 1
    BY <1>2 DEF Timely
  <2>1. req[r].at = now
    BY DEF Tick
  <2> QED
    BY <1>1, <2>1
<1>5. ASSUME NEW t \in Token, Stored(t)'
      PROVE  rows'[t].late \/ rows'[t].finish + idle' + 1 >= now'
  <2>1. Stored(t) /\ rows[t].finish \in Nat
    BY <1>1, <1>2, <1>5 DEF Stored, Tables, GoodRow
  <2>2. rows[t].late \/ rows[t].finish + idle + 1 >= now
    BY <2>1 DEF Inv, TimeInv, Expiring
  <2> QED
    BY <1>1, <1>2, <2>1, <2>2
<1>6. ASSUME NEW t \in Token, NEW exp \in Int, NEW renewed \in BOOLEAN,
             Held(t, exp, renewed)
      PROVE  Held(t, exp, renewed)'
  BY <1>1, <1>2, <1>6 DEF Held, Stored
<1>7. rows' = [t \in Token |-> rows'[t]] /\ removed' \subseteq 1 .. last
  BY <1>1, <1>2 DEF Tables
<1> QED
  BY <1>2, <1>3, <1>4, <1>5, <1>6, <1>7, TablesStep

-----------------------------------------------------------------------------

LEMMA BeginNextAfter ==
  ASSUME Inv, NEW r \in Request, ClientNext(r)
  PROVE  After
<1>1. ASSUME NEW m \in Message, Begin(r, m) PROVE After
  <2>1. /\ m \in [kind : {"incoming", "other"}, card : Seq(0 .. Space), cvn : Seq(0 .. Space),
                  exp : Nat \cup {NoExpiry}, cardToken : {NoToken}, cvnToken : {NoToken}]
    BY ProxyAssumption DEF ProxyAssumption
  <2>2. m \in Parameters /\ m.cardToken = NoToken /\ m.cvnToken = NoToken
    BY <2>1 DEF Parameters, Kind
  <2> QED
    BY <1>1, <2>2, BeginAfter
<1>2. ASSUME NEW t \in Token \cup {NoToken}, NEW u \in Token \cup {NoToken},
             Begin(r, Authorize(t, u))
      PROVE  After
  <2>1. Empty \in Seq(0 .. Space) /\ "authorize" \in Kind
    BY DEF Empty, Kind
  <2>2. Authorize(t, u).kind = "authorize"
    BY DEF Authorize, NoMessage
  <2>3. Authorize(t, u) \in Parameters
    BY <2>1 DEF Authorize, NoMessage, Parameters
  <2> QED
    BY <1>2, <2>2, <2>3, BeginAfter
<1> QED
  BY <1>1, <1>2 DEF ClientNext

\* The status is 0, or that of one of the lines.
LEMMA StatusIs ==
  ASSUME NEW answer \in Answer
  PROVE  /\ Status(answer) \in Code \cup {NoCode}
         /\ Status(answer) # NoCode =>
              Status(answer) = IF Last(answer).named THEN Last(answer).code ELSE 100
<1> DEFINE n == Len(answer)
           Line == [code : Code, named : BOOLEAN]
<1>1. /\ answer \in Seq(Line) /\ answer # <<>>
      /\ \A i \in 1 .. Len(answer) - 1 : answer[i].code = 100
  BY ProxyAssumption DEF ProxyAssumption
<1> HIDE DEF Line
<1>2. /\ n \in Nat /\ n > 0 /\ DOMAIN answer = 1 .. n
      /\ \A i \in 1 .. n : answer[i] \in Line
      /\ \A i \in 1 .. n - 1 : answer[i].code = 100
      /\ Last(answer) = answer[n]
  <2>1. Last(answer) = answer[n]
    BY DEF Last
  <2>2. n \in Nat /\ n > 0
    BY <1>1
  <2>3. /\ DOMAIN answer = 1 .. n
        /\ \A i \in 1 .. n : answer[i] \in Line
    BY <1>1
  <2> QED
    BY <1>1, <2>1, <2>2, <2>3
<1> HIDE DEF n
<1>3. CASE Named(answer) = {}
  BY <1>3 DEF Status
<1>4. CASE Named(answer) # {}
  <2> DEFINE S == {i \in Nat : i <= n /\ n - i \in Named(answer)}
  <2>1. S \in SUBSET Nat /\ S # {}
    <3>1. PICK i \in Named(answer) : TRUE
      BY <1>4
    <3>2. i \in 1 .. n
      BY <1>2, <3>1 DEF Named
    <3>3. n - i \in S
      BY <1>2, <3>2
    <3> QED
      BY <3>3
  <2>2. PICK m \in S : \A k \in S : m <= k
    BY <2>1, HasLeast
  <2>3. \A j \in Named(answer) : j <= n - m
    <3> TAKE j \in Named(answer)
    <3>1. j \in 1 .. n
      BY <1>2 DEF Named
    <3>2. n - j \in S
      BY <1>2, <3>1
    <3>3. m <= n - j
      BY <2>2, <3>2
    <3>4. m \in Nat /\ j \in Nat
      BY <2>1, <3>1
    <3> QED
      BY <1>2, <3>3, <3>4
  <2>4. n - m \in Named(answer)
    BY <2>2
  <2> DEFINE l == CHOOSE i \in Named(answer) : \A j \in Named(answer) : j <= i
  <2>5. l \in Named(answer) /\ \A j \in Named(answer) : j <= l
    BY <2>3, <2>4
  <2>6. Status(answer) = answer[l].code
    BY <1>4 DEF Status
  <2> HIDE DEF l
  <2>7. l \in 1 .. n /\ answer[l].named /\ answer[l].code \in Code
    BY <1>2, <2>5 DEF Named, Line
  <2>8. CASE l = n
    BY <1>2, <2>6, <2>7, <2>8
  <2>9. CASE l # n
    <3>1. answer[l].code = 100
      <4>1. l \in 1 .. n - 1
        BY <1>2, <2>7, <2>9
      <4> QED
        BY <1>2, <4>1
    <3>2. n \notin Named(answer)
      BY <1>2, <2>5, <2>7, <2>9
    <3>3. ~Last(answer).named
      BY <1>2, <3>2 DEF Named
    <3> QED
      BY <2>6, <2>7, <3>1, <3>3
  <2> QED
    BY <2>8, <2>9
<1> QED
  BY <1>3, <1>4

LEMMA RequestAfter ==
  ASSUME Inv, NEW r \in Request, RequestNext(r)
  PROVE  After
<1> 500 \in Code
  BY DEF Code
<1>1. CASE Fails(r)
  BY <1>1, ReplyAfter DEF Fails
<1>2. ASSUME NEW answer \in Answer, Completes(r, answer)
      PROVE  After
  <2> DEFINE code == IF Status(answer) = NoCode THEN 500 ELSE Status(answer)
  <2>1. code \in Code /\ (code # 500 => code = Status(answer) /\ code # NoCode)
    BY StatusIs
  <2>2. Reply(r, answer, code) /\ UNCHANGED <<rows, last, given, removed, time>>
    BY <1>2 DEF Completes
  <2> HIDE DEF code
  <2> QED
    BY <2>1, <2>2, ReplyAfter
<1>3. ASSUME NEW answer \in Answer, TransferFails(r, answer)
      PROVE  After
  BY <1>3, ReplyAfter DEF TransferFails
<1> QED
  BY <1>1, <1>2, <1>3, PassOnAfter, TokenizeCvnAfter, FoundCardAfter, TokenizeCardAfter,
     CommitAfter, CommitUnansweredAfter, ExpandAfter, ForwardAfter, SendReplyAfter
     DEF RequestNext

LEMMA InvInit == Init => Inv
<1> SUFFICES ASSUME Init PROVE Inv
  OBVIOUS
<1>1. /\ \A t \in Token : rows[t] = NoRow /\ given[t] = NotGiven
      /\ \A r \in Request : req[r] = NoRequest
      /\ rows = [t \in Token |-> rows[t]] /\ given = [t \in Token |-> given[t]]
      /\ last = 0 /\ removed = {} /\ now = 0 /\ idle = 0
  BY DEF Init
<1>2. /\ NoRequest.pc = "idle" /\ NoRequest.msg = NoMessage /\ NoRequest.out = NoMessage
      /\ NoRequest.renewed = FALSE /\ NoRequest.at = 0 /\ NoRequest.reply = NoCode
  BY DEF NoRequest
<1>3. 0 \in 0 .. MaxNow /\ 0 \in 0 .. MaxToken /\ 0 \in 0 .. Window - 1
  BY ProxyAssumption DEF ProxyAssumption
<1>4. WellFormed
  <2>1. Tables
    BY <1>1, <1>3 DEF Tables, Stored
  <2>2. Formed(NoRequest, 0)
    <3>1. 0 \in Nat /\ NoRequest.pc \in {"idle", "wait", "reply"}
          /\ NoRequest.pc # "reply" /\ NoRequest.at \in 0 .. MaxNow
          /\ NoRequest.reply \in Code \cup {NoCode}
      BY <1>2, <1>3
    <3> QED
      BY <1>2, <3>1, Blank
  <2> QED
    BY <1>1, <2>1, <2>2 DEF WellFormed
<1>5. DOMAIN NoRequest.new = {} /\ NoRequest.msg.kind = "other"
  BY <1>2, NoTokenIsNone
<1>6. TimeInv
  <2>1. Timely /\ Expiring
    BY <1>1, <1>2, <1>5 DEF Timely, Expiring, Stored
  <2>2. \A r, s \in Request : Fresh(r, s)
    BY <1>1, <1>5 DEF Fresh
  <2>3. \A r \in Request : Promised(r)
    BY <1>1, <1>5 DEF Promised
  <2>4. \A t \in Token : Kept(t)
    BY <1>1 DEF Kept
  <2> QED
    BY <2>1, <2>2, <2>3, <2>4 DEF TimeInv
<1>7. TextInv
  <2> DEFINE f == [t \in Token |-> <<>>]
  <2>1. f \in [Token -> Seq(Digit)]
    OBVIOUS
  <2> HIDE DEF f
  <2>2. \A t \in Token : RowText(f, t) /\ GivenText(f, t)
    BY <1>1 DEF RowText, GivenText, Stored, NotGiven, Empty
  <2>3. \A r \in Request : RequestText(f, r)
    BY <1>1, <1>5 DEF RequestText
  <2> QED
    BY <2>1, <2>2, <2>3 DEF TextInv, Texts
<1> QED
  BY <1>4, <1>6, <1>7, InitInv DEF Inv

LEMMA InvNext == Inv /\ [Next]_vars => Inv'
<1> SUFFICES ASSUME Inv, [Next]_vars PROVE Inv'
  OBVIOUS
<1>1. ProxyInv'
  BY NextInv DEF Inv
<1>2. CASE UNCHANGED vars
  <2>1. /\ rows' = rows /\ req' = req /\ given' = given /\ last' = last
        /\ removed' = removed /\ now' = now /\ idle' = idle
    BY <1>2 DEF vars
  <2>2. Tables /\ Timely /\ Expiring
    BY DEF Inv, WellFormed, TimeInv
  <2>3. Timely' /\ Expiring'
    BY <2>1, <2>2 DEF Timely, Expiring, Stored
  <2> QED
    BY <1>1, <2>1, <2>2, <2>3, TablesStep DEF Tables, Expiring, Held, Stored, After, Inv
<1>3. CASE Next
  <2>1. After
    BY <1>3, BeginNextAfter, RequestAfter, RemoveCardAfter, CleanAfter, TickAfter DEF Next
  <2> QED
    BY <1>1, <2>1 DEF Inv, After
<1> QED
  BY <1>2, <1>3

LEMMA Invariance == Spec => []Inv
  BY InvInit, InvNext, PTL DEF Spec

\* The state is well typed, and what is stored is well-formed BASE64, for texts and
\* blocks of any length.
THEOREM TypeCorrect == Spec => []TypeOK
<1>1. Inv => TypeOK
  <2> SUFFICES ASSUME Inv PROVE TypeOK
    OBVIOUS
  <2>1. Tables /\ Window \in Nat /\ MaxToken \in Nat
    BY ProxyAssumption DEF Inv, WellFormed, ProxyAssumption
  <2>2. CheckBase64(NoRow.data) /\ NoRow.finish \in Nat /\ NoRow.late \in BOOLEAN
    BY DEF NoRow, CheckBase64, Ran
  <2>3. ASSUME NEW t \in Token
        PROVE  /\ CheckBase64(rows[t].data)
               /\ rows[t].finish \in Nat /\ rows[t].late \in BOOLEAN
               /\ Stored(t) \/ given[t] # NotGiven \/ t \in removed => t <= last
    <3>1. CheckBase64(rows[t].data) /\ rows[t].finish \in Nat /\ rows[t].late \in BOOLEAN
      BY <2>1, <2>2 DEF Tables, GoodRow, Stored
    <3>2. Stored(t) \/ given[t] # NotGiven \/ t \in removed => t <= last
      BY <2>1 DEF Tables
    <3> QED
      BY <3>1, <3>2
  <2>4. ASSUME NEW r \in Request
        PROVE  /\ req[r].pc \in {"idle", "fix", "card", "commit", "send", "wait", "reply"}
               /\ req[r].msg.kind \in Kind /\ req[r].out.kind = req[r].msg.kind
               /\ DOMAIN req[r].new \subseteq 1 .. last
               /\ req[r].reply \in Code \cup {NoCode}
    BY Of DEF Formed, Parameters
  <2>5. removed \subseteq Token
    BY <2>1 DEF Tables, Token
  <2>6. last \in 0 .. MaxToken /\ now \in 0 .. MaxNow /\ idle \in 0 .. Window
    BY <2>1 DEF Tables
  <2> QED
    BY <2>3, <2>4, <2>5, <2>6 DEF TypeOK
<1> QED
  BY <1>1, Invariance, PTL

\* A token that the upstream was given stays until the card expires, however requests,
\* the cleaner, removals and lost commits follow each other: it was promised when its
\* row was found or committed, and every step since has kept the promise.
THEOREM TokensKept == Spec => []KeptUntilExpiry
<1>1. Inv => KeptUntilExpiry
  BY DEF Inv, TimeInv, Kept, Held, KeptUntilExpiry
<1> QED
  BY <1>1, Invariance, PTL

\* A token expands to the card number or the CVN it was made for, whichever requests
\* made, found, removed and used it meanwhile: all that is known of it is one text.
THEOREM TokensExpand == Spec => []ExpandsToOriginal
<1>1. Inv => ExpandsToOriginal
  <2> SUFFICES ASSUME Inv, NEW r \in Request, req[r].pc = "send", HasTokens(r)
               PROVE  /\ req[r].out.card \in Seq(Digit) \ {Empty}
                      /\ Original(req[r].msg.cardToken, req[r].out.card)
                      /\ req[r].msg.cvnToken # NoToken =>
                           Original(req[r].msg.cvnToken, req[r].out.cvn)
    BY DEF ExpandsToOriginal
  <2>1. Formed(req[r], last)
    BY Of
  <2>2. /\ req[r].msg.kind = "authorize" /\ req[r].msg.cardToken # NoToken
        /\ req[r].out.card \in Seq(Digit) \ {Empty}
    BY <2>1 DEF Formed, HasTokens
  <2>3. /\ req[r].msg.cardToken \in Token
        /\ req[r].msg.cvnToken # NoToken => req[r].msg.cvnToken \in Token
    BY <2>1, <2>2 DEF Formed, Parameters
  <2>4. PICK f \in [Token -> Seq(Digit)] : Texts(f)
    BY DEF Inv, TextInv
  <2>5. RequestText(f, r) /\ \A t \in Token : GivenText(f, t)
    BY <2>4 DEF Texts
  <2> QED
    BY <2>2, <2>3, <2>5 DEF RequestText, GivenText, Original
<1> QED
  BY <1>1, Invariance, PTL

\* A client is told a result only if the upstream has completed its answer, and then
\* the status of the last line that the parser takes for one.
THEOREM AnswersTrue == Spec => []AnswerIsUpstreams
<1>1. Inv => AnswerIsUpstreams
  <2> SUFFICES ASSUME Inv, NEW r \in Request, req[r].pc = "reply", req[r].reply # 500
               PROVE  LET answer == req[r].answer
                      IN  /\ answer # <<>>
                          /\ IF Last(answer).named THEN req[r].reply = Last(answer).code
                             ELSE req[r].reply = 100
    BY DEF AnswerIsUpstreams
  <2>1. /\ req[r].answer \in Answer /\ req[r].reply = Status(req[r].answer)
        /\ req[r].reply # NoCode
    BY Of DEF Formed
  <2>2. req[r].answer # <<>>
    BY <2>1, ProxyAssumption DEF ProxyAssumption
  <2> QED
    BY <2>1, <2>2, StatusIs
<1> QED
  BY <1>1, Invariance, PTL

\* No row outlives its date by more than the window of the cleaner, unless it was stale
\* when it was made, however long the requests, and whenever the cleaner runs.
THEOREM StaleGo == Spec => []StaleAreCleaned
<1>1. Inv => StaleAreCleaned
  <2> SUFFICES ASSUME Inv, NEW t \in Token, Stored(t), rows[t].finish + Window < now
               PROVE  rows[t].late
    BY DEF StaleAreCleaned
  <2>1. rows[t].late \/ rows[t].finish + idle + 1 >= now
    BY DEF Inv, TimeInv, Expiring
  <2>2. rows[t].finish \in Nat /\ idle \in Nat /\ Window \in Nat /\ idle <= Window - 1
        /\ now \in Nat
    BY ProxyAssumption DEF ProxyAssumption, Inv, WellFormed, Tables, GoodRow
  <2> QED
    BY <2>1, <2>2
<1> QED
  BY <1>1, Invariance, PTL

=============================================================================
