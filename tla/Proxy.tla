-------------------------------- MODULE Proxy --------------------------------
(***************************************************************************)
(* The proxy methods of the tokenizer servant (tokenizer/).  An incoming   *)
(* request with card data goes to the upstream with tokens in their place; *)
(* an outgoing one with tokens goes to the gateway with the card data.     *)
(* The wrapper of the servant never restarts them.  The cleaner and        *)
(* remove_card take tokens away.                                           *)
(*                                                                         *)
(* One tick of the clock is longer than a request, and than the life of a  *)
(* CVN token.                                                              *)
(***************************************************************************)
EXTENDS Codecs, FiniteSets, SequencesExt

CONSTANTS
  Request,      \* concurrent requests
  Message,      \* the requests with card data, and those without tokens
  Answer,       \* what upstreams answer: sequences of status lines
  FakePan,      \* the card numbers of is_fake_card
  IsProd,       \* is_prod()
  MinHashed,    \* 10: shorter texts get a random digest
  Grace,        \* 100 days, and the rest of the month, in ticks
  Window,       \* 10 days, in ticks
  MaxToken,     \* bound: the tokens that are made
  MaxNow        \* bound: the last tick

Token == 1 .. MaxToken
NoToken == 0
Empty == <<>>    \* a parameter that is missing
NoExpiry == -1   \* expiration_year or _month is missing or no number
Kind == {"incoming", "authorize", "other"}
Code == {100, 200, 402, 500}
NoCode == 0

ASSUME ProxyAssumption ==
  /\ IsProd \in BOOLEAN
  /\ MinHashed \in 1 .. PanMin
  /\ Grace \in Nat /\ Window \in Nat \ {0, 1}
  /\ MaxToken \in Nat /\ MaxNow \in Nat
  /\ Message \subseteq
       [kind : {"incoming", "other"}, card : Seq(0 .. Space), cvn : Seq(0 .. Space),
        exp : Nat \cup {NoExpiry}, cardToken : {NoToken}, cvnToken : {NoToken}]
  /\ Answer \subseteq Seq([code : Code, named : BOOLEAN])  \* has it a reason phrase?
  /\ \A a \in Answer : a # <<>> /\ \A i \in 1 .. Len(a) - 1 : a[i].code = 100

VARIABLES
  rows,      \* t_data_token, committed; late: stale already when it was made
  last,      \* how many tokens have been made
  req,       \* the requests: what came, what goes on, and what comes back
  given,     \* what the upstream knows of each token it was given
  removed,   \* tokens that clients have removed
  now,       \* the clock
  idle       \* ticks since the cleaner ran

time == <<now, idle>>
vars == <<rows, last, req, given, removed, now, idle>>

NoRow == [data |-> <<>>, digest |-> <<>>, finish |-> 0, late |-> FALSE]
NotGiven == [text |-> <<>>, exp |-> 0, renewed |-> FALSE]
NoMessage == [kind |-> "other", card |-> Empty, cvn |-> Empty, exp |-> NoExpiry,
              cardToken |-> NoToken, cvnToken |-> NoToken]
NoRequest == [pc |-> "idle", msg |-> NoMessage, out |-> NoMessage, at |-> 0,
              new |-> [t \in {} |-> NoRow], renewed |-> FALSE,
              answer |-> <<>>, reply |-> NoCode]

Stored(t) == rows[t] # NoRow

\* The state is well typed; only tokens that were made are stored, given or removed.
TypeOK ==
  /\ last \in 0 .. MaxToken
  /\ \A t \in Token :
        /\ CheckBase64(rows[t].data)
        /\ rows[t].finish \in Nat /\ rows[t].late \in BOOLEAN
        /\ Stored(t) \/ given[t] # NotGiven \/ t \in removed => t <= last
  /\ \A r \in Request :
        /\ req[r].pc \in {"idle", "fix", "card", "commit", "send", "wait", "reply"}
        /\ req[r].msg.kind \in Kind /\ req[r].out.kind = req[r].msg.kind
        /\ DOMAIN req[r].new \subseteq 1 .. last
        /\ req[r].reply \in Code \cup {NoCode}
  /\ removed \subseteq Token
  /\ now \in 0 .. MaxNow /\ idle \in 0 .. Window

Init ==
  /\ rows = [t \in Token |-> NoRow]
  /\ last = 0
  /\ req = [r \in Request |-> NoRequest]
  /\ given = [t \in Token |-> NotGiven]
  /\ removed = {}
  /\ now = 0
  /\ idle = 0

-----------------------------------------------------------------------------
(* Requests.                                                               *)

Becomes(r, q) == req' = [req EXCEPT ![r] = q]
Goto(r, label) == Becomes(r, [req[r] EXCEPT !.pc = label])
Reply(r, answer, code) ==
  Becomes(r, [NoRequest EXCEPT !.pc = "reply", !.answer = answer, !.reply = code])
ToSend(r) == Becomes(r, [req[r] EXCEPT !.pc = "send", !.new = NoRequest.new])

Begin(r, m) ==
  /\ req[r].pc = "idle"
  /\ Becomes(r, [NoRequest EXCEPT !.pc = "fix", !.msg = m, !.out = m, !.at = now])
  /\ UNCHANGED <<rows, last, given, removed, time>>

Pan(r) == NormalizePan(req[r].msg.card)
HasCard(r) == req[r].msg.kind = "incoming" /\ req[r].msg.card # Empty
HasCvn(r) == req[r].msg.kind = "incoming" /\ req[r].msg.cvn # Empty
ValidCard(r) == HasCard(r) /\ Pan(r) # Error /\ req[r].msg.exp # NoExpiry
IsFake(r) == ~IsProd /\ Pan(r) \in FakePan

HasTokens(r) ==
  /\ req[r].msg.kind = "authorize"
  /\ req[r].msg.cardToken # NoToken \/ req[r].msg.cvnToken # NoToken

\* Any exception: the wrapper answers 500, and the session is rolled back.
Fails(r) ==
  /\ req[r].pc \in {"fix", "card", "commit"}
  /\ Reply(r, <<>>, 500)
  /\ UNCHANGED <<rows, last, given, removed, time>>

\* Nothing to tokenize, or a fake card, and it is not production.
PassOn(r) ==
  /\ req[r].pc = "fix"
  /\ ~HasTokens(r)
  /\ IF HasCard(r) THEN ValidCard(r) /\ IsFake(r) ELSE ~HasCvn(r)
  /\ Goto(r, "send")
  /\ UNCHANGED <<rows, last, given, removed, time>>

\* The DEKs are DekPool's; each token has one of its own here.
Dek(t) == t

\* Tokenizer::tokenize, without the search: a new row for the text.
NewRow(t, text, block, finish) ==
  [data   |-> EncodeBase64(Encrypt("ecb", Dek(t), block)),
   digest |-> IF Len(text) >= MinHashed THEN text ELSE <<>>,
   finish |-> finish,
   late   |-> finish < now]

Adding(r, t, row) == [u \in DOMAIN req[r].new \cup {t} |-> IF u = t THEN row ELSE req[r].new[u]]

\* Mutant of Tokenized: the parameters are overwritten, not taken out.
TokenizedBeside(out, field, t) ==
  IF field = "cvn" THEN [out EXCEPT !.cvnToken = t]
  ELSE [out EXCEPT !.card = Empty, !.cardToken = t]

\* The parameter goes, and that of its token comes.
Tokenized(out, field, t) ==
  IF field = "cvn" THEN [out EXCEPT !.cvn = Empty, !.cvnToken = t]
  ELSE [out EXCEPT !.card = Empty, !.cardToken = t]

\* get_token begins with the CVN, which is kept for 16 minutes.
TokenizeCvn(r) ==
  /\ req[r].pc = "fix"
  /\ HasCvn(r)
  /\ HasCard(r) => ValidCard(r) /\ ~IsFake(r)
  /\ last < MaxToken
  /\ last' = last + 1
  /\ \E block \in BcdEncode(req[r].msg.cvn) :
        Becomes(r, [req[r] EXCEPT
          !.pc = "card",
          !.new = Adding(r, last + 1, NewRow(last + 1, req[r].msg.cvn, block, now)),
          !.out = Tokenized(@, "cvn", last + 1)])
  /\ UNCHANGED <<rows, given, removed, time>>

AtCard(r) ==
  /\ ValidCard(r) /\ ~IsFake(r)
  /\ req[r].pc = IF HasCvn(r) THEN "card" ELSE "fix"

\* card_finish_ts: after the month the card expires in, and 100 days.
Finish(exp) == exp + Grace

\* The first of the card's rows.
Matches(r) == {t \in Token : Stored(t) /\ rows[t].digest = Pan(r)}
Search(r) == CHOOSE t \in Matches(r) : \A u \in Matches(r) : t <= u

\* The card has a token, whose finish_ts stays what it was.
FoundCard(r) ==
  /\ AtCard(r)
  /\ Matches(r) # {}
  /\ Becomes(r, [req[r] EXCEPT
       !.pc = "commit",
       !.renewed = rows[Search(r)].finish < Finish(req[r].msg.exp),
       !.out = Tokenized(@, "card", Search(r))])
  /\ UNCHANGED <<rows, last, given, removed, time>>

\* It has none, or none whose digest is made with a known key (see Tokens).
TokenizeCard(r) ==
  /\ AtCard(r)
  /\ last < MaxToken
  /\ last' = last + 1
  /\ \E block \in BcdEncode(Pan(r)) :
        Becomes(r, [req[r] EXCEPT
          !.pc = "commit",
          !.new = Adding(r, last + 1,
                         NewRow(last + 1, Pan(r), block, Finish(req[r].msg.exp))),
          !.out = Tokenized(@, "card", last + 1)])
  /\ UNCHANGED <<rows, given, removed, time>>

WithNew(r) == [t \in Token |-> IF t \in DOMAIN req[r].new THEN req[r].new[t] ELSE rows[t]]

\* Mutant of Commit: the session is closed without a commit.
CommitForgotten(r) ==
  /\ req[r].pc = "commit"
  /\ Goto(r, "send")
  /\ UNCHANGED <<rows, last, given, removed, time>>

Commit(r) ==
  /\ req[r].pc = "commit"
  /\ rows' = WithNew(r)
  /\ ToSend(r)
  /\ UNCHANGED <<last, given, removed, time>>

\* The database commits, and its answer is lost.
CommitUnanswered(r) ==
  /\ req[r].pc = "commit"
  /\ rows' = WithNew(r)
  /\ Reply(r, <<>>, 500)
  /\ UNCHANGED <<last, given, removed, time>>

\* Tokenizer::detokenize
Detokenize(t) == BcdDecode(Decrypt("ecb", Dek(t), DecodeBase64(rows[t].data)))

\* authorize__fix_params: get_card wants a card token, a CVN token is optional;
\* and what it decodes must be a card number.
Expand(r) ==
  LET m == req[r].msg
  IN  /\ req[r].pc = "fix"
      /\ HasTokens(r)
      /\ m.cardToken # NoToken
      /\ Stored(m.cardToken)
      /\ NormalizePan(Detokenize(m.cardToken)) # Error
      /\ m.cvnToken # NoToken => Stored(m.cvnToken)
      /\ Becomes(r, [req[r] EXCEPT
           !.pc = "send",
           !.out.cardToken = NoToken, !.out.cvnToken = NoToken,
           !.out.card = Detokenize(m.cardToken),
           !.out.cvn = IF m.cvnToken = NoToken THEN @ ELSE Detokenize(m.cvnToken)])
      /\ UNCHANGED <<rows, last, given, removed, time>>

-----------------------------------------------------------------------------
(* http_post() to the upstream or the gateway, and its answer.             *)

Told(r, t) ==
  IF t = req[r].out.cardToken
  THEN [text |-> Pan(r), exp |-> req[r].msg.exp, renewed |-> req[r].renewed]
  ELSE IF t = req[r].out.cvnToken
  THEN [text |-> req[r].msg.cvn, exp |-> req[r].at, renewed |-> FALSE]
  ELSE given[t]

Forward(r) ==
  /\ req[r].pc = "send"
  /\ Becomes(r, [NoRequest EXCEPT !.pc = "wait", !.at = req[r].at])
  /\ given' = IF req[r].msg.kind = "incoming" THEN [t \in Token |-> Told(r, t)] ELSE given
  /\ UNCHANGED <<rows, last, removed, time>>

\* parse_status and put_header_line: without a reason phrase it is no status line.
Named(answer) == {i \in DOMAIN answer : answer[i].named}
Status(answer) ==
  IF Named(answer) = {} THEN NoCode
  ELSE LET latest == CHOOSE i \in Named(answer) : \A j \in Named(answer) : j <= i
       IN  answer[latest].code

\* The upstream answers.  convert_response: a status of 0 makes the constructor of
\* the response throw.
Completes(r, answer) ==
  /\ req[r].pc = "wait"
  /\ Reply(r, answer, IF Status(answer) = NoCode THEN 500 ELSE Status(answer))
  /\ UNCHANGED <<rows, last, given, removed, time>>

\* Mutant of TransferFails: the result of the transfer is not looked at.
TransferFailsUnseen(r, answer) ==
  /\ req[r].pc = "wait"
  /\ Reply(r, <<>>, IF Status(answer) = NoCode THEN 500 ELSE Status(answer))
  /\ UNCHANGED <<rows, last, given, removed, time>>

\* No connection, or one that breaks in the answer, or 30 seconds have passed, with
\* `answer`, or a part of it, received.  There is no second try.
TransferFails(r, answer) ==
  /\ req[r].pc = "send" \/ req[r].pc = "wait"
  /\ Reply(r, <<>>, 500)
  /\ UNCHANGED <<rows, last, given, removed, time>>

SendReply(r) ==
  /\ req[r].pc = "reply"
  /\ Becomes(r, NoRequest)
  /\ UNCHANGED <<rows, last, given, removed, time>>

-----------------------------------------------------------------------------
(* Removal.                                                                *)

\* remove_card
RemoveCard(t) ==
  /\ Stored(t)
  /\ rows' = [rows EXCEPT ![t] = NoRow]
  /\ removed' = removed \cup {t}
  /\ UNCHANGED <<last, req, given, time>>

\* Mutant of Stale: the window is open at its lower end.
StaleInside(t) == Stored(t) /\ now - Window < rows[t].finish /\ rows[t].finish < now

Stale(t) == Stored(t) /\ now - Window <= rows[t].finish /\ rows[t].finish < now

\* delete_stale_tokens
Clean ==
  /\ rows' = [t \in Token |-> IF Stale(t) THEN NoRow ELSE rows[t]]
  /\ idle' = 0
  /\ UNCHANGED <<last, req, given, removed, now>>

\* Cron starts the cleaner every minute: it is never down for the whole window.
Tick ==
  /\ now < MaxNow
  /\ idle + 1 < Window
  /\ \A r \in Request : req[r].pc \in {"idle", "reply"} \/ req[r].at = now
  /\ now' = now + 1
  /\ idle' = idle + 1
  /\ UNCHANGED <<rows, last, req, given, removed>>

Authorize(cardToken, cvnToken) ==
  [NoMessage EXCEPT !.kind = "authorize", !.cardToken = cardToken, !.cvnToken = cvnToken]

ClientNext(r) ==
  \/ \E m \in Message : Begin(r, m)
  \/ \E t, u \in Token \cup {NoToken} : t # u /\ Begin(r, Authorize(t, u))

RequestNext(r) ==
  \/ Fails(r)
  \/ PassOn(r)
  \/ TokenizeCvn(r)
  \/ FoundCard(r)
  \/ TokenizeCard(r)
  \/ Commit(r)
  \/ CommitUnanswered(r)
  \/ Expand(r)
  \/ Forward(r)
  \/ \E answer \in Answer : Completes(r, answer) \/ TransferFails(r, answer)
  \/ SendReply(r)

Next ==
  \/ \E r \in Request : ClientNext(r) \/ RequestNext(r)
  \/ \E t \in Token : RemoveCard(t)
  \/ Clean
  \/ Tick

Spec == Init /\ [][Next]_vars

-----------------------------------------------------------------------------
(* Safety.                                                                 *)

\* README: the proxy passes to the upstream only an opaque token parameter.  No card
\* number and no CVN leaves the proxy in an incoming request, whichever of them
\* it has and whatever fails, but those of a fake card outside production.
OpaqueUpstream ==
  \A r \in Request :
     req[r].pc = "send" /\ req[r].msg.kind = "incoming"
       /\ ~(ValidCard(r) /\ IsFake(r))
     => req[r].out.card = Empty /\ req[r].out.cvn = Empty

\* A token that the upstream was given stays in the table as long as the card is
\* valid, with requests, the cleaner and failures in any order, unless a client
\* removes it, or the card had it with an earlier date already.
KeptUntilExpiry ==
  \A t \in Token : given[t] # NotGiven /\ ~Stored(t) =>
     t \in removed \/ given[t].exp < now \/ given[t].renewed

\* Is this the text that the token was made for, as far as the upstream knows?  (A CVN
\* with letters has become its first digits, see Codecs.)
Original(t, text) ==
  given[t].text \in Seq(Digit) \ {Empty} => text = given[t].text

\* README: the outgoing request containing a token would expand to contain full card
\* data.  What goes to the gateway for the token of a card or of a CVN of digits is
\* what the client once sent, without white space, whichever request made the token.
ExpandsToOriginal ==
  \A r \in Request : req[r].pc = "send" /\ HasTokens(r) =>
     LET m == req[r].msg
         out == req[r].out
     IN  /\ out.card \in Seq(Digit) \ {Empty}
         /\ Original(m.cardToken, out.card)
         /\ m.cvnToken # NoToken => Original(m.cvnToken, out.cvn)

\* The client is told of a result only if the upstream completed its answer, and
\* then what the upstream decided; a status without a reason phrase is lost, and
\* the client gets 500, or a 100 that came before it.
AnswerIsUpstreams ==
  \A r \in Request : req[r].pc = "reply" /\ req[r].reply # 500 =>
     LET answer == req[r].answer
     IN  /\ answer # <<>>
         /\ IF Last(answer).named THEN req[r].reply = Last(answer).code
            ELSE req[r].reply = 100

\* Tokens that expire go: one that stays longer than the cleaner's window was stale
\* already when it was made.
StaleAreCleaned ==
  \A t \in Token : Stored(t) /\ rows[t].finish + Window < now => rows[t].late

=============================================================================
