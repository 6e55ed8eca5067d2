------------------------------ MODULE MCProxy ------------------------------
(* Small instances of Proxy for TLC: blocks of two bytes, and card numbers of two
   to four digits. *)
EXTENDS Proxy, TLC

Card == <<4, 2>>
Spaced == <<4, Space, 2>>
Fake == <<5, 5, 5>>
Cvn == <<7>>

Incoming(card, cvn, exp) ==
  [NoMessage EXCEPT !.kind = "incoming", !.card = card, !.cvn = cvn, !.exp = exp]

MCFakePan == {Fake}

\* A card with its CVN, the same card renewed, a fake card; what the proxy refuses: a
\* letter, a missing date, a CVN alone; and a request of another kind.
MCMessage ==
  {Incoming(Card, Cvn, 0),
   Incoming(Spaced, Empty, 1),
   Incoming(Fake, Cvn, 1),
   Incoming(<<4, Other>>, Cvn, NoExpiry),
   Incoming(Empty, Cvn, NoExpiry),
   NoMessage}

Line(code, named) == [code |-> code, named |-> named]

MCAnswer ==
  {<<Line(200, TRUE)>>, <<Line(402, TRUE)>>, <<Line(200, FALSE)>>,
   <<Line(100, TRUE), Line(402, TRUE)>>, <<Line(100, TRUE), Line(200, FALSE)>>}

Symmetry == Permutations(Request)

=============================================================================
