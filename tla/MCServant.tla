----------------------------- MODULE MCServant -----------------------------
(* A small instance of Servant for TLC. *)
EXTENDS Servant

Complete == [line |-> TRUE, headers |-> <<"folded">>, method |-> "POST", path |-> "secured",
             auth |-> "right", length |-> 1, form |-> TRUE, body |-> 1]
Short == [Complete EXCEPT !.headers = <<>>, !.length = 0, !.body = 0]

\* A complete request to the key keeper, one of each other kind of method, and one
\* for each way to be refused.  Each may be cut anywhere.
MCMessage ==
  {Complete,
   [Complete EXCEPT !.path = "plain", !.method = "GET"],
   [Short EXCEPT !.path = "xml"],
   [Short EXCEPT !.path = "batch"],
   [Short EXCEPT !.path = "remote"],
   [Short EXCEPT !.path = "patch"],
   [Short EXCEPT !.line = FALSE],
   [Complete EXCEPT !.headers = <<>>, !.form = FALSE],
   [Short EXCEPT !.headers = <<"plain", "no colon">>],
   [Short EXCEPT !.method = "PUT"],
   [Short EXCEPT !.path = "missing"],
   [Short EXCEPT !.auth = "none"],
   [Short EXCEPT !.auth = "wrong"]}

\* The other client sends what meets it in serve(): a request that has to wait for each
\* of its parts, one that is restarted, and one that is refused.
MCOtherMessage ==
  {Complete, [Short EXCEPT !.path = "xml"], [Short EXCEPT !.headers = <<"plain", "no colon">>]}

MCSends ==
  LET one == CHOOSE c \in Client : TRUE
  IN  [c \in Client |-> IF c = one THEN MCMessage ELSE MCOtherMessage]

LiveSpec == Spec /\ Fairness /\ ClientsKeepComing

=============================================================================
