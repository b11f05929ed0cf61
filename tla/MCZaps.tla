------------------------------- MODULE MCZaps -------------------------------
(* Two zaps on one idea, by the page's user and by somebody else. *)
EXTENDS Zaps

MCAuthor   == [i1 |-> "ann"]
MCProvider == [ann |-> [key |-> "kp", min |-> 1, max |-> 2]]
MCSender   == <<"me", "zoe">>
MCTarget   == <<"i1", "i1">>

\* Zoe's request and its invoice, which others may copy, and receipts they make of them:
\* signed by a key of their own, altered, and about a payment to somebody else.
Copied == [by |-> "zoe", sig |-> TRUE, coherent |-> TRUE, p |-> "ann", e |-> "i1", amount |-> 1]
Forged == [id |-> 1, key |-> "kx", sig |-> TRUE, at |-> 0, p |-> "ann", e |-> "i1",
           req |-> Copied, invoice |-> [hash |-> 2, msat |-> 1, desc |-> Copied]]
ToBob  == [Copied EXCEPT !.p = "bob", !.e = "i2"]

MCForgeries ==
  { Forged,
    [Forged EXCEPT !.id = 2, !.key = "kp", !.sig = FALSE, !.invoice.hash = 4],
    [Forged EXCEPT !.id = 3, !.key = "kp", !.invoice = [hash |-> 3, msat |-> 1, desc |-> ToBob]] }
MCDisowned == {[by |-> "kx", id |-> 2011]}
=============================================================================
