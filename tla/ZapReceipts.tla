----------------------------- MODULE ZapReceipts -----------------------------
(***************************************************************************)
(* Zap receipts (kind 9735) as the protocol package reads them: the        *)
(* ordered gate of validateZapReceipt and the totals of zapTotalsByTarget. *)
(*                                                                         *)
(* A receipt is signed by the recipient's Lightning provider. It carries   *)
(* the zap request its sender signed (kind 9734), and the invoice that was *)
(* paid, which commits to the request by a hash. Anybody may publish one.  *)
(***************************************************************************)
EXTENDS Integers, Sequences, FiniteSets, SequencesExt

CONSTANTS
  Receipts,   \* the receipts that may reach a reader; malformed ones are left out
  Events,     \* the ids of ideas and replies
  People,      \* those who send and receive zaps
  Keys,       \* the keys that sign receipts: the providers', and others
  NoAnchor,   \* what a reader holds of a recipient whose provider is not resolved
  NoInvoice,  \* an invoice that decodes to nothing, or to no amount
  NoAmount    \* a request without an amount tag

Requests == [by : People, sig : BOOLEAN, coherent : BOOLEAN, p : People, e : Events,
             amount : Nat \cup {NoAmount}]
Invoices == [hash : Int, msat : Nat \ {0}, desc : Requests]
ZapReceipt == [id : Int, key : Keys, sig : BOOLEAN, at : Int, p : People, e : Events,
               req : Requests, invoice : Invoices \cup {NoInvoice}]

\* The provider as its LNURL endpoint describes it.
Metas == [key : Keys, min : Nat, max : Nat]

ASSUME ReceiptsAssumption ==
  /\ Receipts \subseteq ZapReceipt
  /\ \A r, s \in Receipts : r.id = s.id => r = s
ASSUME MarkersAssumption ==
  NoAnchor \notin Metas /\ NoInvoice \notin [hash : Int, msat : Nat, desc : Requests]

-----------------------------------------------------------------------------
(* The gate, in the order of the code.                                     *)

\* Mutant of SignedByAnchor: whoever signed it.
SignedByAnyone(r, meta) == r.sig /\ meta # NoAnchor

\* The trust anchor: the key of the recipient's own provider. Without one
\* nothing is credited.
SignedByAnchor(r, meta) == r.sig /\ meta # NoAnchor /\ r.key = meta.key

RequestHolds(r) == r.req.sig /\ r.req.coherent

\* The invoice decodes, and commits to this very request.
InvoiceBinds(r) == r.invoice # NoInvoice /\ r.invoice.desc = r.req
AmountAgrees(r) == r.req.amount \in {NoAmount, r.invoice.msat}

NamesTarget(r, target) == r.req.e = target /\ r.e = target
NamesRecipient(r, who) == r.req.p = who /\ r.p = who
InBounds(r, meta)      == r.invoice.msat \in meta.min .. meta.max

Valid(r, who, meta) ==
  /\ SignedByAnchor(r, meta)
  /\ RequestHolds(r)
  /\ InvoiceBinds(r)
  /\ AmountAgrees(r)
  /\ NamesTarget(r, r.e)
  /\ NamesRecipient(r, who)
  /\ InBounds(r, meta)

-----------------------------------------------------------------------------
(* Totals. The author of each displayed event receives its zaps; anchors   *)
(* says what is resolved of each author's provider.                        *)

\* Pass 1: what passes the gate.
Validated(rs, author, anchors) ==
  {r \in rs : r.e \in DOMAIN author /\ Valid(r, author[r.e], anchors[author[r.e]])}

Earlier(r, s) == r.at < s.at \/ (r.at = s.at /\ r.id < s.id)

\* Pass 2: a payment credits one receipt, the earliest.
KeepEarliest(won, r) ==
  LET hash == r.invoice.hash IN
    IF hash \in DOMAIN won /\ ~Earlier(r, won[hash])
    THEN won
    ELSE [h \in DOMAIN won \cup {hash} |-> IF h = hash THEN r ELSE won[h]]

\* The loop of pass 2, over the receipts of the list that are counted.
Winners(es, counted) ==
  LET won[n \in 0 .. Len(es)] ==
        IF n = 0 THEN <<>>
        ELSE IF es[n] \in counted THEN KeepEarliest(won[n - 1], es[n])
        ELSE won[n - 1]
  IN won[Len(es)]

\* Pass 3: the sum of a target's winners.
TotalOf(target, won) ==
  LET hashes == {h \in DOMAIN won : won[h].e = target}
  IN SumFunction([h \in hashes |-> won[h].invoice.msat])

\* The totals over a list of receipts, those of it that are live.
Totals(es, live, author, anchors) ==
  LET won == Winners(es, Validated(live, author, anchors))
  IN [t \in DOMAIN author |-> TotalOf(t, won)]
=============================================================================
