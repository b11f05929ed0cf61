-------------------------- MODULE AttestationHistory --------------------------
(***************************************************************************)
(* Module Attestation with a history variable: which of the requests in    *)
(* flight had the carriers to themselves.  It restrains no step; it lets a *)
(* property tell the request that reads and writes undisturbed, whatever   *)
(* happened before it, from one that runs into another.                    *)
(***************************************************************************)
EXTENDS Attestation

CONSTANT Watched  \* the requests that are assumed to keep moving, the others may hang

ASSUME WatchedAssumption == Watched \subseteq Requests

VARIABLE fresh  \* past their read, which missed nothing, with no event of another since

hvars == <<vars, fresh>>

Writing == {"label", "set", "delist"}

\* What a read that misses nothing returns.
Everything == [sets |-> SelectLatest(AllSets), labels |-> CollapseLabels(AllLabels)]

\* A request writes in steps that move it, so the carriers change under a
\* request that stays where it is only by the hand of another.
Remember ==
  fresh' = {q \in Requests :
              /\ pc'[q] \in Writing
              /\ IF pc[q] = "read" THEN view'[q] = Everything
                 ELSE q \in fresh /\ (pc'[q] # pc[q] \/ UNCHANGED <<sets, labels>>)}

HInit == Init /\ fresh = {}

HNext == Next /\ Remember

HSpec == HInit /\ [][HNext]_hvars

\* A query ends after maxWait and a publish settles on every relay, so a
\* request in flight keeps moving; nobody has to send one.  A watched request
\* gets there by its own steps, so nothing is asked of the others.
WatchedSpec == HSpec /\ \A q \in Watched : WF_vars(Serve(q))

-----------------------------------------------------------------------------
(* Properties.                                                             *)

\* "The next op heals the set" (issue.ts, CONCURRENCY): whatever lost updates,
\* partial reads, crashes and lost OKs have done to the set so far, the next
\* request that reads everything and writes undisturbed leaves every attested
\* board listed.  (An idempotent answer publishes nothing, and heals nothing.)
NextOpHeals == [][\A q \in fresh : Answers200(q) => Attested' \subseteq Listed']_hvars

\* Every request the service accepts is answered, whatever the others meet:
\* its own steps get it there.
EveryRequestAnswered == \A q \in Watched : pc[q] \in InFlight ~> pc[q] = "done"
=============================================================================
