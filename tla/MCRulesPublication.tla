------------------------- MODULE MCRulesPublication -------------------------
(* Contents: d0 at the start, d1 of an editor, odd, which only the BFF     *)
(* accepts, and bad, which is no JSON. Two editors, the converter's worker.*)
EXTENDS RulesPublication, TLC

CONSTANTS d0, d1, odd, bad, r1, r2, worker

Ask(kind, doc) == [kind |-> kind, doc |-> doc]
Publish(doc) == Ask("publish", doc)
Retry == Ask("retry", d0)

\* Two drafts that compete, drafts only one side accepts, and retries.
MCPlans == {r1 :> p[1] @@ r2 :> p[2] : p \in {
    <<Publish(d1), Publish(odd)>>, <<Publish(d1), Retry>>, <<Publish(bad), Retry>>}}
=============================================================================
