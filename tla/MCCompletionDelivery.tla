------------------------ MODULE MCCompletionDelivery ------------------------
(* A small instance of CompletionDelivery for TLC.                          *)
EXTENDS CompletionDelivery, TLC

CONSTANTS t1, t2, mail, hook

\* A webhook needs a URL, and t1 is none.
NotAUrl == {<<hook, t1>>}

MailTemplate == {[channel |-> mail, enabled |-> TRUE]}

\* The group on webhooks with t2 unsubscribed, or nobody; or switched off.
HookGroup ==
    {[channel |-> hook, enabled |-> TRUE, to |-> Targets, out |-> o] : o \in {{}, {t2}}}
        \cup {[channel |-> hook, enabled |-> FALSE, to |-> {t2}, out |-> {}]}

HookOrders == {[channel |-> hook, target |-> t1, respect |-> TRUE]}

\* At most so many requests come in altogether.
Busy == Cardinality({q \in Requests : pc[q] # "idle"}) <= 4

Symmetry == Permutations(Upserts) \cup Permutations(Webhooks) \cup Permutations(Visits)
    \cup Permutations(Batches)
=============================================================================
