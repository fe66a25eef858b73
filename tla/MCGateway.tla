------------------------------ MODULE MCGateway ------------------------------
(* Small instance: two bridges share a journal that is full before the       *)
(* gateway's stream ends, and the gateway forgets old events; two tickets    *)
(* for one association; a subscriber of a stream of three events; two        *)
(* threads of the host at the registered handlers.                           *)
EXTENDS Gateway, TLC

CONSTANTS b1, b2, t1, t2, a1, s1, h1, h2

Bridges == {b1, b2}
OneTicket == {t1}
TwoTickets == {t1, t2}
OneAssociation == {a1}
OneSubscriber == {s1}
TwoThreads == {h1, h2}
\* Bound: the stream after a restart has only its first event.
ShortSecondStream == gw.epoch > 1 => Len(gw.log) = 1
Interchangeable == Permutations(Bridges)
=============================================================================
