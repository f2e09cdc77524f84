----------------------------- MODULE MCPairing -----------------------------
(* Pairing for TLC. *)
EXTENDS Pairing, SequencesExt

\* The members of `used` come before the others, in one fixed order of S.
TakenInOrder(used, S) ==
    LET order == SetToSeq(S) IN
    \A m, n \in DOMAIN order : m < n /\ order[n] \in used => order[m] \in used

\* Nothing tells senders or codes apart and the histories only grow, so the
\* senders and codes of any behaviour can be renamed until the first ones that
\* are paired, or tried, are taken in this order.
NamesInOrder ==
    /\ TakenInOrder({given[1] : given \in shown}, Senders)
    /\ TakenInOrder(tried \cup {given[2] : given \in shown}, Codes)
=============================================================================
