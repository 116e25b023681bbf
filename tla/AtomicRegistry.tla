--------------------------- MODULE AtomicRegistry ---------------------------
(****************************************************************************)
(* What a registry file promises its callers: a map from keys to entries    *)
(* that each call changes at one key, at once, and that a crash leaves as   *)
(* the last call left it.                                                   *)
(****************************************************************************)
CONSTANTS Keys, Values, NoValue

VARIABLE reg        \* key -> entry, NoValue when absent

Init == reg = [k \in Keys |-> NoValue]

Put(k, v) == reg' = [reg EXCEPT ![k] = v]

\* only if there is no entry yet
Learn(k, v) == reg[k] = NoValue /\ reg' = [reg EXCEPT ![k] = v]

\* only if there is an entry
Amend(k, v) == reg[k] # NoValue /\ reg' = [reg EXCEPT ![k] = v]

Drop(k) == reg' = [reg EXCEPT ![k] = NoValue]

Next == \E k \in Keys : \/ \E v \in Values : Put(k, v) \/ Learn(k, v) \/ Amend(k, v)
                        \/ Drop(k)

Spec == Init /\ [][Next]_reg
=============================================================================
