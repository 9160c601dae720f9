------------------------------ MODULE MCProxy ------------------------------
(***************************************************************************)
(* Proxy for TLC.  For spend accounting: one key in two versions, a budget *)
(* of one unit raised to two, per "day"; for the cache: two keys that are  *)
(* restricted to the model m1.                                             *)
(***************************************************************************)
EXTENDS Proxy, TLC

CONSTANTS id1, id2, t1, t2, m1

BudgetKey(amount) ==
    [id |-> id1, hash |-> t1, models |-> {}, rate_limit_rps |-> None,
     spend_limit |-> [amount_usd |-> amount, period |-> "day"], expires_at |-> None]

PlainKey(id, token, models) ==
    [id |-> id, hash |-> token, models |-> models, rate_limit_rps |-> None,
     spend_limit |-> None, expires_at |-> None]

BudgetKeys == {BudgetKey(1), BudgetKey(2)}
OneBudgetKey == {BudgetKey(2)}
CacheKeys == {PlainKey(id1, t1, {m1}), PlainKey(id2, t2, {m1})}

Chat == [endpoint |-> "chat", stream |-> FALSE]
ChatStream == [endpoint |-> "chat", stream |-> TRUE]
Embeddings == [endpoint |-> "embeddings", stream |-> FALSE]

ChatOnly == {Chat}
OneOfEach == {ChatStream, Embeddings}

(* Successive days, one instant each. *)
Days == [day |-> [t \in 0..MaxNow |-> t]]

Symmetry == Permutations(Requests)
=============================================================================
