---------------------------- MODULE MCAdmission ----------------------------
(***************************************************************************)
(* Admission for TLC: one key in two versions (the control plane changed   *)
(* its rate limit), and one unlimited key that expires.                    *)
(***************************************************************************)
EXTENDS Admission, TLC

CONSTANTS id1, id2, t1, t2

Key1(rps) ==
    [id |-> id1, hash |-> t1, models |-> {}, rate_limit_rps |-> rps,
     spend_limit |-> None, expires_at |-> None]

Key2(expiry) ==
    [id |-> id2, hash |-> t2, models |-> {}, rate_limit_rps |-> None,
     spend_limit |-> None, expires_at |-> expiry]

TwoKeys == {Key1(1), Key2(1)}
TwoVersions == {Key1(1), Key1(2)}

Symmetry == Permutations(Requests)
=============================================================================
