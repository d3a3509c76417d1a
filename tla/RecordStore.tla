---------------------------- MODULE RecordStore ----------------------------
(***************************************************************************)
(* What the platform's stores promise of their records: a record is        *)
(* created once; it changes only together with the claim of a key no       *)
(* update had before; and the document a key was claimed with is what the  *)
(* key stands for from then on.                                            *)
(***************************************************************************)
EXTENDS Integers

VARIABLES
    status,    \* record id :> its latest document
    claimed    \* key :> the document its update stored; <<id, ...>>

vars == <<status, claimed>>

Keeps(f) == \A k \in DOMAIN f : k \in DOMAIN f' /\ f'[k] = f[k]

Init == DOMAIN status = {} /\ DOMAIN claimed = {}

Create ==
    /\ \E id \in DOMAIN status' : DOMAIN status' = DOMAIN status \cup {id}
    /\ Keeps(status)
    /\ UNCHANGED claimed

Update ==
    \E k \in DOMAIN claimed' \ DOMAIN claimed :
        /\ DOMAIN claimed' = DOMAIN claimed \cup {k}
        /\ Keeps(claimed)
        /\ k[1] \in DOMAIN status
        /\ status' = [status EXCEPT ![k[1]] = claimed'[k]]

Next == Create \/ Update

Spec == Init /\ [][Next]_vars
=============================================================================
