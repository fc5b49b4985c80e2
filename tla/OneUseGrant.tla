------------------------------ MODULE OneUseGrant ------------------------------
(***************************************************************************)
(* What a step-up promises, without sessions, callbacks, locks or clocks:  *)
(* a permit is asked for one person and one operation, is decided once,    *)
(* and a granted permit lets at most one request perform that operation    *)
(* for that person, and nothing else.                                      *)
(***************************************************************************)
CONSTANTS Txn, Person, Op, Request, None

VARIABLES
    permit,  \* permit[t]: how far the permit is
    bound,   \* bound[t]: the person and the operation it was asked for
    deed     \* deed[r]: what request r performed, for whom and on which permit

Init ==
    /\ permit = [t \in Txn |-> "none"]
    /\ bound = [t \in Txn |-> [person |-> None, op |-> None]]
    /\ deed = [r \in Request |-> [permit |-> None, for |-> [person |-> None, op |-> None]]]

Ask(t, p, o) ==
    /\ permit[t] = "none"
    /\ permit' = [permit EXCEPT ![t] = "asked"]
    /\ bound' = [bound EXCEPT ![t] = [person |-> p, op |-> o]]
    /\ UNCHANGED deed

Decide(t, answer) ==
    /\ permit[t] = "asked"
    /\ permit' = [permit EXCEPT ![t] = answer]
    /\ UNCHANGED <<bound, deed>>

Use(t, r) ==
    /\ permit[t] = "granted"
    /\ deed[r].permit = None
    /\ permit' = [permit EXCEPT ![t] = "used"]
    /\ deed' = [deed EXCEPT ![r] = [permit |-> t, for |-> bound[t]]]
    /\ UNCHANGED bound

Next ==
    \E t \in Txn :
        \/ \E p \in Person, o \in Op : Ask(t, p, o)
        \/ \E answer \in {"granted", "refused"} : Decide(t, answer)
        \/ \E r \in Request : Use(t, r)

Spec == Init /\ [][Next]_<<permit, bound, deed>>
================================================================================
