---------------------------- MODULE MCTechDispatch ----------------------------
(* Bounded instance of TechDispatch for TLC.  Lines, technicians, tickets and *)
(* callers are interchangeable.                                               *)
EXTENDS TechDispatch, TLC

DispatchSymmetry ==
    Permutations(Line) \cup Permutations(Tech) \cup Permutations(Ticket)
        \cup Permutations(Caller)

================================================================================
