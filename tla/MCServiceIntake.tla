---------------------------- MODULE MCServiceIntake ----------------------------
(* Bounded instance of ServiceIntake for TLC.  Appointments and entries are   *)
(* interchangeable; so are vehicles.                                          *)
EXTENDS ServiceIntake, TLC

IntakeSymmetry ==
    Permutations(Appt) \cup Permutations(Entry) \cup Permutations(Vehicle)

================================================================================
