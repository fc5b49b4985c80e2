------------------------------- MODULE MCProcesses -------------------------------
(* Bounded instance of the processes, their pool and the migration runner for TLC:     *)
(* two callers on as many clients, two jobs and two lost sessions; or two runners and  *)
(* four runs over two releases that disagree about the second of three migrations, a   *)
(* third that changed the first, and a fixture that holds the first alone.             *)
EXTENDS Processes, Migrations

VARIABLE scene

\* The restricted login, and each way a connection can fail to be it.
Restricted == [sessionUser |-> "dealership_app", currentUser |-> "dealership_app",
               isSuperuser |-> FALSE, assumableOwners |-> {}, canWriteLedger |-> FALSE,
               canInsertChildEvidence |-> FALSE, canInsertParentDecision |-> TRUE]
MCPosture ==
    {Restricted, [Restricted EXCEPT !.sessionUser = "owner"], [Restricted EXCEPT !.isSuperuser = TRUE],
     [Restricted EXCEPT !.assumableOwners = {"owner"}], [Restricted EXCEPT !.canWriteLedger = TRUE],
     [Restricted EXCEPT !.canInsertChildEvidence = TRUE],
     [Restricted EXCEPT !.canInsertParentDecision = FALSE]}

Release1 == <<"b1", "b2">>
Release2 == <<"b1", "b2x", "b3">>
Release3 == <<"b1x", "b2", "b3">>
MCCanonicalDirs == {Release1, Release2, Release3}
MCDirectory == MCCanonicalDirs \cup {<<"b1">>, <<"b1", "b9">>}
MCChain == <<[required |-> TRUE, variants |-> {"b1", "b1x"}], [required |-> FALSE, variants |-> {"b2"}]>>

MCInit ==
    /\ scene \in {"processes", "migrations"}
    /\ ProcessesInit /\ (scene = "migrations" => role = "worker" /\ worker = NewWorker("list"))
    /\ MigrationsInit /\ (scene = "processes" => schema = <<>>)

MCNext ==
    /\ scene' = scene
    /\ \/ scene = "processes" /\ Next /\ UNCHANGED migrationVars
       \/ scene = "migrations" /\ MigrationsNext /\ UNCHANGED vars

MCSpec == MCInit /\ [][MCNext]_<<vars, migrationVars, scene>> /\ (scene = "processes" => Fairness)

==================================================================================
