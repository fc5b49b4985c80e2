------------------------------- MODULE Migrations -------------------------------
(***************************************************************************)
(* The migration runner and its ledger, schema_migrations.                 *)
(*                                                                         *)
(* Source: scripts/migrate.ts and scripts/migration-fixture-chains.ts.     *)
(*                                                                         *)
(* A run decides whether its directory is admitted at all, judges every    *)
(* row of the ledger against the bodies it has, and then applies what the  *)
(* ledger did not have, each file in a transaction that also writes its    *)
(* row.  Nothing locks runners out: two deployments, with two releases'    *)
(* files, may run at once, fail, and be started again.  A body stands for  *)
(* its canonical text and for its digest.                                  *)
(***************************************************************************)
EXTENDS Naturals, Sequences, FiniteSets

CONSTANTS
    Runner,
    MaxFile,       \* filenames are 1..MaxFile, in their order
    Body,
    Directory,     \* migration directories: functions from the files they hold to bodies
    CanonicalDirs, \* the releases' own
    Chain,         \* the declared fixture chain: file -> whether required, admitted bodies
    NoBody,
    MaxRun         \* bound: how many runs there are

\* The declarations that load: every file says whether it is required and admits a body.
loadFixtureChains(chain) ==
    \A f \in DOMAIN chain : /\ f \in 1..MaxFile /\ chain[f].required \in BOOLEAN
                            /\ chain[f].variants \subseteq Body /\ chain[f].variants # {}

ASSUME MigrationAssumption ==
    /\ MaxFile \in Nat /\ MaxRun \in Nat
    /\ \A d \in Directory : DOMAIN d \subseteq 1..MaxFile /\ \A f \in DOMAIN d : d[f] \in Body
    /\ CanonicalDirs # {} /\ CanonicalDirs \subseteq Directory /\ loadFixtureChains(Chain)
    /\ Body \cap {"none", "unrecorded", "foreign"} = {}
    /\ NoBody \notin Body \cup {"none", "unrecorded", "foreign"}

\* Releases add their migrations at the end: a directory holds the first so many files.
ASSUME NumberingAssumption == \A d \in Directory : \E n \in 0..MaxFile : DOMAIN d = 1..n

VARIABLES
    ledger,  \* file -> the body its row has the digest of, or how it has none
    schema,  \* what was executed and committed, in order
    runs,    \* runs[r]: r's directory and release, the ledger as it read it, how far it is
    begun    \* how many runs there have been

migrationVars == <<ledger, schema, runs, begun>>

\* "unrecorded": a row from before digests; "foreign": one under another algorithm.
Row == Body \cup {"none", "unrecorded", "foreign"}
NoRun == [phase |-> "idle", dir |-> <<>>, canonical |-> <<>>, read |-> [f \in 1..MaxFile |-> "none"],
          next |-> 1]

\* A new database, or one whose first migration ran before digests were recorded.
MigrationsInit ==
    /\ \/ ledger = [f \in 1..MaxFile |-> "none"] /\ schema = <<>>
       \/ \E row \in {"unrecorded", "foreign"}, d \in CanonicalDirs :
            /\ 1 \in DOMAIN d
            /\ ledger = [f \in 1..MaxFile |-> IF f = 1 THEN row ELSE "none"]
            /\ schema = <<[file |-> 1, body |-> d[1]]>>
    /\ runs = [r \in Runner |-> NoRun]
    /\ begun = 0

--------------------------------------------------------------------------------
(* Which directories may run *)

\* Every body present is declared with its digest, and every required file is present.
validateChainDirectory(d) ==
    /\ \A f \in DOMAIN Chain : Chain[f].required => f \in DOMAIN d
    /\ \A f \in DOMAIN d : f \in DOMAIN Chain /\ d[f] \in Chain[f].variants

\* The release's own directory without a chain, or another one with a chain that admits it.
decideMode(d, canonical, named) ==
    IF d = canonical THEN ~named ELSE named /\ validateChainDirectory(d)

migrate(r, d, canonical, named) ==
    /\ runs[r].phase \in {"idle", "over"}
    /\ begun < MaxRun /\ begun' = begun + 1
    /\ runs' = [runs EXCEPT ![r] =
            IF decideMode(d, canonical, named)
            THEN [NoRun EXCEPT !.phase = "reading", !.dir = d, !.canonical = canonical]
            ELSE [NoRun EXCEPT !.phase = "over"]]
    /\ UNCHANGED <<ledger, schema>>

--------------------------------------------------------------------------------
(* Whether the ledger can be trusted *)

\* The run's directory first, then the release's.
resolveBody(run, f) ==
    IF f \in DOMAIN run.dir THEN run.dir[f]
    ELSE IF f \in DOMAIN run.canonical THEN run.canonical[f]
    ELSE NoBody

\* Mutant of ledgerRefusals: a row without a digest is let through.
ledgerRefusals_Warns(rows, run) ==
    {f \in 1..MaxFile : rows[f] \in Body /\ resolveBody(run, f) # rows[f]}

\* A row without its body, without a digest, under another algorithm, or of another body.
ledgerRefusals(rows, run) ==
    {f \in 1..MaxFile : rows[f] # "none" /\ resolveBody(run, f) # rows[f]}

\* Everything is judged before anything is applied; a refusal ends the run.
readLedger(r) ==
    /\ runs[r].phase = "reading"
    /\ runs' = [runs EXCEPT ![r] =
            IF ledgerRefusals(ledger, runs[r]) # {} THEN [@ EXCEPT !.phase = "over"]
            ELSE [@ EXCEPT !.phase = "applying", !.read = ledger]]
    /\ UNCHANGED <<ledger, schema, begun>>

--------------------------------------------------------------------------------
(* Applying *)

\* What the ledger did not have when it was read.
Pending(r) == {f \in DOMAIN runs[r].dir : runs[r].read[f] = "none" /\ f >= runs[r].next}

NextFile(r) == CHOOSE f \in Pending(r) : \A g \in Pending(r) : f <= g

\* The file and its row commit together; told is whether the runner hears of it.
applyNext(r, told) ==
    /\ runs[r].phase = "applying" /\ Pending(r) # {}
    /\ LET f == NextFile(r)
       IN  /\ ledger[f] = "none"
           /\ ledger' = [ledger EXCEPT ![f] = runs[r].dir[f]]
           /\ schema' = Append(schema, [file |-> f, body |-> runs[r].dir[f]])
           /\ runs' = [runs EXCEPT ![r].next = f + 1, ![r].phase = IF told THEN @ ELSE "over"]
    /\ UNCHANGED begun

\* A statement fails, the row is there already (its primary key), or the runner is killed:
\* the transaction is rolled back and the run is over.
applyFails(r) ==
    /\ runs[r].phase \in {"reading", "applying"}
    /\ runs' = [runs EXCEPT ![r].phase = "over"]
    /\ UNCHANGED <<ledger, schema, begun>>

upToDate(r) ==
    /\ runs[r].phase = "applying" /\ Pending(r) = {}
    /\ runs' = [runs EXCEPT ![r].phase = "over"]
    /\ UNCHANGED <<ledger, schema, begun>>

MigrationsNext ==
    \E r \in Runner :
        \/ \E d \in Directory, c \in CanonicalDirs, named \in BOOLEAN : migrate(r, d, c, named)
        \/ readLedger(r)
        \/ \E told \in BOOLEAN : applyNext(r, told)
        \/ applyFails(r)
        \/ upToDate(r)

MigrationsSpec == MigrationsInit /\ [][MigrationsNext]_migrationVars

--------------------------------------------------------------------------------
MigrationsTypeOK ==
    /\ ledger \in [1..MaxFile -> Row]
    /\ \A i \in DOMAIN schema : schema[i].file \in 1..MaxFile /\ schema[i].body \in Body
    /\ \A r \in Runner : runs[r].phase \in {"idle", "reading", "applying", "over"}
    /\ begun \in 0..MaxRun

\* Whatever releases are run at once, fail, and are run again, what the database has
\* executed is the beginning of one directory's chain, each file once and in order, and
\* the ledger's digests are those of the bodies that ran (migrate.ts: the ledger records
\* what was applied, and nothing is applied on top of a ledger that disagrees).
SchemaIsOneChain ==
    /\ \E d \in Directory : \A i \in DOMAIN schema :
        /\ i \in DOMAIN d /\ schema[i] = [file |-> i, body |-> d[i]]
    /\ \A f \in 1..MaxFile : ledger[f] # "none" <=> f \in {schema[i].file : i \in DOMAIN schema}
    /\ \A i \in DOMAIN schema : ledger[schema[i].file] \in {schema[i].body, "unrecorded", "foreign"}

================================================================================
