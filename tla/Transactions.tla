------------------------------ MODULE Transactions ------------------------------
(***************************************************************************)
(* The connection pool and withTransaction.                                *)
(*                                                                         *)
(* Source: packages/database/src/pool.ts.                                  *)
(*                                                                         *)
(* A caller borrows a client of the pool, sends BEGIN, runs its body and   *)
(* sends COMMIT.  The server may end the session at any moment: between    *)
(* statements, under one, or while COMMIT is in flight.  The process       *)
(* learns of it later, by the rejection of a statement that carries the    *)
(* server's SQLSTATE while the socket still looks usable, or by the socket *)
(* closing, which makes the client unqueryable, rejects what is in flight  *)
(* and raises the client's 'error' event.  The body may also fail by       *)
(* itself, with an errno of some other socket among the ways it can.       *)
(***************************************************************************)
EXTENDS Naturals

CONSTANTS
    Caller,  \* who runs transactions
    Client,  \* the slots of the pool (PGPOOL_MAX of them)
    Nobody,
    MaxCut   \* bound: how many sessions the server ends early

ASSUME TransactionAssumption ==
    /\ Nobody \notin Caller
    /\ Nobody \notin Client
    /\ MaxCut \in Nat

VARIABLES
    pool,   \* the module's pool: "none", "open" or "ending"
    conns,  \* conns[c]: the client in slot c and the server's session behind it
    tx,     \* tx[p]: how far p's withTransaction is, and what p was told
    cuts    \* sessions ended so far

poolVars == <<pool, conns, tx, cuts>>

--------------------------------------------------------------------------------
\* open is the caller whose transaction is open in the session.
ClientState == [state : {"none", "idle", "out"}, alive : BOOLEAN, queryable : BOOLEAN,
                open : Caller \cup {Nobody}]
NoClient == [state |-> "none", alive |-> FALSE, queryable |-> FALSE, open |-> Nobody]

\* durable: the server committed.  ended: its session was over when p was told.
\* at: the phase in which the transaction failed.
Phase == {"idle", "connecting", "begin", "body", "committing", "rollingback", "settled"}
Transaction == [phase : Phase, client : Client \cup {Nobody}, durable : BOOLEAN,
                told : {"none", "ok", "lost", "error"}, ended : BOOLEAN, at : Phase]
NoTransaction == [phase |-> "idle", client |-> Nobody, durable |-> FALSE,
                  told |-> "none", ended |-> FALSE, at |-> "idle"]

TransactionsTypeOK ==
    /\ pool \in {"none", "open", "ending"}
    /\ conns \in [Client -> ClientState]
    /\ tx \in [Caller -> Transaction]
    /\ cuts \in 0..MaxCut

TransactionsInit ==
    /\ pool = "none"
    /\ conns = [c \in Client |-> NoClient]
    /\ tx = [p \in Caller |-> NoTransaction]
    /\ cuts = 0

InFlight(p) == tx[p].phase \notin {"idle", "settled"}

--------------------------------------------------------------------------------
(* Borrowing a client *)

\* withTransaction begins: getPool makes the pool if there is none.
call(p) ==
    /\ ~InFlight(p)
    /\ tx' = [tx EXCEPT ![p] = [NoTransaction EXCEPT !.phase = "connecting"]]
    /\ pool' = IF pool = "none" THEN "open" ELSE pool
    /\ UNCHANGED <<conns, cuts>>

\* The pool lends an idle client before it opens another.
Offered ==
    LET idle == {c \in Client : conns[c].state = "idle"}
    IN  IF idle # {} THEN idle ELSE {c \in Client : conns[c].state = "none"}

connect(p, c) ==
    /\ tx[p].phase = "connecting"
    /\ pool = "open"
    /\ c \in Offered
    /\ conns' = [conns EXCEPT ![c] =
            [state |-> "out", alive |-> conns[c].state = "none" \/ conns[c].alive,
             queryable |-> TRUE, open |-> conns[c].open]]
    /\ tx' = [tx EXCEPT ![p].phase = "begin", ![p].client = c]
    /\ UNCHANGED <<pool, cuts>>

\* An ending pool, a wait past PGPOOL_CONNECT_MS, or a server that cannot be reached.
connectFails(p) ==
    /\ tx[p].phase = "connecting"
    /\ tx' = [tx EXCEPT ![p].phase = "settled", ![p].told = "error", ![p].at = "connecting"]
    /\ UNCHANGED <<pool, conns, cuts>>

--------------------------------------------------------------------------------
(* Telling a lost connection from any other error *)

\* What only a PostgreSQL backend or the driver can have said.
isLostConnection(err) == err \in {"sqlstate", "message"}

isSeveredSocketErrno(err) == err = "errno"

clientHasTakenConnectionError(client) == ~client.queryable

\* Mutant of isLostOnThisClient: an errno is taken for this client's on sight.
isLostOnThisClient_AnyErrno(err, client, latched) ==
    isLostConnection(err) \/ isSeveredSocketErrno(err)

isLostOnThisClient(err, client, latched) ==
    \/ isLostConnection(err)
    \/ isSeveredSocketErrno(err) /\ (latched \/ clientHasTakenConnectionError(client))

\* client.release(connectionLost): a client that took an error is destroyed, and so is
\* any other once the pool is ending.
Released(client, latched) ==
    IF latched \/ ~client.queryable \/ pool = "ending" THEN NoClient
    ELSE [client EXCEPT !.state = "idle"]

\* The caller is told and the client goes back.
settle(p, told, client, latched) ==
    /\ tx' = [tx EXCEPT ![p].phase = "settled", ![p].told = told, ![p].at = tx[p].phase,
                        ![p].client = Nobody, ![p].ended = ~client.alive]
    /\ conns' = [conns EXCEPT ![tx[p].client] = Released(client, latched)]
    /\ UNCHANGED <<pool, cuts>>

\* The catch block: a lost connection is reported as one; anything else is rolled back.
catch(p, err, client, latched) ==
    IF isLostOnThisClient(err, client, latched) \/ latched
    THEN settle(p, "lost", client, TRUE)
    ELSE /\ tx' = [tx EXCEPT ![p].phase = "rollingback"]
         /\ conns' = [conns EXCEPT ![tx[p].client] = client]
         /\ UNCHANGED <<pool, cuts>>

Mine(p) == conns[tx[p].client]

--------------------------------------------------------------------------------
(* The transaction *)

beginReplies(p) ==
    /\ tx[p].phase = "begin"
    /\ Mine(p).alive
    /\ tx' = [tx EXCEPT ![p].phase = "body"]
    /\ conns' = [conns EXCEPT ![tx[p].client].open = p]
    /\ UNCHANGED <<pool, cuts>>

bodyReturns(p) ==
    /\ tx[p].phase = "body"
    /\ tx' = [tx EXCEPT ![p].phase = "committing"]
    /\ UNCHANGED <<pool, conns, cuts>>

\* The body throws: a domain error, a statement's error, another socket's errno.
bodyThrows(p, err) ==
    /\ tx[p].phase = "body"
    /\ catch(p, err, Mine(p), FALSE)

\* The server flushes the commit record; the answer is still on its way.
serverCommits(p) ==
    /\ tx[p].phase = "committing"
    /\ Mine(p).alive /\ Mine(p).open = p
    /\ tx' = [tx EXCEPT ![p].durable = TRUE]
    /\ conns' = [conns EXCEPT ![tx[p].client].open = Nobody]
    /\ UNCHANGED <<pool, cuts>>

commitReplies(p) ==
    /\ tx[p].phase = "committing"
    /\ tx[p].durable
    /\ settle(p, "ok", Mine(p), FALSE)

\* COMMIT itself is refused (a deferred constraint): the server has rolled back.
commitRefused(p) ==
    /\ tx[p].phase = "committing"
    /\ Mine(p).alive /\ Mine(p).open = p
    /\ catch(p, "statement", [Mine(p) EXCEPT !.open = Nobody], FALSE)

\* The FATAL lands on the statement in flight, before the socket is seen to close.
statementRejected(p) ==
    /\ tx[p].phase \in {"begin", "body", "committing"}
    /\ ~Mine(p).alive
    /\ catch(p, "sqlstate", Mine(p), FALSE)

rollbackReplies(p) ==
    /\ tx[p].phase = "rollingback"
    /\ Mine(p).alive
    /\ settle(p, "error", [Mine(p) EXCEPT !.open = Nobody], FALSE)

\* A ROLLBACK into a lost session: the caller still hears of the first error.
rollbackRejected(p) ==
    /\ tx[p].phase = "rollingback"
    /\ ~Mine(p).alive
    /\ settle(p, "error", Mine(p), TRUE)

--------------------------------------------------------------------------------
(* The connection *)

\* The server ends a session: a shutdown, a failover, the idle-in-transaction bound.
endSession(c) ==
    /\ conns[c].state # "none" /\ conns[c].alive
    /\ cuts < MaxCut
    /\ conns' = [conns EXCEPT ![c].alive = FALSE, ![c].open = Nobody]
    /\ cuts' = cuts + 1
    /\ UNCHANGED <<pool, tx>>

\* The socket of a borrowed client closes: the rejection of what is in flight, with the
\* driver's words or with an errno, or the bare 'error' event when nothing is.
socketCloses(p) ==
    /\ tx[p].phase \in {"begin", "body", "committing", "rollingback"}
    /\ ~Mine(p).alive /\ Mine(p).queryable
    /\ LET client == [Mine(p) EXCEPT !.queryable = FALSE]
       IN  IF tx[p].phase = "rollingback" THEN settle(p, "error", client, TRUE)
           ELSE \E err \in {"message", "errno", "event"} : catch(p, err, client, err = "event")

\* The pool's own listener hears an idle client's error; an idle client is dropped
\* after PGPOOL_IDLE_MS.
dropIdle(c) ==
    /\ conns[c].state = "idle"
    /\ conns' = [conns EXCEPT ![c] = NoClient]
    /\ UNCHANGED <<pool, tx, cuts>>

\* pool.end(): idle clients go at once, borrowed ones when they come back.
closePool ==
    /\ pool' = IF pool = "open" THEN "ending" ELSE pool
    /\ conns' = [c \in Client |-> IF conns[c].state = "idle" THEN NoClient ELSE conns[c]]

\* await pool.end() is over: the module forgets the pool.
poolEnds ==
    /\ pool = "ending"
    /\ \A c \in Client : conns[c].state = "none"
    /\ pool' = "none"
    /\ UNCHANGED <<conns, tx, cuts>>

--------------------------------------------------------------------------------
\* What ends by itself: every statement is answered or rejected, and every body ends.
Progress(p) ==
    \/ \E c \in Client : connect(p, c)
    \/ connectFails(p)
    \/ beginReplies(p)
    \/ bodyReturns(p)
    \/ \E err \in {"statement", "errno"} : bodyThrows(p, err)
    \/ serverCommits(p)
    \/ commitReplies(p)
    \/ commitRefused(p)
    \/ statementRejected(p)
    \/ rollbackReplies(p)
    \/ rollbackRejected(p)
    \/ socketCloses(p)

TransactionsStep ==
    \/ \E p \in Caller : Progress(p)
    \/ \E c \in Client : endSession(c) \/ dropIdle(c)

--------------------------------------------------------------------------------
(* What withTransaction promises its callers (pool.ts, DatabaseConnectionLostError).   *)

\* Success is told only of what the server committed; an ordinary error, only of what it
\* did not; a lost connection, only when the session under the caller really ended, and
\* then nothing was committed unless COMMIT was in flight.
CallersAreTold ==
    \A p \in Caller : tx[p].phase = "settled" =>
        /\ tx[p].told = "ok" => tx[p].durable
        /\ tx[p].told = "error" => ~tx[p].durable
        /\ tx[p].told = "lost" => tx[p].ended /\ (tx[p].at = "committing" \/ ~tx[p].durable)

\* A borrowed client has one borrower, and a transaction is open only in the session of
\* the caller that runs it: none waits in the pool for the next one.
ClientsAreExclusive ==
    /\ \A c \in Client : (conns[c].state = "out") <=> (\E p \in Caller : tx[p].client = c)
    /\ \A p, q \in Caller : tx[p].client = tx[q].client /\ tx[p].client # Nobody => p = q
    /\ \A c \in Client : conns[c].open # Nobody =>
        /\ tx[conns[c].open].client = c
        /\ tx[conns[c].open].phase \in {"body", "committing", "rollingback"}

\* What withTransaction promises whatever moment the server ends the session: callers are
\* told what happened to their writes, and no client is shared or pooled mid-transaction.
TransactionsAreHonest ==
    /\ CallersAreTold
    /\ ClientsAreExclusive

================================================================================
