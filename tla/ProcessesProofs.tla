----------------------------- MODULE ProcessesProofs -----------------------------
(***************************************************************************)
(* withTransaction keeps its promises in both processes, for every set of  *)
(* callers and clients and any number of sessions the server ends.         *)
(*                                                                         *)
(* As far as clients and transactions are concerned every step is one of   *)
(* two: Moves, a caller and the one slot it has or takes or leaves; and    *)
(* Quiet, which touches no borrowed client except to end its session.      *)
(* TxInv is kept by both.                                                  *)
(*                                                                         *)
(* At the end, the migration runner: for every set of runners and releases *)
(* the schema is one release's chain.                                      *)
(***************************************************************************)
EXTENDS Processes, Migrations, NaturalsInduction, WellFoundedInduction, TLAPS

HOLDING == {"begin", "body", "committing", "rollingback"}
OPENED == {"body", "committing", "rollingback"}

\* What is true of each transaction by itself: it has a client exactly in the phases that
\* need one, it is durable only once COMMIT was sent, and what its caller was told is so.
Fits(t) ==
    /\ t \in Transaction
    /\ t.client # Nobody <=> t.phase \in HOLDING
    /\ t.durable => t.phase \in {"committing", "settled"}
    /\ t.phase = "settled" =>
        /\ t.told = "ok" => t.durable
        /\ t.told = "error" => ~t.durable
        /\ t.told = "lost" => t.ended /\ (t.at = "committing" \/ ~t.durable)

TransactionsFit == \A p \in Caller : Fits(tx[p])
OutIsHeld == \A c \in Client : (conns[c].state = "out") <=> (\E p \in Caller : tx[p].client = c)
OneBorrower ==
    \A p, q \in Caller : tx[p].client = tx[q].client /\ tx[p].client # Nobody => p = q

\* A transaction is open in the session of the caller that runs it, until it commits.
OpenIsOurs ==
    \A c \in Client : conns[c].open # Nobody =>
        /\ tx[conns[c].open].client = c
        /\ tx[conns[c].open].phase \in OPENED
        /\ ~tx[conns[c].open].durable

\* A client whose socket was seen to close is not lent: its borrower was told at once.
OutIsQueryable == \A c \in Client : conns[c].state = "out" => conns[c].queryable

TxInv ==
    /\ TransactionsTypeOK
    /\ TransactionsFit /\ OutIsHeld /\ OneBorrower /\ OpenIsOurs /\ OutIsQueryable

\* The part that depends on neither the pool's state nor the number of cuts.
RowsInv ==
    /\ conns \in [Client -> ClientState] /\ tx \in [Caller -> Transaction]
    /\ TransactionsFit /\ OutIsHeld /\ OneBorrower /\ OpenIsOurs /\ OutIsQueryable

--------------------------------------------------------------------------------
(* What can happen to clients and transactions *)

\* Caller p, whose transaction becomes t, and slot c, in which r is left.
Moves(p, t, c, r) ==
    /\ tx[p].client \in {c, Nobody}
    /\ \A q \in Caller : q # p => tx[q].client # c
    /\ Fits(t) /\ t.client \in {c, Nobody}
    /\ r.state = "out" <=> t.client = c
    /\ r.state = "out" => r.queryable
    /\ r.open # Nobody => r.open = p /\ t.client = c /\ t.phase \in OPENED /\ ~t.durable
    /\ tx' = [tx EXCEPT ![p] = t]
    /\ conns' = [conns EXCEPT ![c] = r]

\* Sessions end and idle clients go; a caller without a client calls, fails or forgets.
Quiet ==
    /\ conns' \in [Client -> ClientState]
    /\ \A c \in Client :
        /\ (conns'[c].state = "out") <=> (conns[c].state = "out")
        /\ conns'[c].open \in {Nobody, conns[c].open}
        /\ conns'[c].state = "out" => conns'[c].queryable = conns[c].queryable
    /\ \/ tx' = tx
       \/ \E p \in Caller, t \in Transaction :
            /\ tx[p].client = Nobody /\ t.client = Nobody /\ Fits(t)
            /\ tx' = [tx EXCEPT ![p] = t]

Shapes ==
    \/ Quiet
    \/ \E p \in Caller, t \in Transaction, c \in Client, r \in ClientState : Moves(p, t, c, r)

\* A step of one caller with one slot keeps the relation between rows of callers and clients,
\* provided the two new rows agree with each other.
LEMMA MovesKeeps ==
  ASSUME RowsInv, NEW p \in Caller, NEW t \in Transaction, NEW c \in Client, NEW r \in ClientState,
         Moves(p, t, c, r)
  PROVE  RowsInv'
<1>1. conns' \in [Client -> ClientState] /\ tx' \in [Caller -> Transaction]
  BY DEF RowsInv, Moves
<1>2. tx'[p] = t /\ \A q \in Caller : q # p => tx'[q] = tx[q]
  BY DEF RowsInv, Moves
<1>3. conns'[c] = r /\ \A d \in Client : d # c => conns'[d] = conns[d]
  BY DEF RowsInv, Moves
<1>4. tx[p].client \in {c, Nobody} /\ t.client \in {c, Nobody} /\ Nobody \notin Client
  BY TransactionAssumption DEF Moves
<1>5. TransactionsFit'
  <2>1. \A q \in Caller : Fits(tx'[q])
    BY <1>2 DEF RowsInv, TransactionsFit, Moves
  <2> QED
    BY <2>1 DEF TransactionsFit, Fits
<1>6. OutIsHeld'
  <2> SUFFICES ASSUME NEW d \in Client
               PROVE  (conns'[d].state = "out") <=> (\E q \in Caller : tx'[q].client = d)
    BY DEF OutIsHeld
  <2>1. CASE d = c
    BY <2>1, <1>2, <1>3 DEF Moves
  <2>2. CASE d # c
    <3>1. tx[p].client # d /\ tx'[p].client # d
      BY <2>2, <1>2, <1>4
    <3>2. (\E q \in Caller : tx'[q].client = d) <=> (\E q \in Caller : tx[q].client = d)
      BY <3>1, <1>2
    <3> QED
      BY <2>2, <3>2, <1>3 DEF RowsInv, OutIsHeld
  <2> QED
    BY <2>1, <2>2
<1>7. OneBorrower'
  BY <1>2, <1>4 DEF RowsInv, OneBorrower, Moves
<1>8. OpenIsOurs'
  <2> SUFFICES ASSUME NEW d \in Client, conns'[d].open # Nobody
               PROVE  /\ tx'[conns'[d].open].client = d
                      /\ tx'[conns'[d].open].phase \in OPENED
                      /\ ~tx'[conns'[d].open].durable
    BY DEF OpenIsOurs
  <2>1. CASE d = c
    BY <2>1, <1>2, <1>3 DEF Moves
  <2>2. CASE d # c
    <3> DEFINE q == conns[d].open
    <3>1. conns'[d].open = q /\ q # Nobody /\ q \in Caller
      BY <2>2, <1>3 DEF RowsInv, ClientState
    <3>2. tx[q].client = d /\ tx[q].phase \in OPENED /\ ~tx[q].durable
      BY <3>1 DEF RowsInv, OpenIsOurs
    <3>3. q # p
      BY <2>2, <3>2, <1>4
    <3> QED
      BY <3>1, <3>2, <3>3, <1>2
  <2> QED
    BY <2>1, <2>2
<1>9. OutIsQueryable'
  BY <1>3 DEF RowsInv, OutIsQueryable, Moves
<1> QED
  BY <1>1, <1>5, <1>6, <1>7, <1>8, <1>9 DEF RowsInv

\* A step that leaves borrowers and borrowed clients together keeps that relation.
LEMMA QuietKeeps ==
  ASSUME RowsInv, Quiet
  PROVE  RowsInv'
<1>1. conns' \in [Client -> ClientState] /\ tx' \in [Caller -> Transaction]
  BY DEF RowsInv, Quiet
<1>2. \A q \in Caller : tx'[q].client = tx[q].client /\ Fits(tx'[q])
  BY DEF RowsInv, Quiet, TransactionsFit
<1>3. \A q \in Caller : tx[q].client # Nobody => tx'[q] = tx[q]
  BY DEF RowsInv, Quiet
<1>4. TransactionsFit'
  BY <1>2 DEF TransactionsFit, Fits
<1>5. OutIsHeld' /\ OneBorrower' /\ OutIsQueryable'
  <2>1. OutIsHeld'
    BY <1>2 DEF RowsInv, OutIsHeld, Quiet
  <2>2. OneBorrower'
    BY <1>2 DEF RowsInv, OneBorrower
  <2>3. OutIsQueryable'
    BY DEF RowsInv, OutIsQueryable, Quiet
  <2> QED
    BY <2>1, <2>2, <2>3
<1>6. OpenIsOurs'
  <2> SUFFICES ASSUME NEW d \in Client, conns'[d].open # Nobody
               PROVE  /\ tx'[conns'[d].open].client = d
                      /\ tx'[conns'[d].open].phase \in OPENED
                      /\ ~tx'[conns'[d].open].durable
    BY DEF OpenIsOurs
  <2> DEFINE q == conns[d].open
  <2>1. conns'[d].open = q /\ q # Nobody /\ q \in Caller
    BY DEF RowsInv, ClientState, Quiet
  <2>2. tx[q].client = d /\ tx[q].phase \in OPENED /\ ~tx[q].durable
    BY <2>1 DEF RowsInv, OpenIsOurs
  <2>3. tx'[q] = tx[q]
    BY <2>1, <2>2, <1>3, TransactionAssumption
  <2> QED
    BY <2>1, <2>2, <2>3
<1> QED
  BY <1>1, <1>4, <1>5, <1>6 DEF RowsInv

--------------------------------------------------------------------------------
(* Every step is one of the two *)

\* The slot of a caller that holds a client.
LEMMA HeldSlot ==
  ASSUME TxInv, NEW p \in Caller, tx[p].phase \in HOLDING
  PROVE  /\ tx[p].client \in Client
         /\ \A q \in Caller : q # p => tx[q].client # tx[p].client
         /\ Mine(p) \in ClientState
         /\ Mine(p).state = "out"
         /\ Mine(p).queryable
         /\ Mine(p).open \in {p, Nobody}
         /\ tx[p].durable => Mine(p).open = Nobody
<1>1. tx[p] \in Transaction /\ tx[p].client # Nobody
  BY DEF TxInv, TransactionsFit, Fits
<1>2. tx[p].client \in Client
  BY <1>1 DEF Transaction
<1>3. Mine(p) \in ClientState
  BY <1>2 DEF TxInv, TransactionsTypeOK, Mine
<1>4. Mine(p).state = "out" /\ Mine(p).queryable
  BY <1>2 DEF TxInv, OutIsHeld, OutIsQueryable, Mine
<1>5. \A q \in Caller : q # p => tx[q].client # tx[p].client
  BY <1>1 DEF TxInv, OneBorrower
<1>6. ASSUME Mine(p).open # Nobody
      PROVE  Mine(p).open = p /\ ~tx[p].durable
  <2> DEFINE q == Mine(p).open
  <2>1. q \in Caller
    BY <1>3, <1>6 DEF ClientState
  <2>2. tx[q].client = tx[p].client /\ ~tx[q].durable
    BY <1>2, <1>6 DEF TxInv, OpenIsOurs, Mine
  <2>3. q = p
    BY <1>5, <2>1, <2>2
  <2> QED
    BY <2>2, <2>3
<1> QED
  BY <1>2, <1>3, <1>4, <1>5, <1>6

\* A step of a caller that holds a client and keeps it.
LEMMA Holds ==
  ASSUME TxInv, NEW p \in Caller, tx[p].phase \in HOLDING,
         NEW phase \in OPENED, NEW durable \in BOOLEAN, NEW open \in {p, Nobody},
         durable => phase = "committing" /\ open = Nobody,
         tx' = [tx EXCEPT ![p] = [tx[p] EXCEPT !.phase = phase, !.durable = durable]],
         conns' = [conns EXCEPT ![tx[p].client] = [Mine(p) EXCEPT !.open = open]]
  PROVE  Shapes
<1> DEFINE t == [tx[p] EXCEPT !.phase = phase, !.durable = durable]
           r == [Mine(p) EXCEPT !.open = open]
<1>1. tx[p] \in Transaction /\ tx[p].client # Nobody
  BY DEF TxInv, TransactionsFit, Fits
<1>2. /\ t \in Transaction /\ t.client = tx[p].client /\ t.phase = phase
      /\ t.durable = durable
  BY <1>1 DEF Transaction, Phase, OPENED
<1>3. r \in ClientState /\ r.state = "out" /\ r.queryable /\ r.open = open
  BY HeldSlot DEF ClientState
<1>4. Fits(t)
  BY <1>1, <1>2 DEF Fits, OPENED, HOLDING
<1> HIDE DEF t, r
<1>5. tx' = [tx EXCEPT ![p] = t] /\ conns' = [conns EXCEPT ![tx[p].client] = r]
  BY DEF t, r
<1>6. Moves(p, t, tx[p].client, r)
  BY <1>2, <1>3, <1>4, <1>5, HeldSlot DEF Moves
<1> QED
  BY <1>2, <1>3, <1>6, HeldSlot DEF Shapes

\* settle, once it is known what the caller is told and that no transaction stays open.
LEMMA Settles ==
  ASSUME TxInv, NEW p \in Caller, tx[p].phase \in HOLDING,
         NEW client \in ClientState, NEW latched \in BOOLEAN, NEW told \in {"ok", "lost", "error"},
         settle(p, told, client, latched), latched \/ client.open = Nobody,
         told = "ok" => tx[p].durable, told = "error" => ~tx[p].durable,
         told = "lost" => ~client.alive
  PROVE  Shapes
<1> DEFINE t == [phase |-> "settled", client |-> Nobody, durable |-> tx[p].durable,
                 told |-> told, ended |-> ~client.alive, at |-> tx[p].phase]
           r == Released(client, latched)
<1>1. tx \in [Caller -> Transaction] /\ tx[p] \in Transaction
  BY DEF TxInv, TransactionsTypeOK
<1>2. r \in ClientState /\ r.state # "out" /\ r.open = Nobody
  BY TransactionAssumption DEF Released, NoClient, ClientState
<1>3. t \in Transaction
  BY <1>1 DEF Transaction, Phase, HOLDING, ClientState
<1>4. Fits(t)
  <2>1. tx[p].durable => tx[p].phase = "committing"
    BY DEF TxInv, TransactionsFit, Fits, HOLDING
  <2> QED
    BY <1>3, <2>1 DEF Fits, HOLDING
<1>5. tx' = [tx EXCEPT ![p] = t]
  <2>1. tx'[p] = t
    BY <1>1 DEF settle, Transaction
  <2> QED
    BY <1>1, <2>1 DEF settle
<1>6. conns' = [conns EXCEPT ![tx[p].client] = r]
  BY DEF settle
<1>7. t.client = Nobody /\ Nobody \notin Client
  BY TransactionAssumption
<1> HIDE DEF t, r
<1>8. Moves(p, t, tx[p].client, r)
  BY <1>2, <1>4, <1>5, <1>6, <1>7, HeldSlot DEF Moves
<1> QED
  BY <1>2, <1>3, <1>8, HeldSlot DEF Shapes

\* A caller that has no client, and still has none.
LEMMA Waits ==
  ASSUME TxInv, NEW p \in Caller, NEW t \in Transaction, tx[p].phase \notin HOLDING,
         Fits(t), t.client = Nobody, tx' = [tx EXCEPT ![p] = t], conns' = conns
  PROVE  Shapes
<1>1. tx[p].client = Nobody
  BY DEF TxInv, TransactionsFit, Fits
<1>2. Quiet
  BY <1>1 DEF Quiet, TxInv, TransactionsTypeOK
<1> QED
  BY <1>2 DEF Shapes

\* A caller is lent a client: an idle one or an empty slot, which nobody holds.
LEMMA ConnectShape ==
  ASSUME TxInv, NEW p \in Caller, NEW c \in Client, connect(p, c)
  PROVE  Shapes
<1> DEFINE t == [tx[p] EXCEPT !.phase = "begin", !.client = c]
           r == [state |-> "out", alive |-> conns[c].state = "none" \/ conns[c].alive,
                 queryable |-> TRUE, open |-> conns[c].open]
<1>1. tx[p] \in Transaction /\ tx[p].phase = "connecting" /\ conns[c] \in ClientState
  BY DEF TxInv, TransactionsTypeOK, connect
<1>2. tx[p].client = Nobody /\ ~tx[p].durable
  BY <1>1 DEF TxInv, TransactionsFit, Fits, HOLDING
<1>3. conns[c].state # "out" /\ \A q \in Caller : tx[q].client # c
  BY DEF connect, Offered, TxInv, OutIsHeld
<1>4. conns[c].open = Nobody
  BY <1>1, <1>3 DEF TxInv, OpenIsOurs, ClientState
<1>5. t \in Transaction /\ t.client = c /\ t.phase = "begin" /\ ~t.durable
  BY <1>1, <1>2 DEF Transaction, Phase
<1>6. Fits(t)
  BY <1>5, TransactionAssumption DEF Fits, HOLDING
<1>7. r \in ClientState /\ r.state = "out" /\ r.queryable /\ r.open = Nobody
  BY <1>1, <1>4 DEF ClientState
<1>8. tx' = [tx EXCEPT ![p] = t] /\ conns' = [conns EXCEPT ![c] = r]
  BY DEF connect
<1> HIDE DEF t, r
<1>9. Moves(p, t, c, r)
  BY <1>2, <1>3, <1>5, <1>6, <1>7, <1>8 DEF Moves
<1> QED
  BY <1>5, <1>7, <1>9 DEF Shapes

\* Every way a caller's own steps touch its transaction and its client.
LEMMA ProgressShapes ==
  ASSUME TxInv, NEW p \in Caller, Progress(p)
  PROVE  Shapes
<1>0. tx[p] \in Transaction /\ tx \in [Caller -> Transaction] /\ conns \in [Client -> ClientState]
  BY DEF TxInv, TransactionsTypeOK
<1>a. tx[p].durable => tx[p].phase \in {"committing", "settled"}
  BY DEF TxInv, TransactionsFit, Fits
<1>1. CASE \E c \in Client : connect(p, c)
  BY <1>1, ConnectShape
<1>2. CASE connectFails(p)
  <2> DEFINE t == [tx[p] EXCEPT !.phase = "settled", !.told = "error", !.at = "connecting"]
  <2>1. tx[p].phase = "connecting" /\ tx[p].client = Nobody /\ ~tx[p].durable
    BY <1>2 DEF connectFails, TxInv, TransactionsFit, Fits, HOLDING
  <2>2. t \in Transaction /\ t.client = Nobody /\ t.phase = "settled" /\ ~t.durable /\ t.told = "error"
    BY <1>0, <2>1 DEF Transaction, Phase
  <2>3. Fits(t) /\ tx[p].phase \notin HOLDING
    BY <2>1, <2>2 DEF Fits, HOLDING
  <2>4. tx' = [tx EXCEPT ![p] = t] /\ conns' = conns
    BY <1>2 DEF connectFails
  <2> HIDE DEF t
  <2> QED
    BY <2>2, <2>3, <2>4, Waits
<1>3. CASE beginReplies(p)
  <2>1. tx[p].phase = "begin" /\ tx[p].phase \in HOLDING /\ tx[p].durable = FALSE
    BY <1>0, <1>3, <1>a DEF beginReplies, HOLDING, Transaction
  <2>2. tx' = [tx EXCEPT ![p] = [tx[p] EXCEPT !.phase = "body", !.durable = FALSE]]
    <3>1. [tx[p] EXCEPT !.phase = "body"] = [tx[p] EXCEPT !.phase = "body", !.durable = FALSE]
      BY <1>0, <2>1 DEF Transaction
    <3> QED
      BY <1>3, <3>1 DEF beginReplies
  <2>3. conns' = [conns EXCEPT ![tx[p].client] = [Mine(p) EXCEPT !.open = p]]
    BY <1>3 DEF beginReplies, Mine
  <2> QED
    BY <2>1, <2>2, <2>3, Holds DEF OPENED
<1>4. CASE bodyReturns(p)
  <2>1. tx[p].phase = "body" /\ tx[p].phase \in HOLDING /\ tx[p].durable = FALSE
    BY <1>0, <1>4, <1>a DEF bodyReturns, HOLDING, Transaction
  <2>2. tx' = [tx EXCEPT ![p] = [tx[p] EXCEPT !.phase = "committing", !.durable = FALSE]]
    <3>1. [tx[p] EXCEPT !.phase = "committing"] = [tx[p] EXCEPT !.phase = "committing", !.durable = FALSE]
      BY <1>0, <2>1 DEF Transaction
    <3> QED
      BY <1>4, <3>1 DEF bodyReturns
  <2>3. conns' = [conns EXCEPT ![tx[p].client] = [Mine(p) EXCEPT !.open = Mine(p).open]]
    <3>1. Mine(p) = [Mine(p) EXCEPT !.open = Mine(p).open]
      BY <2>1, HeldSlot DEF ClientState
    <3>2. conns' = [conns EXCEPT ![tx[p].client] = Mine(p)]
      BY <1>0, <1>4, <2>1, HeldSlot DEF bodyReturns, Mine
    <3> QED
      BY <3>1, <3>2
  <2>4. Mine(p).open \in {p, Nobody}
    BY <2>1, HeldSlot
  <2> QED
    BY <2>1, <2>2, <2>3, <2>4, Holds DEF OPENED
<1>b. ASSUME tx[p].phase \in HOLDING, tx[p].durable = FALSE, NEW open \in {p, Nobody},
             tx' = [tx EXCEPT ![p].phase = "rollingback"],
             conns' = [conns EXCEPT ![tx[p].client] = [Mine(p) EXCEPT !.open = open]]
      PROVE  Shapes
  <2>1. [tx[p] EXCEPT !.phase = "rollingback"] = [tx[p] EXCEPT !.phase = "rollingback", !.durable = FALSE]
    BY <1>0, <1>b DEF Transaction
  <2>2. tx' = [tx EXCEPT ![p] = [tx[p] EXCEPT !.phase = "rollingback", !.durable = FALSE]]
    BY <1>b, <2>1
  <2> QED
    BY <1>b, <2>2, Holds DEF OPENED
<1>5. ASSUME NEW err \in {"statement", "errno"}, bodyThrows(p, err) PROVE Shapes
  <2>1. tx[p].phase = "body" /\ tx[p].phase \in HOLDING /\ tx[p].durable = FALSE
    BY <1>0, <1>5, <1>a DEF bodyThrows, HOLDING, Transaction
  <2>2. Mine(p).queryable /\ Mine(p) \in ClientState /\ Mine(p).open \in {p, Nobody}
    BY <2>1, HeldSlot
  <2>3. ~isLostOnThisClient(err, Mine(p), FALSE)
    BY <2>2 DEF isLostOnThisClient, isLostConnection, isSeveredSocketErrno, clientHasTakenConnectionError
  <2>4. tx' = [tx EXCEPT ![p].phase = "rollingback"] /\ conns' = [conns EXCEPT ![tx[p].client] = Mine(p)]
    BY <1>5, <2>3 DEF bodyThrows, catch
  <2>5. Mine(p) = [Mine(p) EXCEPT !.open = Mine(p).open]
    BY <2>2 DEF ClientState
  <2> QED
    BY <2>1, <2>2, <2>4, <2>5, <1>b
<1>6. CASE serverCommits(p)
  <2>1. tx[p].phase = "committing" /\ tx[p].phase \in HOLDING
    BY <1>6 DEF serverCommits, HOLDING
  <2>2. tx' = [tx EXCEPT ![p] = [tx[p] EXCEPT !.phase = "committing", !.durable = TRUE]]
    <3>1. [tx[p] EXCEPT !.durable = TRUE] = [tx[p] EXCEPT !.phase = "committing", !.durable = TRUE]
      BY <1>0, <2>1 DEF Transaction
    <3> QED
      BY <1>6, <3>1 DEF serverCommits
  <2>3. conns' = [conns EXCEPT ![tx[p].client] = [Mine(p) EXCEPT !.open = Nobody]]
    BY <1>6 DEF serverCommits, Mine
  <2> QED
    BY <2>1, <2>2, <2>3, Holds DEF OPENED
<1>7. CASE commitReplies(p)
  <2>1. tx[p].phase \in HOLDING /\ tx[p].durable /\ settle(p, "ok", Mine(p), FALSE)
    BY <1>7 DEF commitReplies, HOLDING
  <2> QED
    BY <2>1, HeldSlot, Settles
<1>8. CASE commitRefused(p)
  <2> DEFINE client == [Mine(p) EXCEPT !.open = Nobody]
  <2>1. tx[p].phase = "committing" /\ tx[p].phase \in HOLDING /\ Mine(p).open = p
    BY <1>8 DEF commitRefused, HOLDING
  <2>2. tx[p].durable = FALSE
    BY <1>0, <2>1, HeldSlot, TransactionAssumption DEF Transaction
  <2>3. ~isLostOnThisClient("statement", client, FALSE)
    BY DEF isLostOnThisClient, isLostConnection, isSeveredSocketErrno
  <2>4. tx' = [tx EXCEPT ![p].phase = "rollingback"] /\ conns' = [conns EXCEPT ![tx[p].client] = client]
    BY <1>8, <2>3 DEF commitRefused, catch
  <2> QED
    BY <2>1, <2>2, <2>4, <1>b
<1>9. CASE statementRejected(p)
  <2>1. tx[p].phase \in HOLDING /\ ~Mine(p).alive /\ catch(p, "sqlstate", Mine(p), FALSE)
    BY <1>9 DEF statementRejected, HOLDING
  <2>2. settle(p, "lost", Mine(p), TRUE)
    BY <2>1 DEF catch, isLostOnThisClient, isLostConnection
  <2> QED
    BY <2>1, <2>2, HeldSlot, Settles
<1>10. CASE rollbackReplies(p)
  <2> DEFINE client == [Mine(p) EXCEPT !.open = Nobody]
  <2>1. tx[p].phase \in HOLDING /\ ~tx[p].durable /\ settle(p, "error", client, FALSE)
    BY <1>10, <1>a DEF rollbackReplies, HOLDING
  <2>2. client \in ClientState /\ client.open = Nobody
    BY <2>1, HeldSlot DEF ClientState
  <2> HIDE DEF client
  <2> QED
    BY <2>1, <2>2, Settles
<1>11. CASE rollbackRejected(p)
  <2>1. tx[p].phase \in HOLDING /\ ~tx[p].durable /\ settle(p, "error", Mine(p), TRUE)
    BY <1>11, <1>a DEF rollbackRejected, HOLDING
  <2> QED
    BY <2>1, HeldSlot, Settles
<1>12. CASE socketCloses(p)
  <2> DEFINE client == [Mine(p) EXCEPT !.queryable = FALSE]
  <2>1. tx[p].phase \in HOLDING /\ ~Mine(p).alive
    BY <1>12 DEF socketCloses, HOLDING
  <2>2. client \in ClientState /\ ~client.alive /\ ~client.queryable
    BY <2>1, HeldSlot DEF ClientState
  <2>3. CASE tx[p].phase = "rollingback"
    <3>1. settle(p, "error", client, TRUE) /\ ~tx[p].durable
      BY <1>12, <2>3, <1>a DEF socketCloses
    <3> HIDE DEF client
    <3> QED
      BY <2>1, <2>2, <3>1, Settles
  <2>4. CASE tx[p].phase # "rollingback"
    <3>1. PICK err \in {"message", "errno", "event"} : catch(p, err, client, err = "event")
      BY <1>12, <2>4 DEF socketCloses
    <3> HIDE DEF client
    <3>2. isLostOnThisClient(err, client, err = "event") \/ err = "event"
      BY <2>2 DEF isLostOnThisClient, isLostConnection, isSeveredSocketErrno,
                  clientHasTakenConnectionError
    <3>3. settle(p, "lost", client, TRUE)
      BY <3>1, <3>2 DEF catch
    <3> QED
      BY <2>1, <2>2, <3>3, Settles
  <2> QED
    BY <2>3, <2>4
<1> QED
  BY <1>1, <1>2, <1>3, <1>4, <1>5, <1>6, <1>7, <1>8, <1>9, <1>10, <1>11, <1>12 DEF Progress

\* withTransaction begins, for a request or for a job.
LEMMA CallShape ==
  ASSUME TxInv, NEW p \in Caller, call(p)
  PROVE  Shapes
<1> DEFINE t == [NoTransaction EXCEPT !.phase = "connecting"]
<1>1. t \in Transaction /\ t.client = Nobody /\ t.phase = "connecting" /\ ~t.durable
  BY DEF Transaction, Phase, NoTransaction
<1>2. Fits(t)
  BY <1>1 DEF Fits, HOLDING
<1>3. tx[p].phase \notin HOLDING
  BY DEF call, InFlight, HOLDING
<1>4. tx' = [tx EXCEPT ![p] = t] /\ conns' = conns
  BY DEF call
<1> HIDE DEF t
<1> QED
  BY <1>1, <1>2, <1>3, <1>4, Waits

\* Sessions and idle clients come to their end, and the sweeper's outcome is taken note of.
LEMMA IdleShape ==
  ASSUME TxInv,
         \/ conns' = conns
         \/ closePool
         \/ \E c \in Client : dropIdle(c) \/ endSession(c),
         tx' = tx \/ (tx[Sweeper].phase = "settled" /\ tx' = [tx EXCEPT ![Sweeper] = NoTransaction])
  PROVE  Shapes
<1>1. conns \in [Client -> ClientState] /\ Sweeper \in Caller
  BY ProcessAssumption DEF TxInv, TransactionsTypeOK
<1>2. NoClient \in ClientState /\ NoClient.state = "none" /\ NoClient.open = Nobody
  BY DEF NoClient, ClientState
<1> DEFINE Rest ==
      /\ conns' \in [Client -> ClientState]
      /\ \A c \in Client :
          /\ (conns'[c].state = "out") <=> (conns[c].state = "out")
          /\ conns'[c].open \in {Nobody, conns[c].open}
          /\ conns'[c].state = "out" => conns'[c].queryable = conns[c].queryable
<1>3. Rest
  <2>1. CASE conns' = conns
    BY <1>1, <2>1
  <2>2. CASE closePool
    <3>1. \A c \in Client : conns'[c] = IF conns[c].state = "idle" THEN NoClient ELSE conns[c]
      BY <2>2 DEF closePool
    <3>2. conns' \in [Client -> ClientState]
      BY <1>1, <1>2, <2>2 DEF closePool
    <3> QED
      BY <1>2, <3>1, <3>2
  <2>3. ASSUME NEW c \in Client, dropIdle(c) PROVE Rest
    BY <1>1, <1>2, <2>3 DEF dropIdle
  <2>4. ASSUME NEW c \in Client, endSession(c) PROVE Rest
    <3> DEFINE r == [conns[c] EXCEPT !.alive = FALSE, !.open = Nobody]
    <3>1. /\ r \in ClientState /\ r.state = conns[c].state /\ r.open = Nobody
          /\ r.queryable = conns[c].queryable
      BY <1>1 DEF ClientState
    <3>2. conns' = [conns EXCEPT ![c] = r]
      BY <2>4 DEF endSession
    <3> HIDE DEF r
    <3> QED
      BY <1>1, <3>1, <3>2
  <2> QED
    BY <2>1, <2>2, <2>3, <2>4
<1> HIDE DEF Rest
<1>4. NoTransaction \in Transaction /\ NoTransaction.client = Nobody /\ Fits(NoTransaction)
  BY DEF NoTransaction, Transaction, Phase, Fits, HOLDING
<1>5. tx[Sweeper].phase = "settled" => tx[Sweeper].client = Nobody
  BY <1>1 DEF TxInv, TransactionsFit, Fits, HOLDING
<1>6. Quiet
  BY <1>1, <1>3, <1>4, <1>5 DEF Quiet, Rest
<1> QED
  BY <1>6 DEF Shapes

\* The API, the worker and the pool do nothing else to clients and transactions.
LEMMA StepShapes ==
  ASSUME TxInv, [Next]_vars
  PROVE  Shapes
<1>1. CASE UNCHANGED vars
  BY <1>1, IdleShape DEF vars, poolVars
<1>2. CASE Boot
  BY <1>2, IdleShape DEF Boot, listJobs, start, refuseToStart, poolVars
<1>3. CASE Running
  <2>1. CASE \E p \in Caller : Progress(p)
    BY <2>1, ProgressShapes
  <2>2. CASE \E c \in Client : endSession(c) \/ dropIdle(c)
    <3>1. tx' = tx
      BY <2>2 DEF endSession, dropIdle
    <3> QED
      BY <2>2, <3>1, IdleShape
  <2> QED
    BY <1>3, <2>1, <2>2 DEF Running, TransactionsStep
<1>4. CASE startJob
  BY <1>4, CallShape, ProcessAssumption DEF startJob
<1>5. CASE endJob
  <2>1. tx[Sweeper].phase = "settled" /\ tx' = [tx EXCEPT ![Sweeper] = NoTransaction]
    BY <1>5 DEF endJob
  <2>2. conns' = conns \/ closePool
    BY <1>5 DEF endJob, closing
  <2> QED
    BY <2>1, <2>2, IdleShape
<1>6. CASE workerStopped
  BY <1>6, IdleShape DEF workerStopped, closing
<1>7. CASE workerDone \/ apiClosed
  BY <1>7, IdleShape DEF workerDone, apiClosed, poolEnds
<1>8. CASE eventLoopDrains \/ tick \/ stop \/ shutdown \/ deadline
  BY <1>8, IdleShape DEF eventLoopDrains, tick, stop, shutdown, deadline, poolVars
<1>9. ASSUME NEW p \in Caller, request(p) PROVE Shapes
  BY <1>9, CallShape DEF request
<1>10. ASSUME NEW p \in Caller, hangUp(p) PROVE Shapes
  BY <1>10, IdleShape DEF hangUp, poolVars
<1>11. CASE serverCloses
  <2>1. tx' = tx /\ closePool
    BY <1>11 DEF serverCloses, closing
  <2> QED
    BY <2>1, IdleShape
<1> QED
  BY <1>1, <1>2, <1>3, <1>4, <1>5, <1>6, <1>7, <1>8, <1>9, <1>10, <1>11
  DEF Next, WorkerLoop, ApiCloses

\* The pool's own state and the count of ended sessions stay what they are.
LEMMA PoolStep ==
  ASSUME TxInv, [Next]_vars
  PROVE  pool' \in {"none", "open", "ending"} /\ cuts' \in 0..MaxCut
<1>0. pool \in {"none", "open", "ending"} /\ cuts \in 0..MaxCut /\ MaxCut \in Nat
  BY TransactionAssumption DEF TxInv, TransactionsTypeOK
<1>1. CASE UNCHANGED vars
  BY <1>0, <1>1 DEF vars, poolVars
<1>2. CASE Boot
  BY <1>0, <1>2 DEF Boot, listJobs, start, refuseToStart, poolVars
<1>3. CASE Running
  <2>1. ASSUME NEW p \in Caller, Progress(p) PROVE pool' = pool /\ cuts' = cuts
    BY <2>1 DEF Progress, connect, connectFails, beginReplies, bodyReturns, bodyThrows,
        serverCommits, commitReplies, commitRefused, statementRejected, rollbackReplies,
        rollbackRejected, socketCloses, catch, settle
  <2>2. ASSUME NEW c \in Client, endSession(c) \/ dropIdle(c)
        PROVE  pool' = pool /\ (cuts' = cuts \/ (cuts < MaxCut /\ cuts' = cuts + 1))
    BY <2>2 DEF endSession, dropIdle
  <2> QED
    BY <1>0, <1>3, <2>1, <2>2 DEF Running, TransactionsStep
<1>4. CASE startJob \/ \E p \in Caller : request(p)
  BY <1>0, <1>4 DEF startJob, request, call
<1>5. CASE endJob \/ workerStopped \/ serverCloses
  <2>1. cuts' = cuts /\ (pool' = pool \/ closePool)
    BY <1>5 DEF endJob, workerStopped, serverCloses, closing
  <2> QED
    BY <1>0, <2>1 DEF closePool
<1>6. CASE workerDone \/ apiClosed
  BY <1>0, <1>6 DEF workerDone, apiClosed, poolEnds
<1>7. CASE eventLoopDrains \/ tick \/ stop \/ shutdown \/ deadline \/ \E p \in Caller : hangUp(p)
  BY <1>0, <1>7 DEF eventLoopDrains, tick, stop, shutdown, deadline, hangUp, poolVars
<1> QED
  BY <1>1, <1>2, <1>3, <1>4, <1>5, <1>6, <1>7 DEF Next, WorkerLoop, ApiCloses

--------------------------------------------------------------------------------
\* The processes boot with no client and no transaction.
LEMMA TxInvInit ==
  ASSUME ProcessesInit
  PROVE  TxInv
<1>1. NoTransaction \in Transaction /\ NoTransaction.client = Nobody /\ Fits(NoTransaction)
  BY DEF NoTransaction, Transaction, Phase, Fits, HOLDING
<1>2. NoClient \in ClientState /\ NoClient.state = "none" /\ NoClient.open = Nobody
  BY DEF NoClient, ClientState
<1>3. \A p \in Caller : tx[p] = NoTransaction
  BY DEF ProcessesInit, TransactionsInit
<1>4. \A c \in Client : conns[c] = NoClient
  BY DEF ProcessesInit, TransactionsInit
<1>5. TransactionsTypeOK
  BY <1>1, <1>2, TransactionAssumption DEF ProcessesInit, TransactionsInit, TransactionsTypeOK
<1>6. OutIsHeld
  BY <1>1, <1>2, <1>3, <1>4, TransactionAssumption DEF OutIsHeld
<1>7. TransactionsFit /\ OneBorrower /\ OpenIsOurs /\ OutIsQueryable
  BY <1>1, <1>2, <1>3, <1>4 DEF TransactionsFit, OneBorrower, OpenIsOurs, OutIsQueryable
<1> QED
  BY <1>5, <1>6, <1>7 DEF TxInv

\* The inductive invariant of the pool and its callers: what each transaction knows of its
\* client is what the pool knows of it, whichever process runs, stops or exits.
THEOREM TxInvariant == Spec => []TxInv
<1>1. ProcessesInit => TxInv
  BY TxInvInit
<1>2. TxInv /\ [Next]_vars => TxInv'
  <2> SUFFICES ASSUME TxInv, [Next]_vars PROVE TxInv'
    OBVIOUS
  <2>1. RowsInv
    BY DEF TxInv, RowsInv, TransactionsTypeOK
  <2>2. RowsInv'
    BY <2>1, StepShapes, MovesKeeps, QuietKeeps DEF Shapes
  <2> QED
    BY <2>2, PoolStep DEF TxInv, RowsInv, TransactionsTypeOK
<1> QED
  BY <1>1, <1>2, PTL DEF Spec

\* Rows of the pool and of transactions keep their types.
THEOREM TransactionsTypeCorrect == Spec => []TransactionsTypeOK
<1>1. TxInv => TransactionsTypeOK
  BY DEF TxInv
<1> QED
  BY <1>1, TxInvariant, PTL

\* withTransaction is honest, for any number of callers, clients and lost sessions: callers
\* are told what happened to their writes, and no client is shared or goes back to the pool
\* with a transaction open in its session.
THEOREM TransactionsStayHonest == Spec => []TransactionsAreHonest
<1>1. TxInv => CallersAreTold
  BY DEF TxInv, TransactionsFit, Fits, CallersAreTold
<1>2. TxInv => ClientsAreExclusive
  BY DEF TxInv, OutIsHeld, OneBorrower, OpenIsOurs, OPENED, ClientsAreExclusive
<1> QED
  BY <1>1, <1>2, TxInvariant, PTL DEF TransactionsAreHonest

--------------------------------------------------------------------------------
(* What the exit status says *)

RolesTyped ==
    /\ role \in {"api", "worker"}
    /\ life \in {"booting", "up", "closing", "done", "exited"}
    /\ code \in {0, 1}
    /\ worker \in Worker
    /\ api \in Api

\* A pool that was forgotten, or never made, has no clients.
PoolGone == pool = "none" => \A c \in Client : conns[c].state = "none"

\* An API whose server has closed serves only clients that hung up, whatever follows.
ApiCloseOrder ==
    role = "api" =>
        /\ worker.job = 0 /\ worker.timer = "unset"
        /\ api.server \in {"closing", "closed"} => api.signals > 0
        /\ api.server = "closed" => \A p \in Caller : InFlight(p) => p \in api.gone
        /\ life = "closing" => api.server = "closed"
        /\ life # "done"
        /\ life = "exited" /\ code = 0 =>
            /\ api.server = "closed"
            /\ api.signals = 1 => \A p \in Caller : tx[p].client = Nobody

\* A single pass leaves main only after its last job, and keeps what failed.
SinglePass ==
    role = "worker" =>
        /\ life \in {"booting", "exited"} => worker.job = 0
        /\ life = "booting" => worker.timer = "unset"
        /\ worker.mode = "once" =>
            /\ worker.timer = "unset" /\ ~worker.stopped
            /\ life = "up" => worker.job > 0
            /\ life \in {"closing", "done"} => worker.job = 0
            /\ life \in {"done", "exited"} /\ code = 0 => worker.failed = {}

ExitInv == TxInv /\ RolesTyped /\ PoolGone /\ ApiCloseOrder /\ SinglePass

\* A caller's own steps are those of a transaction in flight, and touch no other.
LEMMA ProgressInFlight ==
  ASSUME TxInv, NEW p \in Caller, Progress(p)
  PROVE  InFlight(p) /\ \A q \in Caller : q # p => tx'[q] = tx[q]
<1>1. tx \in [Caller -> Transaction]
  BY DEF TxInv, TransactionsTypeOK
<1> QED
  BY <1>1 DEF Progress, connect, connectFails, beginReplies, bodyReturns, bodyThrows,
      serverCommits, commitReplies, commitRefused, statementRejected, rollbackReplies,
      rollbackRejected, socketCloses, catch, settle, InFlight

\* Without a pool nobody has a client, and the steps of callers touch no slot.
LEMMA NobodyHolds ==
  ASSUME TxInv, \A c \in Client : conns[c].state = "none"
  PROVE  \A p \in Caller : tx[p].client = Nobody /\ tx[p].phase \notin HOLDING
<1> SUFFICES ASSUME NEW p \in Caller, tx[p].client # Nobody \/ tx[p].phase \in HOLDING
             PROVE  FALSE
  OBVIOUS
<1>1. tx[p].phase \in HOLDING
  BY DEF TxInv, TransactionsFit, Fits
<1> QED
  BY <1>1, HeldSlot DEF Mine

\* No step takes a client from, or leaves one with, a pool that is not there.
LEMMA PoolGoneStep ==
  ASSUME TxInv, PoolGone, [Next]_vars
  PROVE  PoolGone'
<1> SUFFICES ASSUME pool' = "none" PROVE \A c \in Client : conns'[c].state = "none"
  BY DEF PoolGone
<1>0. conns \in [Client -> ClientState]
  BY DEF TxInv, TransactionsTypeOK
<1>1. CASE UNCHANGED <<pool, conns>>
  BY <1>1 DEF PoolGone
<1>2. CASE Running
  <2>1. ASSUME NEW p \in Caller, Progress(p) PROVE conns' = conns /\ pool = "none"
    <3>1. pool = "none"
      BY <2>1 DEF Progress, connect, connectFails, beginReplies, bodyReturns, bodyThrows,
        serverCommits, commitReplies, commitRefused, statementRejected, rollbackReplies,
        rollbackRejected, socketCloses, catch, settle
    <3>2. tx[p].phase \notin HOLDING
      BY <3>1, NobodyHolds DEF PoolGone
    <3> QED
      BY <2>1, <3>1, <3>2 DEF Progress, connect, connectFails, beginReplies, bodyReturns,
        bodyThrows, serverCommits, commitReplies, commitRefused, statementRejected,
        rollbackReplies, rollbackRejected, socketCloses, HOLDING
  <2>2. ASSUME NEW c \in Client, endSession(c) \/ dropIdle(c) PROVE FALSE
    BY <2>2 DEF endSession, dropIdle, PoolGone
  <2> QED
    BY <1>2, <2>1, <2>2 DEF Running, TransactionsStep, PoolGone
<1>3. CASE startJob \/ \E p \in Caller : request(p)
  BY <1>3 DEF startJob, request, call, PoolGone
<1>4. CASE closePool
  <2>1. pool = "none"
    BY <1>4 DEF closePool
  <2> QED
    BY <1>4, <2>1 DEF closePool, PoolGone
<1>5. CASE workerDone \/ apiClosed
  BY <1>5 DEF workerDone, apiClosed, poolEnds
<1>6. CASE endJob \/ workerStopped \/ serverCloses
  <2>1. UNCHANGED <<pool, conns>> \/ closePool
    BY <1>6 DEF endJob, workerStopped, serverCloses, closing
  <2> QED
    BY <2>1, <1>1, <1>4
<1>7. CASE Boot
  BY <1>7 DEF Boot, listJobs, start, refuseToStart, poolVars, PoolGone
<1>8. CASE eventLoopDrains \/ tick \/ stop \/ shutdown \/ deadline \/ \E p \in Caller : hangUp(p)
  BY <1>8, <1>1 DEF eventLoopDrains, tick, stop, shutdown, deadline, hangUp, poolVars
<1> QED
  BY <1>1, <1>2, <1>3, <1>5, <1>6, <1>7, <1>8 DEF Next, WorkerLoop, ApiCloses, vars, poolVars

\* The rows of the two processes keep their types.
LEMMA RolesStep ==
  ASSUME RolesTyped, [Next]_vars
  PROVE  RolesTyped'
<1> USE ProcessAssumption
<1>0. /\ role \in {"api", "worker"}
      /\ life \in {"booting", "up", "closing", "done", "exited"}
      /\ code \in {0, 1} /\ worker \in Worker /\ api \in Api
  BY DEF RolesTyped
<1>1. CASE UNCHANGED processVars
  BY <1>0, <1>1 DEF RolesTyped, processVars
<1>2. CASE Boot
  <2>1. worker' \in Worker
    BY <1>0, <1>2 DEF Boot, listJobs, start, refuseToStart, Worker
  <2>2. api' \in Api
    BY <1>0, <1>2 DEF Boot, listJobs, start, refuseToStart, Api
  <2> QED
    BY <1>0, <1>2, <2>1, <2>2 DEF Boot, listJobs, start, refuseToStart, exit, RolesTyped
<1>3. CASE endJob
  <2> DEFINE w == Caught(worker, tx[Sweeper].told # "ok")
  <2>1. w \in Worker /\ w.job = worker.job /\ w.job \in 1..LastJob
    BY <1>0, <1>3 DEF endJob, Caught, Worker
  <2>2. \/ w.job < LastJob /\ worker' = JobAfter(w)
        \/ worker' \in {[w EXCEPT !.job = 0], Passed(w)}
    BY <1>3 DEF endJob
  <2>3. w.job < LastJob => JobAfter(w) \in Worker
    BY <2>1 DEF JobAfter, Worker
  <2> HIDE DEF w
  <2>4. [w EXCEPT !.job = 0] \in Worker /\ Passed(w) \in Worker
    <3>1. [w EXCEPT !.job = 0] \in Worker
      BY <2>1 DEF Worker
    <3>2. ASSUME NEW v \in Worker
          PROVE  [v EXCEPT !.stopped = TRUE] \in Worker /\ [v EXCEPT !.timer = "pending"] \in Worker
      BY DEF Worker
    <3>3. /\ [w EXCEPT !.job = 0, !.stopped = TRUE] \in Worker
          /\ [w EXCEPT !.job = 0, !.timer = "pending"] \in Worker
      BY <3>1, <3>2
    <3> QED
      BY <3>1, <3>3 DEF Passed
  <2>5. worker' \in Worker
    BY <2>2, <2>3, <2>4
  <2>6. life' \in {life, "closing", "done"} /\ code' \in {0, 1}
    BY <1>0, <1>3 DEF endJob, closing, workerReturns
  <2> QED
    BY <1>0, <1>3, <2>5, <2>6 DEF endJob, RolesTyped
<1>4. CASE tick \/ stop
  <2>1. [worker EXCEPT !.timer = "fired", !.job = 1, !.failed = {}] \in Worker
    <3>1. ASSUME NEW v \in Worker
          PROVE  /\ [v EXCEPT !.timer = "fired"] \in Worker
                 /\ [v EXCEPT !.job = 1] \in Worker
                 /\ [v EXCEPT !.failed = {}] \in Worker
      BY ProcessAssumption DEF Worker
    <3> QED
      BY <1>0, <3>1
  <2>2. ASSUME NEW b \in BOOLEAN
        PROVE  [worker EXCEPT !.stopping = TRUE, !.timer = "unset", !.stopped = b] \in Worker
    BY <1>0 DEF Worker
  <2>3. worker' \in Worker
    BY <1>4, <2>1, <2>2 DEF tick, stop
  <2> QED
    BY <1>0, <1>4, <2>3 DEF tick, stop, RolesTyped
<1>5. CASE workerStopped \/ workerDone \/ eventLoopDrains
  BY <1>0, <1>5 DEF workerStopped, closing, workerReturns, workerDone, eventLoopDrains, exit, RolesTyped
<1>6. CASE \E p \in Caller : request(p) \/ hangUp(p)
  <2>1. api' \in Api
    BY <1>0, <1>6 DEF request, hangUp, Api
  <2> QED
    BY <1>0, <1>6, <2>1 DEF request, hangUp, RolesTyped
<1>7. CASE shutdown \/ serverCloses
  <2>1. ASSUME NEW n \in 0..2, NEW x \in {"none", "listening", "closing", "closed"}
        PROVE  [api EXCEPT !.signals = n, !.server = x] \in Api /\ [api EXCEPT !.server = x] \in Api
    BY <1>0 DEF Api
  <2>2. api.signals \in 0..2 /\ api.server \in {"none", "listening", "closing", "closed"}
    BY <1>0 DEF Api
  <2>3. ASSUME shutdown PROVE api' \in Api
    <3>1. api.signals + 1 \in 0..2
      BY <2>2, <2>3 DEF shutdown
    <3>2. api' = [api EXCEPT !.signals = api.signals + 1,
                             !.server = IF api.server = "listening" THEN "closing" ELSE api.server]
      BY <2>3 DEF shutdown
    <3> QED
      BY <2>1, <2>2, <3>1, <3>2
  <2>4. api' \in Api
    BY <1>7, <2>1, <2>3 DEF serverCloses
  <2> QED
    BY <1>0, <1>7, <2>4 DEF shutdown, serverCloses, closing, exit, RolesTyped
<1>8. CASE apiClosed \/ deadline
  BY <1>0, <1>8 DEF apiClosed, deadline, exit, RolesTyped
<1> QED
  BY <1>1, <1>2, <1>3, <1>4, <1>5, <1>6, <1>7, <1>8
  DEF Next, Running, WorkerLoop, startJob, ApiCloses, vars

\* No transaction begins, and no client takes its hang-up back, once the server has closed.
LEMMA ApiStep ==
  ASSUME ExitInv, [Next]_vars
  PROVE  ApiCloseOrder'
<1> SUFFICES ASSUME role' = "api" PROVE ApiCloseOrder'
  BY DEF ApiCloseOrder
<1>0. /\ role = "api" /\ role' = role /\ worker \in Worker /\ api \in Api
      /\ worker.job = 0 /\ worker.timer = "unset"
  <2>1. role' = role
    BY DEF Next, Boot, listJobs, start, refuseToStart, Running, WorkerLoop, startJob, endJob,
        workerStopped, workerDone, eventLoopDrains, tick, stop, request, hangUp, shutdown, ApiCloses,
        serverCloses, apiClosed, deadline, vars, processVars
  <2> QED
    BY <2>1 DEF ExitInv, RolesTyped, ApiCloseOrder
<1>1. CASE UNCHANGED vars
  BY <1>1 DEF ExitInv, ApiCloseOrder, vars, processVars, poolVars, InFlight
<1>2. CASE Boot
  <2>1. CASE \E posture \in Posture, production \in BOOLEAN : refuseToStart(posture, production)
    BY <1>0, <2>1 DEF ExitInv, ApiCloseOrder, refuseToStart, exit, poolVars, InFlight
  <2>2. CASE \E posture \in Posture, production \in BOOLEAN : start(posture, production)
    <3>1. api'.server = "listening" /\ api'.signals = api.signals /\ life' = "up" /\ worker' = worker
      BY <1>0, <2>2 DEF start, Api
    <3> QED
      BY <1>0, <3>1 DEF ApiCloseOrder
  <2> QED
    BY <1>0, <1>2, <2>1, <2>2 DEF Boot, listJobs
<1>3. CASE Running
  <2>1. \A q \in Caller : InFlight(q)' => InFlight(q)
    <3>1. CASE \E p \in Caller : Progress(p)
      <4>1. PICK p \in Caller : Progress(p)
        BY <3>1
      <4> QED
        BY <4>1, ProgressInFlight DEF ExitInv, InFlight
    <3>2. CASE \E c \in Client : endSession(c) \/ dropIdle(c)
      BY <3>2 DEF endSession, dropIdle, InFlight
    <3> QED
      BY <1>3, <3>1, <3>2 DEF Running, TransactionsStep
  <2> QED
    BY <1>3, <2>1 DEF Running, ExitInv, ApiCloseOrder, processVars
<1>4. ASSUME NEW p \in Caller, request(p) PROVE ApiCloseOrder'
  <2>1. api'.server = "listening" /\ life' = life /\ life # "exited" /\ worker' = worker
    BY <1>0, <1>4 DEF request, Api
  <2> QED
    BY <1>0, <2>1, <1>4 DEF request, ExitInv, ApiCloseOrder
<1>5. ASSUME NEW p \in Caller, hangUp(p) PROVE ApiCloseOrder'
  <2>1. /\ api'.server = api.server /\ api'.signals = api.signals /\ api'.gone = api.gone \cup {p}
        /\ life' = life /\ life # "exited" /\ worker' = worker /\ tx' = tx
    BY <1>0, <1>5 DEF hangUp, Api, poolVars
  <2> QED
    BY <1>0, <2>1, <1>5 DEF ExitInv, ApiCloseOrder, InFlight
<1>6. CASE shutdown
  <2>1. /\ api'.server = (IF api.server = "listening" THEN "closing" ELSE api.server)
        /\ api'.signals = api.signals + 1 /\ api'.gone = api.gone /\ api.signals \in 0..2
        /\ worker' = worker /\ tx' = tx
    BY <1>0, <1>6 DEF shutdown, Api, poolVars
  <2>2. IF api.server = "closed" THEN life' = "exited" ELSE life' = life /\ life # "exited"
    BY <1>6 DEF shutdown, exit
  <2> QED
    BY <1>0, <2>1, <2>2 DEF ExitInv, ApiCloseOrder, InFlight
<1>7. CASE serverCloses
  <2>1. /\ api'.server = "closed" /\ api'.signals = api.signals /\ api'.gone = api.gone
        /\ api.signals \in 0..2 /\ worker' = worker /\ tx' = tx /\ life' \in {"closing", "exited"}
    BY <1>0, <1>7 DEF serverCloses, closing, exit, Api
  <2>2. \A p \in Caller : InFlight(p)' => p \in api'.gone
    BY <1>7, <2>1 DEF serverCloses, Served, InFlight
  <2>3. life' = "exited" /\ api.signals = 1 => \A p \in Caller : tx'[p].client = Nobody
    <3>1. life' = "exited" /\ api.signals = 1 => pool = "none"
      BY <1>7 DEF serverCloses, closing
    <3> QED
      BY <2>1, <3>1, NobodyHolds DEF ExitInv, PoolGone
  <2>4. api.signals > 0
    BY <1>0, <1>7 DEF serverCloses, ExitInv, ApiCloseOrder
  <2> QED
    BY <1>0, <2>1, <2>2, <2>3, <2>4 DEF ApiCloseOrder
<1>8. CASE apiClosed
  <2>1. /\ api' = api /\ worker' = worker /\ tx' = tx /\ life' = "exited" /\ life = "closing"
        /\ \A p \in Caller : tx[p].client = Nobody
    BY <1>8, NobodyHolds DEF apiClosed, poolEnds, exit, ExitInv
  <2> QED
    BY <1>0, <2>1 DEF ExitInv, ApiCloseOrder, InFlight
<1>9. CASE deadline
  BY <1>0, <1>9 DEF deadline, exit, poolVars, ExitInv, ApiCloseOrder, InFlight
<1> QED
  BY <1>0, <1>1, <1>2, <1>3, <1>4, <1>5, <1>6, <1>7, <1>8, <1>9
  DEF Next, WorkerLoop, startJob, endJob, workerStopped, workerDone, eventLoopDrains, tick, stop, ApiCloses

\* A single pass goes from job to job and ends with what failed on its record.
LEMMA WorkerStep ==
  ASSUME ExitInv, [Next]_vars
  PROVE  SinglePass'
<1> SUFFICES ASSUME role' = "worker" PROVE SinglePass'
  BY DEF SinglePass
<1> USE ProcessAssumption
<1>0. role = "worker" /\ role' = role /\ worker \in Worker
  <2>1. role' = role
    BY DEF Next, Boot, listJobs, start, refuseToStart, Running, WorkerLoop, startJob, endJob,
        workerStopped, workerDone, eventLoopDrains, tick, stop, request, hangUp, shutdown, ApiCloses,
        serverCloses, apiClosed, deadline, vars, processVars
  <2> QED
    BY <2>1 DEF ExitInv, RolesTyped
<1>a. SinglePass
  BY DEF ExitInv
<1>1. CASE UNCHANGED <<life, code, worker>>
  BY <1>0, <1>1, <1>a DEF SinglePass
<1>2. CASE Boot
  <2>1. CASE listJobs
    BY <1>0, <1>a, <2>1 DEF listJobs, exit, SinglePass
  <2>2. CASE \E posture \in Posture, production \in BOOLEAN : refuseToStart(posture, production)
    BY <1>0, <1>a, <2>2 DEF refuseToStart, exit, SinglePass
  <2>3. CASE \E posture \in Posture, production \in BOOLEAN : start(posture, production)
    <3>1. /\ worker'.job = 1 /\ worker'.mode = worker.mode /\ worker'.timer = worker.timer
          /\ worker'.stopped = worker.stopped /\ life' = "up"
      BY <1>0, <2>3 DEF start, Worker
    <3> QED
      BY <1>0, <1>a, <3>1 DEF SinglePass
  <2> QED
    BY <1>2, <2>1, <2>2, <2>3 DEF Boot
<1>3. CASE endJob
  <2> DEFINE w == Caught(worker, tx[Sweeper].told # "ok")
  <2>1. /\ w \in Worker /\ w.job = worker.job /\ w.job \in 1..LastJob /\ w.mode = worker.mode
        /\ w.timer = worker.timer /\ w.stopped = worker.stopped
    BY <1>0, <1>3 DEF endJob, Caught, Worker
  <2>2. \/ w.job < LastJob /\ worker' = JobAfter(w) /\ life' = life /\ code' = code
        \/ /\ w.mode = "once" /\ worker' = [w EXCEPT !.job = 0]
           /\ \/ life' = "closing" /\ code' = code
              \/ life' = "done" /\ code' = (IF w.failed # {} THEN 1 ELSE 0)
        \/ w.mode # "once" /\ worker' = Passed(w) /\ life' = life /\ code' = code
    BY <1>3 DEF endJob, closing, workerReturns
  <2> HIDE DEF w
  <2>3. ASSUME w.job < LastJob, worker' = JobAfter(w), life' = life, code' = code PROVE SinglePass'
    <3>1. /\ worker'.job = w.job + 1 /\ worker'.mode = w.mode /\ worker'.timer = w.timer
          /\ worker'.stopped = w.stopped /\ worker'.failed = w.failed
      BY <2>1, <2>3 DEF JobAfter, Worker
    <3>2. worker.job > 0
      BY <2>1
    <3> QED
      BY <1>0, <1>a, <2>1, <2>3, <3>1, <3>2 DEF SinglePass
  <2>4. ASSUME w.mode = "once", worker' = [w EXCEPT !.job = 0],
               \/ life' = "closing" /\ code' = code
               \/ life' = "done" /\ code' = (IF w.failed # {} THEN 1 ELSE 0)
        PROVE  SinglePass'
    <3>1. /\ worker'.job = 0 /\ worker'.mode = w.mode /\ worker'.timer = w.timer
          /\ worker'.stopped = w.stopped /\ worker'.failed = w.failed
      BY <2>1, <2>4 DEF Worker
    <3> QED
      BY <1>0, <1>a, <2>1, <2>4, <3>1 DEF SinglePass
  <2>5. ASSUME w.mode # "once", worker' = Passed(w), life' = life, code' = code PROVE SinglePass'
    <3>1. worker'.mode = w.mode /\ worker'.job = 0
      BY <2>1, <2>5 DEF Passed, Worker
    <3> QED
      BY <1>0, <1>a, <2>1, <2>5, <3>1 DEF SinglePass
  <2> QED
    BY <2>2, <2>3, <2>4, <2>5
<1>4. CASE tick
  <2>1. worker'.mode = worker.mode /\ worker.timer = "pending" /\ life' = life /\ life # "exited"
    BY <1>0, <1>4 DEF tick, Worker
  <2>2. life # "booting" /\ worker.mode # "once"
    BY <1>0, <1>a, <2>1 DEF SinglePass
  <2> QED
    BY <1>0, <2>1, <2>2 DEF SinglePass
<1>5. CASE stop
  <2>1. worker'.mode = "periodic" /\ life' = "up"
    BY <1>0, <1>5 DEF stop, Worker
  <2> QED
    BY <1>0, <2>1 DEF SinglePass
<1>6. CASE workerStopped
  BY <1>0, <1>a, <1>6 DEF workerStopped, closing, workerReturns, SinglePass
<1>7. CASE workerDone
  BY <1>0, <1>a, <1>7 DEF workerDone, workerReturns, SinglePass
<1>8. CASE eventLoopDrains
  BY <1>0, <1>a, <1>8 DEF eventLoopDrains, exit, SinglePass
<1> QED
  BY <1>0, <1>1, <1>2, <1>3, <1>4, <1>5, <1>6, <1>7, <1>8
  DEF Next, Running, WorkerLoop, startJob, request, hangUp, shutdown, ApiCloses, serverCloses,
      apiClosed, deadline, vars, processVars

\* The exit status is a promise that is kept, for any number of callers, clients and jobs:
\* an API that exits 0 owes no waiting client an answer and, after one signal, has no
\* transaction open; a single pass that exits 0 ran every job to its end.
THEOREM ExitsStayHonest == Spec => []ExitsAreHonest
<1>1. ProcessesInit => ExitInv
  <2> SUFFICES ASSUME ProcessesInit PROVE ExitInv
    OBVIOUS
  <2>1. PICK m \in Mode : worker = NewWorker(m)
    BY DEF ProcessesInit, Mode
  <2>2. /\ worker \in Worker /\ worker.job = 0 /\ worker.timer = "unset" /\ worker.stopped = FALSE
    BY <2>1, ProcessAssumption DEF NewWorker, Worker, Mode
  <2>3. api \in Api /\ api.server = "none"
    <3>1. api \in [server : {"none"}, signals : {0}, gone : {{}}, stuck : BOOLEAN]
      BY DEF ProcessesInit
    <3>2. {0} \subseteq 0..2 /\ {{}} \subseteq SUBSET Caller
      OBVIOUS
    <3> QED
      BY <3>1, <3>2 DEF Api
  <2>4. RolesTyped /\ ApiCloseOrder /\ SinglePass
    BY <2>2, <2>3 DEF ProcessesInit, RolesTyped, ApiCloseOrder, SinglePass
  <2>5. PoolGone
    BY DEF ProcessesInit, TransactionsInit, PoolGone, NoClient
  <2> QED
    BY <2>4, <2>5, TxInvInit DEF ExitInv
<1>2. ExitInv /\ TxInv' /\ [Next]_vars => ExitInv'
  BY RolesStep, PoolGoneStep, ApiStep, WorkerStep DEF ExitInv
<1>3. ExitInv => ExitsAreHonest
  BY DEF ExitInv, ApiCloseOrder, SinglePass, ExitsAreHonest
<1> QED
  BY <1>1, <1>2, <1>3, TxInvariant, PTL DEF Spec

--------------------------------------------------------------------------------
(* The migration runner *)

Applied == [file : 1..MaxFile, body : Body]
Run == [phase : {"idle", "reading", "applying", "over"}, dir : Directory \cup {<<>>},
        canonical : CanonicalDirs \cup {<<>>}, read : [1..MaxFile -> Row], next : Nat]

RunnersTyped ==
    /\ ledger \in [1..MaxFile -> Row] /\ schema \in Seq(Applied)
    /\ runs \in [Runner -> Run] /\ begun \in 0..MaxRun
    /\ \A r \in Runner : runs[r].phase \in {"reading", "applying"} =>
            runs[r].dir \in Directory /\ runs[r].canonical \in CanonicalDirs
    /\ \A r \in Runner : runs[r].phase = "reading" => runs[r].next = 1

\* The ledger has a row for what was executed and for nothing else, with its digest, and no
\* file was executed twice.
LedgerRecords ==
    /\ \A f \in 1..MaxFile : ledger[f] # "none" <=> \E i \in DOMAIN schema : schema[i].file = f
    /\ \A i \in DOMAIN schema : ledger[schema[i].file] \in {schema[i].body, "unrecorded", "foreign"}
    /\ \A i, j \in DOMAIN schema : schema[i].file = schema[j].file => i = j

\* What run r knows: the rows it read are still there and are of the bodies it has, and a
\* file it has passed was either among them or applied by r itself.
Knows(r) ==
    \A f \in DOMAIN runs[r].dir :
        (runs[r].read[f] # "none" \/ f < runs[r].next) => ledger[f] = runs[r].dir[f]

RunnersKnow == \A r \in Runner : runs[r].phase = "applying" => Knows(r)

\* The files were executed in their order, and they are those of one directory.
OneChain ==
    /\ \A i \in DOMAIN schema : schema[i].file = i
    /\ \E d \in Directory : \A i \in DOMAIN schema : i \in DOMAIN d /\ schema[i].body = d[i]

\* The file that is applied next is one of its directory's that the run did not read.
LEMMA NextFileIsPending ==
    ASSUME RunnersTyped, NEW r \in Runner, runs[r].phase = "applying", Pending(r) # {}
    PROVE  /\ NextFile(r) \in Pending(r)
           /\ \A g \in Pending(r) : NextFile(r) <= g
<1>1. runs[r].dir \in Directory
  BY DEF RunnersTyped
<1>2. PICK n \in 0..MaxFile : DOMAIN runs[r].dir = 1..n
  BY <1>1, NumberingAssumption
<1>3. Pending(r) \subseteq Nat
  BY <1>2 DEF Pending
<1>4. \E f \in Pending(r) : \A g \in Pending(r) : f <= g
  <2> DEFINE Below == {ss \in Nat \X Nat : ss[1] < ss[2]}
  <2>1. IsWellFoundedOn(Below, Nat)
    BY NatLessThanWellFounded DEF OpToRel
  <2>2. PICK f \in Pending(r) : \A g \in Pending(r) : ~(<<g, f>> \in Below)
    <3> HIDE DEF Below
    <3> QED
      BY <2>1, <1>3, WFMin
  <2>3. \A g \in Pending(r) : f <= g
    <3> SUFFICES ASSUME NEW g \in Pending(r), g < f PROVE FALSE
      BY <1>3
    <3>1. <<g, f>> \in Nat \X Nat /\ <<g, f>>[1] < <<g, f>>[2]
      BY <1>3
    <3>2. <<g, f>> \in Below
      BY <3>1
    <3> QED
      BY <3>2, <2>2
  <2> QED
    BY <2>3
<1> QED
  BY <1>4 DEF NextFile

\* Every step leaves the ledger, the schema and the runs in their types.
LEMMA RunnersTypedStep ==
    ASSUME RunnersTyped, [MigrationsNext]_migrationVars
    PROVE  RunnersTyped'
<1> USE MigrationAssumption
<1>0. NoRun \in Run
  <2>1. [f \in 1..MaxFile |-> "none"] \in [1..MaxFile -> Row]
    BY DEF Row
  <2> QED
    BY <2>1 DEF NoRun, Run
<1>1. ASSUME NEW r \in Runner, NEW d \in Directory, NEW c \in CanonicalDirs, NEW named \in BOOLEAN,
             migrate(r, d, c, named)
      PROVE  RunnersTyped'
  <2>1. [NoRun EXCEPT !.phase = "reading", !.dir = d, !.canonical = c] \in Run
    BY <1>0 DEF Run
  <2>2. [NoRun EXCEPT !.phase = "over"] \in Run
    BY <1>0 DEF Run
  <2>3. [NoRun EXCEPT !.phase = "over"].phase = "over"
    BY DEF NoRun
  <2>4. /\ [NoRun EXCEPT !.phase = "reading", !.dir = d, !.canonical = c].dir = d
        /\ [NoRun EXCEPT !.phase = "reading", !.dir = d, !.canonical = c].canonical = c
        /\ [NoRun EXCEPT !.phase = "reading", !.dir = d, !.canonical = c].next = 1
    BY DEF NoRun
  <2> QED
    BY <1>1, <2>1, <2>2, <2>3, <2>4 DEF RunnersTyped, migrate
<1>2. ASSUME NEW r \in Runner, NEW run \in Run,
             run.phase \in {"reading", "applying"} => run.dir \in Directory /\ run.canonical \in CanonicalDirs,
             run.phase # "reading", runs' = [runs EXCEPT ![r] = run], UNCHANGED <<ledger, schema, begun>>
      PROVE  RunnersTyped'
  BY <1>2 DEF RunnersTyped
<1>3. ASSUME NEW r \in Runner, readLedger(r) PROVE RunnersTyped'
  <2>1. runs[r] \in Run /\ ledger \in [1..MaxFile -> Row] /\ runs[r].dir \in Directory
        /\ runs[r].canonical \in CanonicalDirs
    BY <1>3 DEF RunnersTyped, readLedger
  <2>2. [runs[r] EXCEPT !.phase = "over"] \in Run /\ [runs[r] EXCEPT !.phase = "over"].phase = "over"
    BY <2>1 DEF Run
  <2>3. /\ [runs[r] EXCEPT !.phase = "applying", !.read = ledger] \in Run
        /\ [runs[r] EXCEPT !.phase = "applying", !.read = ledger].phase = "applying"
        /\ [runs[r] EXCEPT !.phase = "applying", !.read = ledger].dir = runs[r].dir
        /\ [runs[r] EXCEPT !.phase = "applying", !.read = ledger].canonical = runs[r].canonical
    BY <2>1 DEF Run
  <2> QED
    BY <1>3, <1>2, <2>1, <2>2, <2>3 DEF readLedger
<1>4. ASSUME NEW r \in Runner, applyFails(r) \/ upToDate(r) PROVE RunnersTyped'
  <2>1. runs[r] \in Run /\ runs \in [Runner -> Run]
    BY DEF RunnersTyped
  <2>2. [runs[r] EXCEPT !.phase = "over"] \in Run /\ [runs[r] EXCEPT !.phase = "over"].phase = "over"
    BY <2>1 DEF Run
  <2>3. runs' = [runs EXCEPT ![r] = [runs[r] EXCEPT !.phase = "over"]]
    BY <1>4, <2>1 DEF applyFails, upToDate
  <2> QED
    BY <1>4, <1>2, <2>2, <2>3 DEF applyFails, upToDate
<1>5. ASSUME NEW r \in Runner, NEW told \in BOOLEAN, applyNext(r, told) PROVE RunnersTyped'
  <2>0. runs[r] \in Run /\ runs \in [Runner -> Run] /\ runs[r].phase = "applying"
        /\ runs[r].dir \in Directory /\ runs[r].canonical \in CanonicalDirs
    BY <1>5 DEF RunnersTyped, applyNext
  <2> DEFINE f == NextFile(r)
  <2>1. f \in DOMAIN runs[r].dir
    BY <1>5, NextFileIsPending DEF applyNext, Pending
  <2>2. f \in 1..MaxFile /\ runs[r].dir[f] \in Body
    BY <2>0, <2>1
  <2> DEFINE run == [runs[r] EXCEPT !.next = f + 1, !.phase = IF told THEN runs[r].phase ELSE "over"]
  <2>3. /\ run \in Run /\ run.dir \in Directory /\ run.canonical \in CanonicalDirs
        /\ run.phase # "reading"
    <3>1. f + 1 \in Nat
      BY <2>2
    <3>2. (IF told THEN runs[r].phase ELSE "over") \in {"applying", "over"}
      BY <2>0
    <3> HIDE DEF f
    <3>3. ASSUME NEW n \in Nat, NEW ph \in {"applying", "over"}
          PROVE  /\ [runs[r] EXCEPT !.next = n, !.phase = ph] \in Run
                 /\ [runs[r] EXCEPT !.next = n, !.phase = ph].phase = ph
                 /\ [runs[r] EXCEPT !.next = n, !.phase = ph].dir = runs[r].dir
                 /\ [runs[r] EXCEPT !.next = n, !.phase = ph].canonical = runs[r].canonical
      BY <2>0 DEF Run
    <3> QED
      BY <2>0, <3>1, <3>2, <3>3
  <2>4. runs' = [runs EXCEPT ![r] = run]
    BY <1>5, <2>0 DEF applyNext
  <2>5. ledger' \in [1..MaxFile -> Row]
    BY <1>5, <2>2 DEF applyNext, RunnersTyped, Row
  <2>6. schema' \in Seq(Applied)
    <3>1. [file |-> f, body |-> runs[r].dir[f]] \in Applied
      BY <2>2 DEF Applied
    <3>2. schema' = Append(schema, [file |-> f, body |-> runs[r].dir[f]])
      BY <1>5 DEF applyNext
    <3> QED
      BY <3>1, <3>2 DEF RunnersTyped
  <2>7. begun' = begun
    BY <1>5 DEF applyNext
  <2> HIDE DEF run, f
  <2> QED
    BY <2>0, <2>3, <2>4, <2>5, <2>6, <2>7 DEF RunnersTyped
<1>6. CASE UNCHANGED migrationVars
  BY <1>6 DEF migrationVars, RunnersTyped
<1> QED
  BY <1>1, <1>3, <1>4, <1>5, <1>6 DEF MigrationsNext

\* What applyNext does, in terms of the file: it has no row yet, and every earlier file of
\* the run's directory has the row of the run's own body.
LEMMA ApplyNextFacts ==
    ASSUME RunnersTyped, NEW r \in Runner, NEW told \in BOOLEAN, applyNext(r, told)
    PROVE  \E f \in DOMAIN runs[r].dir :
            /\ f \in 1..MaxFile /\ runs[r].dir \in Directory /\ runs[r].dir[f] \in Body
            /\ runs[r].phase = "applying"
            /\ ledger[f] = "none" /\ runs[r].read[f] = "none"
            /\ ledger' = [ledger EXCEPT ![f] = runs[r].dir[f]]
            /\ schema' = Append(schema, [file |-> f, body |-> runs[r].dir[f]])
            /\ \A q \in Runner : q # r => runs'[q] = runs[q]
            /\ runs'[r].dir = runs[r].dir /\ runs'[r].read = runs[r].read
            /\ runs'[r].next = f + 1
            /\ RunnersKnow => \A g \in DOMAIN runs[r].dir : g < f => ledger[g] = runs[r].dir[g]
<1> USE MigrationAssumption
<1> DEFINE f == NextFile(r)
<1>1. runs[r] \in Run /\ runs \in [Runner -> Run] /\ runs[r].dir \in Directory /\ runs[r].next \in Nat
  BY DEF RunnersTyped, applyNext, Run
<1>2. f \in Pending(r) /\ \A g \in Pending(r) : f <= g
  BY NextFileIsPending DEF applyNext
<1>3. f \in DOMAIN runs[r].dir /\ runs[r].read[f] = "none" /\ f >= runs[r].next
  BY <1>2 DEF Pending
<1>4. f \in 1..MaxFile /\ runs[r].dir[f] \in Body
  BY <1>1, <1>3
<1>5. /\ \A q \in Runner : q # r => runs'[q] = runs[q]
      /\ runs'[r].dir = runs[r].dir /\ runs'[r].read = runs[r].read
      /\ runs'[r].next = f + 1
  <2>1. runs' = [runs EXCEPT ![r] = [runs[r] EXCEPT !.next = f + 1,
                                         !.phase = IF told THEN runs[r].phase ELSE "over"]]
    BY <1>1 DEF applyNext
  <2> HIDE DEF f
  <2> QED
    BY <2>1, <1>1 DEF Run
<1>6. ASSUME RunnersKnow, NEW g \in DOMAIN runs[r].dir, g < f
      PROVE  ledger[g] = runs[r].dir[g]
  <2>1. g \in 1..MaxFile
    BY <1>1
  <2>2. g \notin Pending(r)
    BY <1>2, <1>4, <1>6, <2>1
  <2>3. runs[r].read[g] # "none" \/ g < runs[r].next
    BY <1>1, <2>1, <2>2 DEF Pending
  <2> QED
    BY <1>6, <2>3 DEF RunnersKnow, Knows, applyNext
<1>7. /\ ledger[f] = "none"
      /\ ledger' = [ledger EXCEPT ![f] = runs[r].dir[f]]
      /\ schema' = Append(schema, [file |-> f, body |-> runs[r].dir[f]])
      /\ runs[r].phase = "applying"
  BY DEF applyNext
<1> HIDE DEF f
<1> QED
  BY <1>1, <1>3, <1>4, <1>5, <1>6, <1>7

\* A new file at the end of the schema, for the statements about its elements.
LEMMA AppendedSchema ==
    ASSUME schema \in Seq(Applied), NEW e \in Applied, schema' = Append(schema, e)
    PROVE  /\ Len(schema) \in Nat /\ DOMAIN schema = 1..Len(schema)
           /\ DOMAIN schema' = 1..(Len(schema) + 1)
           /\ \A i \in DOMAIN schema : schema'[i] = schema[i] /\ schema[i] \in Applied
           /\ schema'[Len(schema) + 1] = e
OBVIOUS

\* The ledger and what was executed agree after every step.
LEMMA LedgerRecordsStep ==
    ASSUME RunnersTyped, LedgerRecords, [MigrationsNext]_migrationVars
    PROVE  LedgerRecords'
<1> USE MigrationAssumption
<1>1. ASSUME NEW r \in Runner, NEW told \in BOOLEAN, applyNext(r, told) PROVE LedgerRecords'
  <2>1. PICK f \in 1..MaxFile, b \in Body :
            /\ ledger[f] = "none" /\ ledger' = [ledger EXCEPT ![f] = b]
            /\ schema' = Append(schema, [file |-> f, body |-> b])
    BY <1>1, ApplyNextFacts
  <2>2. [file |-> f, body |-> b] \in Applied
    BY DEF Applied
  <2>3. schema \in Seq(Applied) /\ ledger \in [1..MaxFile -> Row]
    BY DEF RunnersTyped
  <2>4. /\ Len(schema) \in Nat /\ DOMAIN schema = 1..Len(schema)
        /\ DOMAIN schema' = 1..(Len(schema) + 1)
        /\ \A i \in DOMAIN schema : schema'[i] = schema[i] /\ schema[i] \in Applied
        /\ schema'[Len(schema) + 1] = [file |-> f, body |-> b]
    BY <2>1, <2>2, <2>3, AppendedSchema
  <2> DEFINE n == Len(schema) + 1
  <2>5. /\ n \in DOMAIN schema' /\ schema'[n].file = f /\ schema'[n].body = b
        /\ \A i \in DOMAIN schema' : i = n \/ i \in DOMAIN schema
        /\ \A i \in DOMAIN schema : i \in DOMAIN schema' /\ i # n
    BY <2>4
  <2>6. \A i \in DOMAIN schema : schema[i].file \in 1..MaxFile /\ schema[i].body \in Body
    BY <2>4 DEF Applied
  <2>7. \A i \in DOMAIN schema : schema[i].file # f
    BY <2>1, <2>6 DEF LedgerRecords
  <2>8. /\ ledger'[f] = b /\ \A g \in 1..MaxFile : g # f => ledger'[g] = ledger[g]
    BY <2>1, <2>3
  <2> HIDE DEF n
  <2>9. \A g \in 1..MaxFile : ledger'[g] # "none" <=> \E i \in DOMAIN schema' : schema'[i].file = g
    <3> SUFFICES ASSUME NEW g \in 1..MaxFile
                 PROVE  ledger'[g] # "none" <=> \E i \in DOMAIN schema' : schema'[i].file = g
      OBVIOUS
    <3>1. CASE g = f
      BY <3>1, <2>5, <2>8
    <3>2. CASE g # f
      BY <3>2, <2>4, <2>5, <2>8 DEF LedgerRecords
    <3> QED
      BY <3>1, <3>2
  <2>10. \A i \in DOMAIN schema' :
            ledger'[schema'[i].file] \in {schema'[i].body, "unrecorded", "foreign"}
    BY <2>4, <2>5, <2>6, <2>7, <2>8 DEF LedgerRecords
  <2>11. \A i, j \in DOMAIN schema' : schema'[i].file = schema'[j].file => i = j
    BY <2>4, <2>5, <2>7 DEF LedgerRecords
  <2> QED
    BY <2>9, <2>10, <2>11 DEF LedgerRecords
<1>2. ASSUME UNCHANGED <<ledger, schema>> PROVE LedgerRecords'
  BY <1>2 DEF LedgerRecords
<1> QED
  BY <1>1, <1>2 DEF MigrationsNext, migrationVars, migrate, readLedger, applyFails, upToDate

\* What an applying run knows stays so whatever the other runs do: a row is never rewritten.
LEMMA RunnersKnowStep ==
    ASSUME RunnersTyped, RunnersKnow, [MigrationsNext]_migrationVars
    PROVE  RunnersKnow'
<1> USE MigrationAssumption
<1>a. \A q \in Runner : runs[q] \in Run /\ (runs[q].phase = "applying" => runs[q].dir \in Directory)
  BY DEF RunnersTyped
<1>b. \A q \in Runner : runs[q].phase = "applying" =>
            \A g \in DOMAIN runs[q].dir : g \in 1..MaxFile /\ runs[q].dir[g] \in Body
  BY <1>a
<1>1. ASSUME NEW r \in Runner, NEW told \in BOOLEAN, applyNext(r, told) PROVE RunnersKnow'
  <2>1. PICK f \in DOMAIN runs[r].dir :
            /\ f \in 1..MaxFile /\ runs[r].phase = "applying" /\ ledger[f] = "none"
            /\ ledger' = [ledger EXCEPT ![f] = runs[r].dir[f]]
            /\ \A q \in Runner : q # r => runs'[q] = runs[q]
            /\ runs'[r].dir = runs[r].dir /\ runs'[r].read = runs[r].read
            /\ runs'[r].next = f + 1
            /\ \A g \in DOMAIN runs[r].dir : g < f => ledger[g] = runs[r].dir[g]
    BY <1>1, ApplyNextFacts
  <2>2. /\ ledger'[f] = runs[r].dir[f] /\ \A g \in 1..MaxFile : g # f => ledger'[g] = ledger[g]
    BY <2>1 DEF RunnersTyped
  <2>3. ASSUME NEW q \in Runner, q # r, runs'[q].phase = "applying" PROVE Knows(q)'
    <3> SUFFICES ASSUME NEW g \in DOMAIN runs[q].dir, runs[q].read[g] # "none" \/ g < runs[q].next
                 PROVE  ledger'[g] = runs[q].dir[g]
      BY <2>1, <2>3 DEF Knows
    <3>1. ledger[g] = runs[q].dir[g]
      BY <2>1, <2>3 DEF RunnersKnow, Knows
    <3> QED
      BY <3>1, <2>1, <2>2, <2>3, <1>b
  <2>4. Knows(r)'
    <3> SUFFICES ASSUME NEW g \in DOMAIN runs[r].dir, runs[r].read[g] # "none" \/ g < f + 1
                 PROVE  ledger'[g] = runs[r].dir[g]
      BY <2>1 DEF Knows
    <3>1. g \in 1..MaxFile
      BY <1>b, <2>1
    <3>2. CASE g = f
      BY <3>2, <2>2
    <3>3. CASE g # f /\ runs[r].read[g] # "none"
      BY <3>1, <3>3, <2>1, <2>2 DEF RunnersKnow, Knows
    <3>4. CASE g # f /\ g < f + 1
      BY <3>1, <3>4, <2>1, <2>2
    <3> QED
      BY <3>2, <3>3, <3>4
  <2> QED
    BY <2>3, <2>4 DEF RunnersKnow
<1>2. ASSUME NEW r \in Runner, readLedger(r) PROVE RunnersKnow'
  <2>1. \A q \in Runner : q # r => runs'[q] = runs[q]
    BY <1>2 DEF readLedger, RunnersTyped
  <2>2. ledger' = ledger
    BY <1>2 DEF readLedger
  <2>3. ASSUME runs'[r].phase = "applying" PROVE Knows(r)'
    <3>1. runs[r] \in Run /\ runs \in [Runner -> Run] /\ runs[r].phase = "reading" /\ runs[r].dir \in Directory
      BY <1>2 DEF RunnersTyped, readLedger
    <3>2. /\ ledgerRefusals(ledger, runs[r]) = {}
          /\ runs'[r] = [runs[r] EXCEPT !.phase = "applying", !.read = ledger]
      <4>1. CASE ledgerRefusals(ledger, runs[r]) # {}
        <5>1. runs'[r] = [runs[r] EXCEPT !.phase = "over"]
          BY <4>1, <1>2, <3>1 DEF readLedger
        <5> QED
          BY <5>1, <2>3, <3>1 DEF Run
      <4> QED
        BY <4>1, <1>2, <3>1 DEF readLedger
    <3>3. runs'[r].dir = runs[r].dir /\ runs'[r].read = ledger /\ runs'[r].next = runs[r].next
      BY <3>1, <3>2 DEF Run
    <3>4. \A g \in DOMAIN runs[r].dir : ledger[g] # "none" => ledger[g] = runs[r].dir[g]
      BY <3>1, <3>2 DEF ledgerRefusals, resolveBody
    <3>5. runs[r].next = 1
      BY <3>1 DEF RunnersTyped
    <3>6. \A g \in DOMAIN runs[r].dir : ~(g < 1)
      BY <3>1
    <3> QED
      BY <2>2, <3>3, <3>4, <3>5, <3>6 DEF Knows
  <2> QED
    BY <2>1, <2>2, <2>3 DEF RunnersKnow, Knows
<1>3. ASSUME NEW r \in Runner, ledger' = ledger, runs'[r].phase # "applying",
             \A q \in Runner : q # r => runs'[q] = runs[q]
      PROVE  RunnersKnow'
  BY <1>3 DEF RunnersKnow, Knows
<1>4. ASSUME NEW r \in Runner, applyFails(r) \/ upToDate(r) PROVE RunnersKnow'
  BY <1>3, <1>4, <1>a DEF applyFails, upToDate, RunnersTyped, Run
<1>5. ASSUME NEW r \in Runner, NEW d \in Directory, NEW c \in CanonicalDirs, NEW named \in BOOLEAN,
             migrate(r, d, c, named)
      PROVE  RunnersKnow'
  BY <1>3, <1>5 DEF migrate, RunnersTyped, NoRun
<1>6. CASE UNCHANGED migrationVars
  BY <1>6 DEF migrationVars, RunnersKnow, Knows
<1> QED
  BY <1>1, <1>2, <1>4, <1>5, <1>6 DEF MigrationsNext

\* The file that is applied is the one after the last, and what was executed before it is
\* the beginning of the same directory.
LEMMA OneChainStep ==
    ASSUME RunnersTyped, LedgerRecords, RunnersKnow, OneChain, [MigrationsNext]_migrationVars
    PROVE  OneChain'
<1> USE MigrationAssumption
<1>1. ASSUME NEW r \in Runner, NEW told \in BOOLEAN, applyNext(r, told) PROVE OneChain'
  <2>1. PICK f \in DOMAIN runs[r].dir :
            /\ f \in 1..MaxFile /\ runs[r].dir \in Directory /\ runs[r].dir[f] \in Body
            /\ ledger[f] = "none"
            /\ schema' = Append(schema, [file |-> f, body |-> runs[r].dir[f]])
            /\ \A g \in DOMAIN runs[r].dir : g < f => ledger[g] = runs[r].dir[g]
    BY <1>1, ApplyNextFacts
  <2> DEFINE d == runs[r].dir
             e == [file |-> f, body |-> d[f]]
  <2>2. schema \in Seq(Applied) /\ e \in Applied
    BY <2>1 DEF Applied, RunnersTyped
  <2>3. /\ Len(schema) \in Nat /\ DOMAIN schema = 1..Len(schema)
        /\ DOMAIN schema' = 1..(Len(schema) + 1)
        /\ \A i \in DOMAIN schema : schema'[i] = schema[i] /\ schema[i] \in Applied
        /\ schema'[Len(schema) + 1] = e
    BY <2>1, <2>2, AppendedSchema
  <2>4. PICK n \in 0..MaxFile : DOMAIN d = 1..n
    BY <2>1, NumberingAssumption
  <2>5. \A g \in 1..MaxFile : g < f => g \in DOMAIN d /\ ledger[g] = d[g] /\ d[g] \in Body
    BY <2>1, <2>4
  <2>6. \A g \in 1..MaxFile : g < f => g \in DOMAIN schema /\ schema[g].body = d[g]
    <3> SUFFICES ASSUME NEW g \in 1..MaxFile, g < f
                 PROVE  g \in DOMAIN schema /\ schema[g].body = d[g]
      OBVIOUS
    <3>1. ledger[g] = d[g] /\ d[g] \in Body /\ ledger[g] # "none"
      BY <2>5
    <3>2. PICK i \in DOMAIN schema : schema[i].file = g
      BY <3>1 DEF LedgerRecords
    <3>3. i = g
      BY <3>2 DEF OneChain
    <3>4. ledger[g] \in {schema[g].body, "unrecorded", "foreign"}
      BY <3>2, <3>3 DEF LedgerRecords
    <3> QED
      BY <3>1, <3>2, <3>3, <3>4
  <2>7. \A i \in DOMAIN schema : i < f
    <3> SUFFICES ASSUME NEW i \in DOMAIN schema, ~(i < f) PROVE FALSE
      OBVIOUS
    <3>1. f \in DOMAIN schema
      BY <2>1, <2>3
    <3>2. schema[f].file = f
      BY <3>1 DEF OneChain
    <3> QED
      BY <3>1, <3>2, <2>1 DEF LedgerRecords
  <2>8. f = Len(schema) + 1
    <3>1. f - 1 <= Len(schema)
      <4>1. CASE f = 1
        BY <4>1, <2>3
      <4>2. CASE f # 1
        <5>1. f - 1 \in 1..MaxFile /\ f - 1 < f
          BY <4>2, <2>1, MigrationAssumption
        <5> QED
          BY <5>1, <2>6, <2>3
      <4> QED
        BY <4>1, <4>2
    <3>2. Len(schema) < f
      BY <2>1, <2>3, <2>7
    <3> QED
      BY <3>1, <3>2, <2>1, <2>3
  <2>9. \A i \in DOMAIN schema' : schema'[i].file = i /\ i \in DOMAIN d /\ schema'[i].body = d[i]
    <3> SUFFICES ASSUME NEW i \in DOMAIN schema'
                 PROVE  schema'[i].file = i /\ i \in DOMAIN d /\ schema'[i].body = d[i]
      OBVIOUS
    <3>1. CASE i = f
      BY <3>1, <2>3, <2>8
    <3>2. CASE i # f
      <4>1. i \in DOMAIN schema /\ i \in 1..MaxFile /\ i < f
        BY <3>2, <2>1, <2>3, <2>8
      <4> QED
        BY <4>1, <2>3, <2>5, <2>6 DEF OneChain
    <3> QED
      BY <3>1, <3>2
  <2> QED
    BY <2>1, <2>9 DEF OneChain
<1>2. ASSUME schema' = schema PROVE OneChain'
  BY <1>2 DEF OneChain
<1> QED
  BY <1>1, <1>2 DEF MigrationsNext, migrationVars, migrate, readLedger, applyFails, upToDate

ChainInv == RunnersTyped /\ LedgerRecords /\ RunnersKnow /\ OneChain

\* A new database, and one whose first migration is older than its digest, satisfy all of it.
LEMMA ChainInvInit == ASSUME MigrationsInit PROVE ChainInv
<1> USE MigrationAssumption
<1>1. NoRun \in Run /\ NoRun.phase = "idle"
  BY DEF NoRun, Run, Row
<1>2. RunnersKnow
  BY <1>1 DEF MigrationsInit, RunnersKnow
<1>3. ASSUME schema = <<>>, ledger = [f \in 1..MaxFile |-> "none"] PROVE ChainInv
  <2>1. RunnersTyped
    BY <1>1, <1>3 DEF MigrationsInit, RunnersTyped, Row
  <2>2. DOMAIN schema = {}
    BY <1>3
  <2>3. LedgerRecords
    BY <1>3, <2>2 DEF LedgerRecords
  <2>4. OneChain
    BY <2>2 DEF OneChain
  <2> QED
    BY <1>2, <2>1, <2>3, <2>4 DEF ChainInv
<1>4. ASSUME NEW row \in {"unrecorded", "foreign"}, NEW d \in CanonicalDirs, 1 \in DOMAIN d,
             ledger = [f \in 1..MaxFile |-> IF f = 1 THEN row ELSE "none"],
             schema = <<[file |-> 1, body |-> d[1]]>>
      PROVE  ChainInv
  <2>1. d \in Directory /\ 1 \in 1..MaxFile /\ d[1] \in Body
    BY <1>4
  <2>2. /\ schema \in Seq(Applied) /\ DOMAIN schema = {1}
        /\ schema[1].file = 1 /\ schema[1].body = d[1]
    BY <1>4, <2>1 DEF Applied
  <2>3. RunnersTyped
    BY <1>1, <1>4, <2>2 DEF MigrationsInit, RunnersTyped, Row
  <2>4. LedgerRecords
    BY <1>4, <2>1, <2>2 DEF LedgerRecords
  <2>5. OneChain
    BY <1>4, <2>1, <2>2 DEF OneChain
  <2> QED
    BY <1>2, <2>3, <2>4, <2>5 DEF ChainInv
<1> QED
  BY <1>3, <1>4 DEF MigrationsInit

\* The migration ledger is true whoever runs: for every number of runners at once, of files
\* and of releases, a row is there exactly for what was executed and committed, with the
\* digest of the body that was, and no migration is executed twice (migrate.ts's primary
\* key and its transaction per file).
THEOREM LedgerIsTrue == MigrationsSpec => []LedgerRecords
<1>1. RunnersTyped /\ LedgerRecords /\ [MigrationsNext]_migrationVars => (RunnersTyped /\ LedgerRecords)'
  BY RunnersTypedStep, LedgerRecordsStep
<1>2. MigrationsInit => RunnersTyped /\ LedgerRecords
  BY ChainInvInit DEF ChainInv
<1> QED
  BY <1>1, <1>2, PTL DEF MigrationsSpec

\* Whatever releases run at once, fail, and run again, what the database has executed is
\* the beginning of one directory's chain, each file once and in order.
THEOREM SchemaStaysOneChain == MigrationsSpec => []SchemaIsOneChain
<1>1. ChainInv /\ [MigrationsNext]_migrationVars => ChainInv'
  BY RunnersTypedStep, LedgerRecordsStep, RunnersKnowStep, OneChainStep DEF ChainInv
<1>2. ChainInv => SchemaIsOneChain
  <2> SUFFICES ASSUME ChainInv PROVE SchemaIsOneChain
    OBVIOUS
  <2>1. PICK d \in Directory : \A i \in DOMAIN schema : i \in DOMAIN d /\ schema[i].body = d[i]
    BY DEF ChainInv, OneChain
  <2>2. \A i \in DOMAIN schema : schema[i] = [file |-> i, body |-> d[i]]
    <3>1. \A i \in DOMAIN schema : schema[i] \in Applied
      BY DEF ChainInv, RunnersTyped
    <3> QED
      BY <2>1, <3>1 DEF ChainInv, OneChain, Applied
  <2>3. \A f \in 1..MaxFile : ledger[f] # "none" <=> f \in {schema[i].file : i \in DOMAIN schema}
    BY DEF ChainInv, LedgerRecords
  <2> QED
    BY <2>1, <2>2, <2>3 DEF ChainInv, LedgerRecords, SchemaIsOneChain
<1> QED
  BY <1>1, <1>2, ChainInvInit, PTL DEF MigrationsSpec

================================================================================
