----------------------------- MODULE PgSession ------------------------------
(***************************************************************************)
(* One PostgreSQL connection (ryudb/server/pgwire.py, PGConn): the message *)
(* loop, the simple and the extended query protocol, the gate of aborted   *)
(* transactions, SQL cursors over the connection's cursor store, cancel    *)
(* requests from another connection and the cleanup of a lost one.         *)
(*                                                                         *)
(* A handler runs on the event loop up to the await of a statement it gave *)
(* to the worker; run is that statement, and the step that ends it covers  *)
(* the worker and the resumed handler.  Statements are records with the    *)
(* first keyword, kw, and what the handlers read of them; the engine's     *)
(* data is left out, its transaction is not.                               *)
(***************************************************************************)
EXTENDS PgCursor, FiniteSets

CONSTANTS
    Sql,         \* statements clients send; an empty one is not split off a query
    Preparable,  \* those they prepare
    Total,       \* rows of a SELECT's result
    Cursors,     \* cursor names
    Statements,  \* names of prepared statements
    Portals,     \* portal names
    MaxCursors,  \* max_cursors_per_conn
    MaxRows,     \* row limits clients put in Execute messages, 0 for none
    MaxBatch,    \* bound: statements in one simple query
    MaxDrift,    \* bound: how far negative counts move a cursor beyond its result
    Rebinds,     \* whether clients bind or close a portal they have described and not executed
    None

Control == {"BEGIN", "COMMIT", "ROLLBACK", "WRITE"}
Empty == [kw |-> "EMPTY"]
Select(q)        == [kw |-> "SELECT", q |-> q]
Plain(kw)        == [kw |-> kw]
Declare(c, s)    == [kw |-> "DECLARE", name |-> c, query |-> s]
Fetch(kw, d, n, c) == [kw |-> kw, dir |-> d, count |-> n, name |-> c]
CloseCursor(c)   == [kw |-> "CLOSE", name |-> c]
All == "ALL"
CursorKw == {"DECLARE", "FETCH", "MOVE", "CLOSE"}

ASSUME SqlAssumption ==
    \A s \in Sql \cup Preparable :
        \/ s.kw \in Control /\ s = Plain(s.kw)
        \/ s.kw = "SELECT" /\ s = Select(s.q)
        \/ /\ s.kw = "DECLARE" /\ s = Declare(s.name, s.query) /\ s.name \in Cursors
           /\ \/ s.query.kw \in Control /\ s.query = Plain(s.query.kw)
              \/ s.query.kw = "SELECT" /\ s.query = Select(s.query.q)
        \/ /\ s.kw \in {"FETCH", "MOVE"} /\ s = Fetch(s.kw, s.dir, s.count, s.name)
           /\ s.name \in Cursors /\ s.dir \in Directions
           /\ s.count \in Int \cup {NoCount} /\ (s.dir \notin Counted => s.count = NoCount)
           /\ (s.dir \in {"ABSOLUTE", "RELATIVE"} => s.count # NoCount)
        \/ s.kw = "CLOSE" /\ s = CloseCursor(s.name) /\ s.name \in Cursors \cup {All}
ASSUME PgBounds == /\ Total \in Nat /\ MaxCursors \in Nat /\ MaxRows \subseteq Nat
                   /\ MaxBatch \in Nat /\ MaxDrift \in Nat /\ Rebinds \in BOOLEAN

\* The statements the worker can be given: sent, prepared, or the query of a DECLARE.
Given == LET said == Sql \cup Preparable IN said \cup {s.query : s \in {d \in said : d.kw = "DECLARE"}}
Run == [sql : Given, for : {"query", "execute", "describe", "declare"}, portal : Portals \cup {None},
        name : Cursors \cup {None}, maxrows : MaxRows \cup {0}, cancel : BOOLEAN]
Txn == [poisoned : BOOLEAN]
\* A position, whether a negative count has moved it since DECLARE, and what becomes of it:
\* declared in the open transaction, in none, or left behind by a transaction that has ended.
Positions == (-MaxDrift)..(Total + MaxDrift)
Cursor == [offset : Positions, strayed : BOOLEAN, owner : {"txn", "none", "left"}]

ASSUME PgNames  == /\ All \notin Cursors /\ NoCount \notin Int
                   /\ None \notin Sql \cup Preparable \cup {Empty} \cup Txn \cup Cursor \cup Run

VARIABLES
    phase,    \* "startup", "idle" (reading the next message), "query", "extended" or "closed"
    txn,      \* None or [poisoned]: _ryudb_txn, and whether a statement of it was answered by an error
    failed,   \* the gate of an aborted transaction
    statements, \* [Statements -> None or statement]: what Parse stored
    portals,  \* [Portals -> None or statement]
    cache,    \* [Portals -> None or statement]: the SELECT whose result _portal_cache holds
    cursors,  \* [Cursors -> None or [offset, strayed, owner]]: positions, with their history
    store,    \* cursors the Server keeps for the connection, by the name they were opened for
    rest,     \* how many statements of the current simple query are still to run
    run,      \* None or [sql, for, portal, name, maxrows, cancel]: the statement the worker has
    sent,     \* frames sent for the current message: "E", "Z" and "A" for any other
    gone,     \* the client has disconnected
    paged,    \* history: rows each cursor delivered, None once it has not only gone forward
    spoiled   \* history: a transaction with a failed statement was committed

pgvars == <<phase, txn, failed, statements, portals, cache, cursors, store, rest, run, sent, gone, paged, spoiled>>

Init ==
    /\ phase = "startup" /\ txn = None /\ failed = FALSE
    /\ statements = [n \in Statements |-> None]
    /\ portals = [p \in Portals |-> None] /\ cache = [p \in Portals |-> None]
    /\ cursors = [c \in Cursors |-> None] /\ store = {}
    /\ rest = 0 /\ run = None /\ sent = <<>> /\ gone = FALSE
    /\ paged = [c \in Cursors |-> <<>>] /\ spoiled = FALSE

InTxn == txn # None
\* What was sent for the message being handled; one that is just read has no answer yet.
Frames == IF phase = "idle" THEN <<>> ELSE sent
\* _close_all_cursors
NoCursors == /\ cursors' = [c \in Cursors |-> None] /\ store' = {}
             /\ paged' = [c \in Cursors |-> <<>>]

----------------------------------------------------------------------------
(***************************************************************************)
(* Ends of a handler.                                                      *)
(***************************************************************************)

\* An exception reaches loop: an error, the gate closes if a transaction, x, is open, and a
\* ReadyForQuery; what was left of a simple query is not run.
RaiseIn(x) ==
    /\ sent' = Frames \o <<"E", "Z">>
    /\ failed' = (failed \/ x # None)
    /\ txn' = IF x # None THEN [poisoned |-> TRUE] ELSE None
    /\ run' = None /\ phase' = "idle"

Raise == RaiseIn(txn)

\* The handler ends, or goes on with the next statement of its simple query.
Goes(frames) ==
    /\ sent' = Frames \o frames
    /\ run' = None
    /\ phase' = IF phase = "query" THEN "query" ELSE "idle"

EmitResultKeepsGate(s) ==
    /\ Goes(<<"A">>)
    /\ failed' = failed
    /\ IF s.kw \in {"COMMIT", "ROLLBACK"} THEN NoCursors ELSE UNCHANGED <<cursors, store, paged>>

EmitResultKeepsCursors(s) ==
    /\ Goes(<<"A">>)
    /\ failed' = (failed /\ s.kw # "ROLLBACK")
    /\ IF s.kw = "ROLLBACK" THEN NoCursors ELSE UNCHANGED <<cursors, store, paged>>

\* _emit_result for statement s: its rows or its tag, then what ROLLBACK and COMMIT end.
EmitResult(s) ==
    /\ Goes(<<"A">>)
    /\ failed' = (failed /\ s.kw # "ROLLBACK")
    /\ IF s.kw \in {"COMMIT", "ROLLBACK"} THEN NoCursors ELSE UNCHANGED <<cursors, store, paged>>

BlockedButCommit(s) == failed /\ s.kw \notin {"COMMIT", "ROLLBACK"}

\* _gate: only ROLLBACK passes while the transaction is aborted.
Blocked(s) == failed /\ s.kw # "ROLLBACK"

----------------------------------------------------------------------------
(***************************************************************************)
(* Statements.                                                             *)
(***************************************************************************)

\* _exec: hand the statement to the worker and await it.
Submit(s, for, p, c, n) ==
    /\ phase' = IF phase = "idle" THEN "extended" ELSE phase
    /\ sent' = Frames
    /\ run' = [sql |-> s, for |-> for, portal |-> p, name |-> c, maxrows |-> n, cancel |-> FALSE]

FetchWindow(s, maxrows) == CursorWindow(s.dir, s.count, cursors[s.name].offset, Total, maxrows)
\* FORWARD and BACKWARD take a negative count as it is and go the other way, past the ends.
Negative(s) == s.dir \in {"FORWARD", "BACKWARD"} /\ s.count # NoCount /\ s.count < 0
\* A FETCH from before the first row, or back over rows beyond the last one, fails in pyarrow.
OutOfResult(s, w) == s.kw = "FETCH" /\ (w.start < 0 \/ (w.reverse /\ w.length > 0 /\ w.start + w.length > Total))

\* _fetch: one page, and the new position.
FetchPage(s, maxrows) ==
    LET w == FetchWindow(s, maxrows) IN
    /\ ~OutOfResult(s, w) /\ w.offset \in Positions
    /\ cursors' = [cursors EXCEPT ![s.name] =
                      [offset |-> w.offset, strayed |-> @.strayed \/ Negative(s), owner |-> @.owner]]
    /\ paged' = [paged EXCEPT ![s.name] =
                    IF @ = None \/ s.kw = "MOVE" \/ s.dir \notin {"NEXT", "FORWARD", "FORWARD_ALL"} \/ Negative(s)
                    THEN None ELSE @ \o Page(w)]
    /\ Goes(<<"A">>)

\* _close_stmt
CloseStmt(s) ==
    /\ cursors' = [c \in Cursors |-> IF s.name \in {c, All} THEN None ELSE cursors[c]]
    /\ store' = {c \in store : s.name \notin {c, All}}
    /\ paged' = [c \in Cursors |-> IF s.name \in {c, All} THEN <<>> ELSE paged[c]]
    /\ Goes(<<"A">>)

Known(c) == c # All => cursors[c] # None

\* _try_cursor_stmt: a cursor statement that names the wrong cursor raises; DECLARE runs its query.
CursorStmt(s, maxrows) ==
    \/ /\ s.kw = "DECLARE" /\ cursors[s.name] # None
       /\ Raise /\ UNCHANGED <<cursors, store, paged>>
    \/ /\ s.kw = "DECLARE" /\ cursors[s.name] = None
       /\ Submit(s.query, "declare", None, s.name, 0)
       /\ UNCHANGED <<txn, failed, cursors, store, paged>>
    \/ /\ s.kw \in {"FETCH", "MOVE"} /\ Known(s.name)
       /\ FetchPage(s, maxrows) /\ UNCHANGED <<txn, failed, store>>
    \/ /\ s.kw = "CLOSE" /\ Known(s.name)
       /\ CloseStmt(s) /\ UNCHANGED <<txn, failed>>
    \/ /\ s.kw \in {"FETCH", "MOVE", "CLOSE"} /\ ~Known(s.name)
       /\ Raise /\ UNCHANGED <<cursors, store, paged>>
    \/ /\ s.kw = "FETCH" /\ Known(s.name) /\ OutOfResult(s, FetchWindow(s, maxrows))
       /\ Raise /\ UNCHANGED <<cursors, store, paged>>

\* A statement that passed the gate: a cursor statement, or one for the worker.
Statement(s, for, p, maxrows) ==
    \/ s.kw \in CursorKw /\ CursorStmt(s, maxrows)
    \/ /\ s.kw \notin CursorKw /\ s.kw # "EMPTY"
       /\ Submit(s, for, p, None, maxrows)
       /\ UNCHANGED <<txn, failed, cursors, store, paged>>

----------------------------------------------------------------------------
(***************************************************************************)
(* Messages.                                                               *)
(***************************************************************************)

\* Reading a message starts a new answer.
Reads == phase = "idle" /\ ~gone

\* startup: a v3.0 StartupMessage opens the session; a refused SSL or GSS request is retried.
StartSession ==
    /\ phase = "startup" /\ ~gone
    /\ phase' = "idle" /\ sent' = <<"A", "A", "Z">>
    /\ UNCHANGED <<txn, failed, statements, portals, cache, cursors, store, rest, run, gone, paged, spoiled>>

\* _simple_query
Query(n) ==
    /\ Reads
    /\ phase' = "query" /\ rest' = n
    /\ sent' = IF n = 0 THEN <<"A">> ELSE <<>>
    /\ UNCHANGED <<txn, failed, statements, portals, cache, cursors, store, run, gone, paged, spoiled>>

NextStatement(s) ==
    /\ phase = "query" /\ run = None /\ rest > 0
    /\ \/ /\ Blocked(s)
          /\ sent' = Append(sent, "E")
          /\ UNCHANGED <<phase, txn, failed, cursors, store, run, paged>>
       \/ ~Blocked(s) /\ Statement(s, "query", None, 0)
    /\ rest' = IF phase' = "idle" THEN 0 ELSE rest - 1
    /\ UNCHANGED <<statements, portals, cache, gone, spoiled>>

QueryDoneSilent ==
    /\ phase = "query" /\ run = None /\ rest = 0
    /\ phase' = "idle" /\ sent' = sent
    /\ UNCHANGED <<txn, failed, statements, portals, cache, cursors, store, rest, run, gone, paged, spoiled>>

QueryDone ==
    /\ phase = "query" /\ run = None /\ rest = 0
    /\ phase' = "idle" /\ sent' = Append(sent, "Z")
    /\ UNCHANGED <<txn, failed, statements, portals, cache, cursors, store, rest, run, gone, paged, spoiled>>

\* _parse
Parse(n, s) ==
    /\ Reads
    /\ statements' = [statements EXCEPT ![n] = s]
    /\ sent' = <<"A">>
    /\ UNCHANGED <<phase, txn, failed, portals, cache, cursors, store, rest, run, gone, paged, spoiled>>

\* A portal whose description is cached: what a client must not touch unless Rebinds.
Described(p) == cache[p] # None

\* _bind: an unknown statement name binds the empty statement; the cache is left alone.
Bind(p, n) ==
    /\ Reads
    /\ Rebinds \/ ~Described(p)
    /\ portals' = [portals EXCEPT ![p] = IF statements[n] = None THEN Empty ELSE statements[n]]
    /\ sent' = <<"A">>
    /\ UNCHANGED <<phase, txn, failed, statements, cache, cursors, store, rest, run, gone, paged, spoiled>>

\* A Bind that asks for a binary format raises before it binds; a malformed message of any
\* kind ends the same way.
BadMessage ==
    /\ Reads
    /\ Raise
    /\ UNCHANGED <<statements, portals, cache, cursors, store, rest, gone, paged, spoiled>>

IsSelect(s) == s # None /\ s.kw = "SELECT"

\* _describe of a portal: a SELECT is run, also past the gate; anything else has no rows.
Describe(p) ==
    /\ Reads
    /\ \/ /\ IsSelect(portals[p])
          /\ Submit(portals[p], "describe", p, None, 0)
       \/ /\ ~IsSelect(portals[p])
          /\ sent' = <<"A">>
          /\ UNCHANGED <<phase, run>>
    /\ UNCHANGED <<txn, failed, statements, portals, cache, cursors, store, rest, gone, paged, spoiled>>

\* _execute: the cached description is taken before the gate; a blocked statement is
\* answered with an error alone, without a ReadyForQuery.
Execute(p, maxrows) ==
    LET s == portals[p] IN
    /\ Reads
    /\ cache' = [cache EXCEPT ![p] = IF s = None THEN @ ELSE None]
    /\ \/ /\ s \in {None, Empty} /\ (s = Empty => ~failed /\ cache[p] = None)
          /\ Goes(<<"A">>) /\ UNCHANGED <<txn, failed, cursors, store, paged>>
       \/ /\ s # None /\ Blocked(s)
          /\ Goes(<<"E">>) /\ UNCHANGED <<txn, failed, cursors, store, paged>>
       \/ /\ s # None /\ ~Blocked(s) /\ (s.kw \in CursorKw \/ cache[p] = None)
          /\ Statement(s, "execute", p, maxrows)
       \/ /\ s # None /\ ~Blocked(s) /\ s.kw \notin CursorKw /\ cache[p] # None
          /\ EmitResult(s) /\ UNCHANGED txn
    /\ UNCHANGED <<statements, portals, rest, gone, spoiled>>

Sync ==
    /\ Reads
    /\ sent' = <<"Z">>
    /\ UNCHANGED <<phase, txn, failed, statements, portals, cache, cursors, store, rest, run, gone, paged, spoiled>>

\* A Flush is answered by nothing, a message of an unknown type by an error that leaves the
\* transaction alone.
OtherMessage ==
    /\ Reads
    /\ sent' \in {<<>>, <<"E", "Z">>}
    /\ UNCHANGED <<phase, txn, failed, statements, portals, cache, cursors, store, rest, run, gone, paged, spoiled>>

\* _close of a prepared statement or of a portal, whose cached description stays.
ClosePrepared(n) ==
    /\ Reads
    /\ statements' = [statements EXCEPT ![n] = None]
    /\ sent' = <<"A">>
    /\ UNCHANGED <<phase, txn, failed, portals, cache, cursors, store, rest, run, gone, paged, spoiled>>

ClosePortal(p) ==
    /\ Reads
    /\ Rebinds \/ ~Described(p)
    /\ portals' = [portals EXCEPT ![p] = None]
    /\ sent' = <<"A">>
    /\ UNCHANGED <<phase, txn, failed, statements, cache, cursors, store, rest, run, gone, paged, spoiled>>

----------------------------------------------------------------------------
(***************************************************************************)
(* The worker, and the handler it resumes.                                 *)
(***************************************************************************)

\* Server.run_sql: what a statement that succeeds does to the connection's transaction.
TxnAfter(s) == CASE s.kw = "BEGIN" -> [poisoned |-> FALSE]
                 [] s.kw \in {"COMMIT", "ROLLBACK"} -> None
                 [] OTHER -> txn
EngineRuns(s) ==
    /\ s.kw = "BEGIN" => ~InTxn
    /\ s.kw \in {"COMMIT", "ROLLBACK"} => InTxn
    /\ spoiled' = (spoiled \/ (s.kw = "COMMIT" /\ txn.poisoned))
EngineTxn(s) == EngineRuns(s) /\ txn' = TxnAfter(s)

\* The rest of _declare: open_cursor refuses a cursor beyond the limit, and a statement
\* without rows is refused.
DeclareOk == run.sql.kw = "SELECT" /\ Cardinality(store) < MaxCursors

OpenCursor ==
    /\ store' = store \cup {run.name}
    /\ cursors' = [cursors EXCEPT ![run.name] =
                      [offset |-> 0, strayed |-> FALSE, owner |-> IF InTxn THEN "txn" ELSE "none"]]
    /\ paged' = [paged EXCEPT ![run.name] = <<>>]
    /\ Goes(<<"A">>)

\* The query of a refused DECLARE has run all the same: a COMMIT or ROLLBACK has ended the
\* transaction, and nothing closes the cursors it leaves.
DeclareRefused ==
    /\ EngineRuns(run.sql) /\ RaiseIn(TxnAfter(run.sql))
    /\ cursors' = [c \in Cursors |->
                      IF cursors[c] # None /\ cursors[c].owner = "txn" /\ run.sql.kw \in {"COMMIT", "ROLLBACK"}
                      THEN [cursors[c] EXCEPT !.owner = "left"] ELSE cursors[c]]
    /\ UNCHANGED <<cache, store, paged>>

RunSucceeds ==
    /\ run # None
    /\ \/ /\ run.for \in {"query", "execute"}
          /\ EngineTxn(run.sql) /\ EmitResult(run.sql) /\ UNCHANGED cache
       \/ /\ run.for = "describe"
          /\ EngineTxn(run.sql) /\ Goes(<<"A">>)
          /\ cache' = [cache EXCEPT ![run.portal] = run.sql]
          /\ UNCHANGED <<failed, cursors, store, paged>>
       \/ /\ run.for = "declare" /\ DeclareOk
          /\ EngineTxn(run.sql) /\ OpenCursor /\ UNCHANGED <<failed, cache>>
       \/ /\ run.for = "declare" /\ ~DeclareOk
          /\ DeclareRefused
    /\ rest' = IF phase' = "idle" THEN 0 ELSE rest
    /\ UNCHANGED <<statements, portals, gone>>

\* The handler of a statement that ended in an exception; a Describe swallows it.
Stopped ==
    /\ \/ /\ run.for = "describe"
          /\ Goes(<<"A">>) /\ UNCHANGED <<txn, failed>>
       \/ run.for # "describe" /\ Raise
    /\ rest' = IF phase' = "idle" THEN 0 ELSE rest
    /\ UNCHANGED <<statements, portals, cache, cursors, store, gone, paged, spoiled>>

\* The engine raises, COMMIT included: its transaction stays open.
RunRaises == run # None /\ Stopped

\* cancel_backend, from a connection of its own: only a statement that is running is reached.
CancelBackend ==
    /\ run # None /\ ~run.cancel
    /\ run' = [run EXCEPT !.cancel = TRUE]
    /\ UNCHANGED <<phase, txn, failed, statements, portals, cache, cursors, store, rest, sent, gone, paged, spoiled>>

\* The worker drops a cancelled statement, or the engine stops it at a plan node.
RunCancelled == run # None /\ run.cancel /\ Stopped

----------------------------------------------------------------------------
(***************************************************************************)
(* Lost connections.                                                       *)
(***************************************************************************)

Disconnect ==
    /\ ~gone /\ phase # "closed"
    /\ gone' = TRUE
    /\ UNCHANGED <<phase, txn, failed, statements, portals, cache, cursors, store, rest, run, sent, paged, spoiled>>

\* _handler's finally: a read finds the connection lost or a Terminate, or a send fails between
\* two statements; the transaction goes with its connection, uncommitted.
Cleanup ==
    /\ phase # "closed" /\ run = None
    /\ gone \/ phase \in {"startup", "idle"}
    /\ phase' = "closed" /\ txn' = None /\ rest' = 0 /\ NoCursors
    /\ UNCHANGED <<failed, statements, portals, cache, run, sent, gone, spoiled>>

Next ==
    \/ StartSession \/ QueryDone \/ BadMessage \/ OtherMessage \/ Sync
    \/ \E n \in 0..MaxBatch : Query(n)
    \/ \E s \in Sql : NextStatement(s)
    \/ \E n \in Statements, s \in Preparable : Parse(n, s)
    \/ \E p \in Portals, n \in Statements : Bind(p, n)
    \/ \E p \in Portals : Describe(p) \/ ClosePortal(p)
    \/ \E p \in Portals, m \in MaxRows : Execute(p, m)
    \/ \E n \in Statements : ClosePrepared(n)
    \/ RunSucceeds \/ RunRaises \/ CancelBackend \/ RunCancelled \/ Disconnect \/ Cleanup

\* The loop runs its handlers and the worker every statement it is given.
Fairness == WF_pgvars(QueryDone \/ RunSucceeds \/ RunRaises \/ \E s \in Sql : NextStatement(s))

Spec == Init /\ [][Next]_pgvars /\ Fairness

----------------------------------------------------------------------------
(***************************************************************************)
(* Properties.                                                             *)
(***************************************************************************)

TypeOK ==
    /\ phase \in {"startup", "idle", "query", "extended", "closed"}
    /\ txn \in Txn \cup {None}
    /\ failed \in BOOLEAN /\ gone \in BOOLEAN /\ spoiled \in BOOLEAN
    /\ statements \in [Statements -> Preparable \cup {None}]
    /\ portals \in [Portals -> Preparable \cup {None, Empty}]
    /\ cache \in [Portals -> Preparable \cup {None}]
    /\ cursors \in [Cursors -> Cursor \cup {None}]
    /\ store \subseteq Cursors
    /\ rest \in Nat
    /\ run \in Run \cup {None}
    /\ sent \in Seq({"A", "E", "Z"})
    /\ paged \in [Cursors -> Seq(1..Total) \cup {None}]

\* The gate is closed exactly while the session is in a transaction one of whose statements
\* was answered with an error: a gate without its transaction could never be opened again,
\* because ROLLBACK would raise (_gate, loop, _emit_result).
GateExact == phase # "closed" => (failed <=> (InTxn /\ txn.poisoned))

\* A transaction in which a statement failed is never committed, however its statements
\* arrive: in one simple query, pipelined, or as portals (_gate).
AbortedNeverCommits == ~spoiled

\* The connection's cursors and the store's are the same ones, within the limit; a position
\* lies in its result unless a negative count has moved it; no cursor of a transaction outlives
\* it, not even when a statement fails half way, unless the transaction was ended by the query
\* of a DECLARE (_fetch, _declare, _close_stmt, _close_all_cursors, open_cursor).
CursorsOwned ==
    /\ store = {c \in Cursors : cursors[c] # None}
    /\ Cardinality(store) <= MaxCursors
    /\ \A c \in store : /\ cursors[c].strayed \/ cursors[c].offset \in 0..Total
                        /\ cursors[c].owner = "txn" => InTxn

\* Paging forward, in pages of any size and with any row limit, delivers every row once and
\* in order, as long as no count is negative (_fetch, _cursor_window).
PagedOnce ==
    \A c \in store : paged[c] # None => paged[c] = [i \in 1..cursors[c].offset |-> i]

IsReady(f) == f = "Z"
\* Every simple query ends, and the last frame it is answered with is its only ReadyForQuery
\* (_simple_query, loop).
Answered == phase = "query" ~> \/ phase = "closed" \/ gone
                               \/ /\ phase = "idle" /\ sent # <<>> /\ sent[Len(sent)] = "Z"
                                  /\ Len(SelectSeq(sent, IsReady)) = 1
=============================================================================
