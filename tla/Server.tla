------------------------------- MODULE Server -------------------------------
(***************************************************************************)
(* The server's request path (ryudb/server/app.py, worker.py and the       *)
(* request part of handlers.py): connections send requests, an asyncio     *)
(* task per request submits it to a pool of worker threads and awaits its  *)
(* future; a worker loads the connection's transaction into its own        *)
(* engine slot, runs the statement and writes the slot back.  Cancels,     *)
(* disconnects and admin operations race with all of that.                 *)
(*                                                                         *)
(* The event loop is one thread: a frame and the start of its task are one *)
(* step (ready callbacks run in order, and a task cancelled before it      *)
(* starts leaves no trace), and so are a worker's callback and the resumed *)
(* task.  A worker's steps interleave with the loop and with other         *)
(* workers; engine.sql runs under the engine's lock and is one step.       *)
(***************************************************************************)
EXTENDS Naturals, Sequences, FiniteSets

CONSTANTS
    Conns,       \* WebSocket connections
    Requests,    \* requests, numbered in the order they are sent
    Ids,         \* the ids clients give their requests, None for null
    Workers,     \* threads of the pool
    Ops,         \* kinds of request clients send
    MaxCursors,  \* max_cursors_per_conn
    Pipelined,   \* whether a client sends a request before the last one is answered
    None

\* select covers every read; write every INSERT, DELETE, UPDATE and MERGE; cursor a select
\* that keeps a cursor; restore the SQL statement RESTORE TO SNAPSHOT; admin the checkpoint
\* and restore operations of the protocol.
SqlOps == {"begin", "commit", "rollback", "write", "select", "cursor", "restore"}
OpKinds == SqlOps \cup {"admin"}
Outcome == {"ok", "error", "cancelled"}

\* A request as it was sent.  Nothing keeps a client from using an id twice.
Request == [conn : Conns, op : OpKinds, id : Ids]

ASSUME OpsAssumption     == Ops \subseteq OpKinds
ASSUME BoundsAssumption  == MaxCursors \in Nat /\ Pipelined \in BOOLEAN
ASSUME NoneAssumption    == /\ None \notin Requests /\ None \notin Outcome
                            /\ None \notin Request
ASSUME NumberAssumption  == Requests \subseteq Nat

VARIABLES
    up,       \* the live connections: _conns
    req,      \* [Requests -> None or Request]: what was sent
    task,     \* [Requests -> "unsent", "waiting", "ended"]: the asyncio task, waiting on its future
    posted,   \* [Requests -> None or the outcome]: call_soon_threadsafe not yet run
    queue,    \* the pool's queue of requests
    work,     \* [Workers -> [at, req]]: what each worker is doing
    slot,     \* [Workers -> None or transaction]: engine._txn of each thread
    ws_txn,   \* [Conns -> None or transaction]: ws._ryudb_txn
    cancel,   \* requests whose cancel event is set
    pending,  \* [Conns -> set of requests]: _pending, at most one of each id
    cursors,  \* [Conns -> Nat]: open cursors
    answer,   \* [Requests -> None or the outcome sent to the client]
    shared,   \* history: requests whose id was in use twice while they were in flight
    effect,   \* history: requests whose statement took effect, in memory or only on disk
    buffer,   \* [Requests -> set of requests]: writes buffered by the transaction of a BEGIN
    commits   \* [Requests -> Nat]: how often a COMMIT of the transaction of a BEGIN succeeded

vars == <<up, req, task, posted, queue, work, slot, ws_txn, cancel, pending, cursors,
          answer, shared, effect, buffer, commits>>

loopvars == <<up, req, task, posted, cancel, pending, cursors, answer, shared>>
workvars == <<queue, work, slot, ws_txn, effect, buffer, commits>>

Idle == [at |-> "idle", req |-> None]

TypeOK ==
    /\ up \subseteq Conns
    /\ req \in [Requests -> {None} \cup Request]
    /\ task \in [Requests -> {"unsent", "waiting", "ended"}]
    /\ posted \in [Requests -> {None} \cup Outcome]
    /\ queue \in Seq(Requests)
    /\ work \in [Workers -> [at : {"idle", "taken", "loaded"} \cup Outcome,
                             req : Requests \cup {None}]]
    /\ slot \in [Workers -> Requests \cup {None}]
    /\ ws_txn \in [Conns -> Requests \cup {None}]
    /\ cancel \subseteq Requests
    /\ pending \in [Conns -> SUBSET Requests]
    /\ cursors \in [Conns -> 0..MaxCursors]
    /\ answer \in [Requests -> {None} \cup Outcome]
    /\ shared \subseteq Requests
    /\ effect \subseteq Requests
    /\ buffer \in [Requests -> SUBSET Requests]
    /\ commits \in [Requests -> Nat]

Init ==
    /\ up = Conns
    /\ req = [r \in Requests |-> None]
    /\ task = [r \in Requests |-> "unsent"]
    /\ posted = [r \in Requests |-> None]
    /\ queue = <<>>
    /\ work = [w \in Workers |-> Idle]
    /\ slot = [w \in Workers |-> None]
    /\ ws_txn = [c \in Conns |-> None]
    /\ cancel = {}
    /\ pending = [c \in Conns |-> {}]
    /\ cursors = [c \in Conns |-> 0]
    /\ answer = [r \in Requests |-> None]
    /\ shared = {}
    /\ effect = {}
    /\ buffer = [r \in Requests |-> {}]
    /\ commits = [r \in Requests |-> 0]

Waiting(c) == {r \in Requests : task[r] = "waiting" /\ req[r].conn = c}

\* The requests of a connection that are in flight under an id, and the entry of _pending.
InFlight(c, id) == {r \in Waiting(c) : req[r].id = id}
Entry(c, id) == {r \in pending[c] : req[r].id = id}

----------------------------------------------------------------------------
(***************************************************************************)
(* The event loop.                                                         *)
(***************************************************************************)

\* _handler reads a frame and creates the request's task; _cancellable submits the call to
\* the pool and registers its cancel event under str(id), in place of what was there.
Send(c, r, op, id) ==
    /\ c \in up
    /\ task[r] = "unsent"
    /\ \A q \in Requests : q < r => task[q] # "unsent"
    /\ Pipelined \/ Waiting(c) = {}
    /\ req' = [req EXCEPT ![r] = [conn |-> c, op |-> op, id |-> id]]
    /\ task' = [task EXCEPT ![r] = "waiting"]
    /\ queue' = Append(queue, r)
    /\ pending' = [pending EXCEPT ![c] = IF id = None THEN @ ELSE (@ \ Entry(c, id)) \cup {r}]
    /\ shared' = IF id = None \/ InFlight(c, id) = {} THEN shared
                 ELSE shared \cup InFlight(c, id) \cup {r}
    /\ UNCHANGED <<up, posted, work, slot, ws_txn, cancel, cursors, answer, effect, buffer, commits>>

\* _op_cancel: set the flag of a target this connection has pending.
Cancel(c, r) ==
    /\ c \in up
    /\ r \in pending[c]
    /\ cancel' = cancel \cup {r}
    /\ UNCHANGED <<up, req, task, posted, pending, cursors, answer, shared, workvars>>

\* _op_close drops a cursor; one that is unknown changes nothing.
CloseCursor(c) ==
    /\ c \in up
    /\ cursors[c] > 0
    /\ cursors' = [cursors EXCEPT ![c] = @ - 1]
    /\ UNCHANGED <<up, req, task, posted, cancel, pending, answer, shared, workvars>>

DeliverNoLimit(r) ==
    LET c == req[r].conn IN
    /\ posted[r] # None
    /\ posted' = [posted EXCEPT ![r] = None]
    /\ task' = [task EXCEPT ![r] = "ended"]
    /\ pending' = [pending EXCEPT ![c] = @ \ Entry(c, req[r].id)]
    /\ cursors' = [cursors EXCEPT ![c] = IF req[r].op = "cursor" /\ posted[r] = "ok" THEN @ + 1 ELSE @]
    /\ answer' = [answer EXCEPT ![r] = IF task[r] = "waiting" THEN posted[r] ELSE @]
    /\ UNCHANGED <<up, req, cancel, shared, workvars>>

DeliverStaysPending(r) ==
    /\ posted[r] # None
    /\ posted' = [posted EXCEPT ![r] = None]
    /\ task' = [task EXCEPT ![r] = "ended"]
    /\ answer' = [answer EXCEPT ![r] = IF task[r] = "waiting" THEN posted[r] ELSE @]
    /\ UNCHANGED <<up, req, cancel, pending, cursors, shared, workvars>>

\* The worker's callback resolves the future, unless a disconnect has cancelled it, and the
\* task resumes: unregister the id, keep a cursor if one was asked for and the limit allows it,
\* send the answer.
Deliver(r) ==
    LET c     == req[r].conn
        opens == task[r] = "waiting" /\ req[r].op = "cursor" /\ posted[r] = "ok"
        full  == opens /\ cursors[c] >= MaxCursors
    IN  /\ posted[r] # None
        /\ posted' = [posted EXCEPT ![r] = None]
        /\ task' = [task EXCEPT ![r] = "ended"]
        /\ pending' = [pending EXCEPT ![c] = @ \ Entry(c, req[r].id)]
        /\ cursors' = [cursors EXCEPT ![c] = IF opens /\ ~full THEN @ + 1 ELSE @]
        /\ answer' = [answer EXCEPT ![r] =
                        IF task[r] # "waiting" THEN @ ELSE IF full THEN "error" ELSE posted[r]]
        /\ UNCHANGED <<up, req, cancel, shared, workvars>>

DisconnectSilent(c) ==
    /\ c \in up
    /\ up' = up \ {c}
    /\ pending' = [pending EXCEPT ![c] = {}]
    /\ cursors' = [cursors EXCEPT ![c] = 0]
    /\ task' = [r \in Requests |-> IF r \in Waiting(c) THEN "ended" ELSE task[r]]
    /\ UNCHANGED <<req, posted, cancel, answer, shared, workvars>>

\* The connection goes: its pending cancel events are set, its tasks cancelled with their
\* futures, its transaction and cursors dropped.
Disconnect(c) ==
    /\ c \in up
    /\ up' = up \ {c}
    /\ cancel' = cancel \cup pending[c]
    /\ pending' = [pending EXCEPT ![c] = {}]
    /\ cursors' = [cursors EXCEPT ![c] = 0]
    /\ task' = [r \in Requests |-> IF r \in Waiting(c) THEN "ended" ELSE task[r]]
    /\ UNCHANGED <<req, posted, answer, shared, workvars>>

----------------------------------------------------------------------------
(***************************************************************************)
(* A worker thread.                                                        *)
(***************************************************************************)

TakeSilent(w) ==
    LET r == Head(queue) IN
    /\ work[w] = Idle
    /\ queue # <<>>
    /\ queue' = Tail(queue)
    /\ work' = IF r \in cancel THEN work ELSE [work EXCEPT ![w] = [at |-> "taken", req |-> r]]
    /\ UNCHANGED <<up, req, task, posted, slot, ws_txn, cancel, pending, cursors, answer, shared, effect, buffer, commits>>

TakeLast(w) ==
    LET r == queue[Len(queue)] IN
    /\ work[w] = Idle
    /\ queue # <<>>
    /\ queue' = SubSeq(queue, 1, Len(queue) - 1)
    /\ IF r \in cancel
       THEN posted' = [posted EXCEPT ![r] = "cancelled"] /\ UNCHANGED work
       ELSE work' = [work EXCEPT ![w] = [at |-> "taken", req |-> r]] /\ UNCHANGED posted
    /\ UNCHANGED <<up, req, task, slot, ws_txn, cancel, pending, cursors, answer, shared, effect, buffer, commits>>

\* _run takes the next item and drops it when its cancel event is set.
Take(w) ==
    LET r == Head(queue) IN
    /\ work[w] = Idle
    /\ queue # <<>>
    /\ queue' = Tail(queue)
    /\ IF r \in cancel
       THEN posted' = [posted EXCEPT ![r] = "cancelled"] /\ UNCHANGED work
       ELSE work' = [work EXCEPT ![w] = [at |-> "taken", req |-> r]] /\ UNCHANGED posted
    /\ UNCHANGED <<up, req, task, slot, ws_txn, cancel, pending, cursors, answer, shared, effect, buffer, commits>>

\* run_sql loads the connection's transaction into this thread's slot.
Load(w) ==
    LET r == work[w].req IN
    /\ work[w].at = "taken"
    /\ req[r].op \in SqlOps
    /\ slot' = [slot EXCEPT ![w] = ws_txn[req[r].conn]]
    /\ work' = [work EXCEPT ![w].at = "loaded"]
    /\ UNCHANGED <<loopvars, queue, ws_txn, effect, buffer, commits>>

Done(w, outcome) == work' = [work EXCEPT ![w].at = outcome]

RaiseLate(w) ==
    LET r == work[w].req IN
    /\ work[w].at = "loaded"
    /\ r \in cancel /\ Done(w, "cancelled")
    /\ effect' = effect \cup {r}
    /\ UNCHANGED <<loopvars, queue, slot, ws_txn, buffer, commits>>

\* Statements that can fail when they have already changed something: a commit whose record
\* was written but not synced, nor cut off again, and which leaves the transaction open; a
\* restore whose truncate fails after the rewind.
FailsLate(r, t) ==
    \/ req[r].op = "commit" /\ t # None
    \/ req[r].op \in {"write", "restore"} /\ t = None

\* engine.sql raises: at its first _check_cancel, before it has changed anything; or for any
\* other reason, before or after.
Raise(w) ==
    LET r == work[w].req IN
    /\ work[w].at = "loaded"
    /\ \/ r \in cancel /\ Done(w, "cancelled") /\ UNCHANGED effect
       \/ Done(w, "error") /\ effect' \in {effect, IF FailsLate(r, slot[w]) THEN effect \cup {r} ELSE effect}
    /\ UNCHANGED <<loopvars, queue, slot, ws_txn, buffer, commits>>

\* engine.sql under its lock: transaction control, or a statement inside or outside one.
\* RESTORE looks at the transaction of its own connection only.
Execute(w) ==
    LET r == work[w].req
        t == slot[w]
    IN  /\ work[w].at = "loaded"
        /\ \/ /\ req[r].op = "begin" /\ t = None
              /\ slot' = [slot EXCEPT ![w] = r]
              /\ UNCHANGED <<buffer, commits>>
           \/ /\ req[r].op = "commit" /\ t # None
              /\ commits' = [commits EXCEPT ![t] = @ + 1]
              /\ slot' = [slot EXCEPT ![w] = None]
              /\ UNCHANGED buffer
           \/ /\ req[r].op = "rollback" /\ t # None
              /\ slot' = [slot EXCEPT ![w] = None]
              /\ UNCHANGED <<buffer, commits>>
           \/ /\ req[r].op \in {"write", "select", "cursor", "restore"}
              /\ req[r].op = "restore" => t = None
              /\ buffer' = IF t # None /\ req[r].op = "write"
                           THEN [buffer EXCEPT ![t] = @ \cup {r}] ELSE buffer
              /\ UNCHANGED <<slot, commits>>
        /\ effect' = effect \cup {r}
        /\ Done(w, "ok")
        /\ UNCHANGED <<loopvars, queue, ws_txn>>

HasOpenTxn == \E c \in up : ws_txn[c] # None

\* _run_admin, under the engine's write lock: checkpoint and restore are refused while
\* has_open_txn and fail on an unknown snapshot; a checkpoint that is cancelled or fails
\* between two tables has folded some of them, and a restore may fail at the log's truncate.
Admin(w) ==
    LET r == work[w].req IN
    /\ work[w].at = "taken"
    /\ req[r].op = "admin"
    /\ \/ Done(w, "error") /\ UNCHANGED effect
       \/ ~HasOpenTxn /\ Done(w, "ok") /\ effect' = effect \cup {r}
       \/ ~HasOpenTxn /\ Done(w, "error") /\ effect' = effect \cup {r}
       \/ ~HasOpenTxn /\ r \in cancel /\ Done(w, "cancelled") /\ effect' \in {effect, effect \cup {r}}
    /\ UNCHANGED <<loopvars, queue, slot, ws_txn, buffer, commits>>

WriteBackForgets(w) ==
    LET r == work[w].req IN
    /\ work[w].at \in Outcome
    /\ req[r].op \in SqlOps
    /\ ws_txn' = [ws_txn EXCEPT ![req[r].conn] = IF slot[w] = None THEN @ ELSE slot[w]]
    /\ slot' = [slot EXCEPT ![w] = None]
    /\ posted' = [posted EXCEPT ![r] = work[w].at]
    /\ work' = [work EXCEPT ![w] = Idle]
    /\ UNCHANGED <<up, req, task, queue, cancel, pending, cursors, answer, shared, effect, buffer, commits>>

WriteBackKeepsSlot(w) ==
    LET r == work[w].req IN
    /\ work[w].at \in Outcome
    /\ req[r].op \in SqlOps
    /\ ws_txn' = [ws_txn EXCEPT ![req[r].conn] = slot[w]]
    /\ posted' = [posted EXCEPT ![r] = work[w].at]
    /\ work' = [work EXCEPT ![w] = Idle]
    /\ UNCHANGED <<up, req, task, queue, slot, cancel, pending, cursors, answer, shared, effect, buffer, commits>>

\* run_sql's finally: write the slot back to the connection and clear it; the worker then
\* posts the outcome to the loop and is free.
WriteBack(w) ==
    LET r == work[w].req IN
    /\ work[w].at \in Outcome
    /\ req[r].op \in SqlOps
    /\ ws_txn' = [ws_txn EXCEPT ![req[r].conn] = slot[w]]
    /\ slot' = [slot EXCEPT ![w] = None]
    /\ posted' = [posted EXCEPT ![r] = work[w].at]
    /\ work' = [work EXCEPT ![w] = Idle]
    /\ UNCHANGED <<up, req, task, queue, cancel, pending, cursors, answer, shared, effect, buffer, commits>>

PostAdmin(w) ==
    LET r == work[w].req IN
    /\ work[w].at \in Outcome
    /\ req[r].op = "admin"
    /\ posted' = [posted EXCEPT ![r] = work[w].at]
    /\ work' = [work EXCEPT ![w] = Idle]
    /\ UNCHANGED <<up, req, task, queue, slot, ws_txn, cancel, pending, cursors, answer, shared, effect, buffer, commits>>

----------------------------------------------------------------------------
Next ==
    \/ \E c \in Conns :
         \/ Disconnect(c) \/ CloseCursor(c)
         \/ \E r \in Requests : Cancel(c, r) \/ \E op \in Ops, id \in Ids : Send(c, r, op, id)
    \/ \E r \in Requests : Deliver(r)
    \/ \E w \in Workers :
         \/ Take(w) \/ Load(w) \/ Raise(w) \/ Execute(w) \/ Admin(w) \/ WriteBack(w) \/ PostAdmin(w)

\* The event loop runs every callback that is ready, and a worker thread keeps going;
\* nothing is assumed about what clients send or when they leave.
Fairness ==
    /\ \A r \in Requests : WF_vars(Deliver(r))
    /\ \A w \in Workers :
         WF_vars(Take(w) \/ Load(w) \/ Raise(w) \/ Execute(w) \/ Admin(w) \/ WriteBack(w) \/ PostAdmin(w))

Spec == Init /\ [][Next]_vars /\ Fairness

----------------------------------------------------------------------------
(***************************************************************************)
(* Properties.                                                             *)
(***************************************************************************)

\* What an answer is worth: a client told "ok" had its statement executed and one told
\* "cancelled" had not, however cancel, drop and execution raced.  (A cancelled checkpoint may
\* have folded tables.  "error" promises nothing: the record of a commit may be on disk, a
\* restore may have rewound, a cursor refused at the limit did run its select.)
AnswerTruthful ==
    \A r \in Requests :
        /\ answer[r] = "ok" => r \in effect
        /\ answer[r] = "cancelled" => r \notin effect \/ req[r].op = "admin"

\* cancel and disconnect find every request that is queued or running, unless its client
\* gave it no id or an id that another of its requests in flight had: such a pair shares one
\* entry, which is the later request's and goes with the first of the two to be answered.
PendingExact ==
    \A c \in Conns :
        /\ pending[c] \subseteq Waiting(c)
        /\ \A r \in Waiting(c) \ pending[c] : req[r].id = None \/ r \in shared
        /\ \A r \in pending[c] :
             req[r].id # None /\ \A x \in InFlight(c, req[r].id) : x <= r

\* Nothing is forgotten: a request whose task awaits its answer is in the queue, with a
\* worker, or its outcome is on the way to the loop, also when it was cancelled in the queue.
NoneForgotten ==
    \A r \in Requests :
        task[r] = "waiting" =>
            \/ \E i \in DOMAIN queue : queue[i] = r
            \/ \E w \in Workers : work[w].at # "idle" /\ work[w].req = r
            \/ posted[r] # None

\* What a client left in the queue does not run after it has disconnected, unless it was
\* sent with no id or with one that was in use; using an id again later does no harm.
QuietAfterClose ==
    [][\A w \in Workers :
          work'[w].at = "taken" /\ work[w].at # "taken" =>
              LET r == work'[w].req IN req[r].conn \in up \/ req[r].id = None \/ r \in shared]_vars

\* No statement runs in another client's transaction: a thread carries one only while it
\* serves the connection that began it, whatever order threads load and write back in.
TxnOwned ==
    /\ \A c \in Conns : ws_txn[c] # None => req[ws_txn[c]].conn = c
    /\ \A w \in Workers :
         slot[w] # None => work[w].at # "idle" /\ req[slot[w]].conn = req[work[w].req].conn

\* "FIFO submission order": a request takes effect only when no earlier one of its connection
\* is still to run, so a pipelining client's BEGIN, writes and COMMIT apply as they were sent.
Unrun(q) ==
    \/ \E i \in DOMAIN queue : queue[i] = q
    \/ \E w \in Workers : work[w].req = q /\ work[w].at \in {"taken", "loaded"}

InOrder ==
    [][\A r \in effect' \ effect, q \in Requests :
          q < r /\ Unrun(q) => req[q].conn # req[r].conn]_vars

\* At most one COMMIT of a transaction succeeds, and nothing is buffered in it afterwards: no
\* acknowledged write is lost in, or applied twice through, a transaction that has ended.
CommittedOnce ==
    [][\A t \in Requests :
          /\ commits'[t] <= 1
          /\ commits[t] > 0 => buffer'[t] = buffer[t]]_vars

\* Every request is answered, or its connection has gone.
Answered == \A r \in Requests : (task[r] = "waiting") ~> (task[r] = "ended")
=============================================================================
