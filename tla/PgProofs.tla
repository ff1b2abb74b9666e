------------------------------ MODULE PgProofs ------------------------------
(***************************************************************************)
(* Proofs about PostgreSQL connections, for any statements, cursors,       *)
(* portals and limits, when clients do not bind a portal again between     *)
(* Describe and Execute.                                                   *)
(*                                                                         *)
(* The inductive invariant ties a statement at the worker to the gate it   *)
(* passed: it was not blocked, and the gate does not move before it ends;  *)
(* a described portal is the SELECT its cached result belongs to.          *)
(***************************************************************************)
EXTENDS PgSession, FiniteSetTheorems, SequenceTheorems, TLAPS

Said == Sql \cup Preparable
Forward == {"NEXT", "FORWARD", "FORWARD_ALL"}

----------------------------------------------------------------------------
(***************************************************************************)
(* Cursor positions.                                                       *)
(***************************************************************************)

\* A cursor in its result stays there, whatever direction, count and row limit, unless a
\* negative count of FORWARD or BACKWARD takes it out.
LEMMA WindowInResult ==
    ASSUME NEW dir \in Directions, NEW count \in Int \cup {NoCount}, NEW offset \in 0..Total, NEW maxrows \in Nat,
           dir \in {"ABSOLUTE", "RELATIVE"} => count # NoCount, dir \notin Counted => count = NoCount,
           dir \in {"FORWARD", "BACKWARD"} /\ count # NoCount => count >= 0
    PROVE  CursorWindow(dir, count, offset, Total, maxrows).offset \in 0..Total
<1> Total \in Nat BY PgBounds
<1> DEFINE n == Cap(IF count = NoCount THEN 1 ELSE count, maxrows)
<1>1. dir \in {"NEXT", "PRIOR", "FORWARD", "BACKWARD"} => n \in Nat
    BY PgNames DEF Cap, Least, Counted
<1> HIDE DEF n
<1>2. n \in Nat => /\ Forwards(n, offset, Total).offset \in 0..Total
                   /\ Backwards(n, offset).offset \in 0..Total
    BY DEF Forwards, Backwards, Window, Least
<1>3. /\ ForwardAll(offset, Total, maxrows).offset \in 0..Total
      /\ BackwardAll(offset, maxrows).offset \in 0..Total
      /\ First(Total).offset \in 0..Total
      /\ Last(Total).offset \in 0..Total
    BY DEF ForwardAll, BackwardAll, First, Last, Window, Least, Greatest
<1>4. count # NoCount => /\ Absolute(count, offset, Total).offset \in 0..Total
                         /\ Relative(count, offset, Total).offset \in 0..Total
    BY DEF Absolute, Relative, At, Window, Least, Greatest
<1> QED BY <1>1, <1>2, <1>3, <1>4 DEF CursorWindow, Directions, n

\* A page forward starts at the cursor and ends where it is left.
LEMMA ForwardWindow ==
    ASSUME NEW dir \in Forward, NEW count \in Nat \cup {NoCount}, NEW offset \in 0..Total, NEW maxrows \in Nat
    PROVE  LET w == CursorWindow(dir, count, offset, Total, maxrows)
           IN /\ w.length \in Nat /\ w.start = offset /\ w.reverse = FALSE
              /\ w.offset = offset + w.length
<1> Total \in Nat BY PgBounds
<1> DEFINE n == Cap(IF count = NoCount THEN 1 ELSE count, maxrows)
<1>1. n \in Nat
    BY PgNames DEF Cap, Least
<1> HIDE DEF n
<1>2. \A w \in {Forwards(n, offset, Total), ForwardAll(offset, Total, maxrows)} :
          /\ w.length \in Nat /\ w.start = offset /\ w.reverse = FALSE
          /\ w.offset = offset + w.length
    BY <1>1 DEF Forwards, ForwardAll, Window, Least
<1> QED BY <1>2 DEF CursorWindow, Forward, n

\* The rows up to a position.
UpTo(n) == [i \in 1..n |-> i]

\* A page that starts at the position continues the rows delivered so far.
LEMMA UpToExtends ==
    ASSUME NEW n \in Nat, NEW w, w.length \in Nat, w.start = n, w.reverse = FALSE
    PROVE  UpTo(n) \o Page(w) = UpTo(n + w.length)
<1>1. Page(w) = [i \in 1..w.length |-> n + i]
    BY DEF Page, Greatest
<1>2. UpTo(n) \in Seq(Nat) /\ Len(UpTo(n)) = n
    BY DEF UpTo
<1>3. Page(w) \in Seq(Nat) /\ Len(Page(w)) = w.length
    BY <1>1
<1>4. UpTo(n + w.length) \in Seq(Nat) /\ Len(UpTo(n + w.length)) = n + w.length
    BY DEF UpTo
<1>5. UpTo(n) \o Page(w) \in Seq(Nat) /\ Len(UpTo(n) \o Page(w)) = n + w.length
    <2> DEFINE a == UpTo(n)
               b == Page(w)
    <2> HIDE DEF a, b
    <2>1. a \o b \in Seq(Nat) /\ Len(a \o b) = Len(a) + Len(b)
        BY <1>2, <1>3, ConcatProperties DEF a, b
    <2> QED BY <1>2, <1>3, <2>1 DEF a, b
<1>6. ASSUME NEW i \in 1..(n + w.length)
      PROVE  (UpTo(n) \o Page(w))[i] = UpTo(n + w.length)[i]
    BY <1>1, <1>2, <1>3, ConcatProperties DEF UpTo
<1> QED BY <1>4, <1>5, <1>6, SeqEqual
----------------------------------------------------------------------------
(***************************************************************************)
(* Types.                                                                  *)
(***************************************************************************)

\* The part of the state that handlers of statements change, and the rest.
HandlerTypes ==
    /\ phase \in {"startup", "idle", "query", "extended", "closed"}
    /\ txn \in Txn \cup {None}
    /\ failed \in BOOLEAN
    /\ cursors \in [Cursors -> Cursor \cup {None}]
    /\ store \subseteq Cursors
    /\ run \in Run \cup {None}
    /\ sent \in Seq({"A", "E", "Z"})
    /\ paged \in [Cursors -> Seq(1..Total) \cup {None}]
OtherTypes ==
    /\ statements \in [Statements -> Preparable \cup {None}]
    /\ portals \in [Portals -> Preparable \cup {None, Empty}]
    /\ cache \in [Portals -> Preparable \cup {None}]
    /\ rest \in Nat
    /\ gone \in BOOLEAN /\ spoiled \in BOOLEAN

\* Type correctness is that of both parts.
LEMMA TypeParts == TypeOK <=> HandlerTypes /\ OtherTypes
BY DEF TypeOK, HandlerTypes, OtherTypes

\* The same after a step.
LEMMA TypePartsNext == TypeOK' <=> HandlerTypes' /\ OtherTypes'
BY DEF TypeOK, HandlerTypes, OtherTypes

\* Rows delivered forward are rows of the result.
LEMMA UpToType ==
    ASSUME NEW n \in 0..Total
    PROVE  UpTo(n) \in Seq(1..Total)
BY PgBounds DEF UpTo

\* What a cursor has delivered, as long as it only went forward.
Position(c) == IF cursors[c] = None THEN 0 ELSE cursors[c].offset
PagedExact == \A c \in Cursors : paged[c] # None => paged[c] = UpTo(Position(c)) /\ Position(c) \in 0..Total

\* Where a statement at the worker comes from: a handler awaits it, and it was not blocked.
RunPlace ==
    run # None =>
        /\ phase \in {"query", "extended"}
        /\ run.for = "describe" => /\ run.portal \in Portals /\ portals[run.portal] = run.sql
                                   /\ run.sql \in Preparable /\ run.sql.kw = "SELECT"
        /\ run.for = "declare" => run.name \in Cursors /\ run.sql.kw \in Control \cup {"SELECT"} /\ ~failed
        /\ run.for \in {"query", "execute"} => run.sql.kw \in Control \cup {"SELECT"}
        /\ run.for # "describe" /\ run.sql.kw # "ROLLBACK" => ~failed

\* Without rebinding, a cached result belongs to the SELECT its portal is bound to.
CacheExact == \A p \in Portals : cache[p] # None => cache[p].kw = "SELECT" /\ portals[p] = cache[p]

\* An exception leaves a typed handler state.
LEMMA RaiseTypes ==
    ASSUME HandlerTypes, NEW x, RaiseIn(x)
    PROVE  /\ phase' = "idle" /\ run' = None /\ failed' \in BOOLEAN
           /\ txn' \in Txn \cup {None} /\ sent' \in Seq({"A", "E", "Z"})
BY DEF HandlerTypes, RaiseIn, Frames, Txn

\* So does a handler that goes on or ends.
LEMMA GoesTypes ==
    ASSUME HandlerTypes, Goes(<<"A">>) \/ Goes(<<"E">>)
    PROVE  phase' \in {"query", "idle"} /\ run' = None /\ sent' \in Seq({"A", "E", "Z"})
<1>1. Frames \in Seq({"A", "E", "Z"}) /\ <<"A">> \in Seq({"A", "E", "Z"}) /\ <<"E">> \in Seq({"A", "E", "Z"})
    BY DEF HandlerTypes, Frames
<1>2. sent' \in Seq({"A", "E", "Z"})
    BY <1>1, ConcatProperties DEF Goes
<1> QED BY <1>2 DEF Goes

\* And closing every cursor.
LEMMA NoCursorsTypes ==
    ASSUME NoCursors
    PROVE  /\ cursors' \in [Cursors -> Cursor \cup {None}] /\ store' \subseteq Cursors
           /\ paged' \in [Cursors -> Seq(1..Total) \cup {None}]
BY DEF NoCursors

\* A FETCH delivers rows and leaves a position of the result, unless a negative count moved it.
LEMMA FetchTypes ==
    ASSUME HandlerTypes, PagedExact, NEW s \in Said, s.kw \in {"FETCH", "MOVE"}, Known(s.name),
           NEW m \in MaxRows \cup {0}, FetchPage(s, m)
    PROVE  /\ s.name \in Cursors /\ cursors[s.name] \in Cursor
           /\ \E new \in Cursor, rows \in Seq(1..Total) \cup {None} :
                 /\ cursors' = [cursors EXCEPT ![s.name] = new] /\ new.owner = cursors[s.name].owner
                 /\ ~new.strayed /\ cursors[s.name].offset \in 0..Total => new.offset \in 0..Total
                 /\ ~new.strayed => ~cursors[s.name].strayed
                 /\ paged' = [paged EXCEPT ![s.name] = rows]
                 /\ rows # None => rows = UpTo(new.offset) /\ new.offset \in 0..Total
<1>1. /\ s.name \in Cursors /\ s.dir \in Directions /\ s.count \in Int \cup {NoCount}
      /\ s.dir \in {"ABSOLUTE", "RELATIVE"} => s.count # NoCount
      /\ s.dir \notin Counted => s.count = NoCount
    BY SqlAssumption DEF Said, Control
<1>2. cursors[s.name] \in Cursor
    BY <1>1, PgNames DEF Known, HandlerTypes
<1> DEFINE old == cursors[s.name].offset
           w == CursorWindow(s.dir, s.count, old, Total, m)
           new == [offset |-> w.offset, strayed |-> cursors[s.name].strayed \/ Negative(s),
                   owner |-> cursors[s.name].owner]
           rows == IF paged[s.name] = None \/ s.kw = "MOVE" \/ s.dir \notin Forward \/ Negative(s)
                   THEN None ELSE paged[s.name] \o Page(w)
<1>3. m \in Nat
    BY PgBounds
<1>4. ASSUME old \in 0..Total, ~Negative(s)
      PROVE  w.offset \in 0..Total
    <2>1. s.dir \in {"FORWARD", "BACKWARD"} /\ s.count # NoCount => s.count >= 0
        BY <1>1, <1>4 DEF Negative
    <2> QED BY <1>1, <1>3, <1>4, <2>1, WindowInResult
<1>5. /\ cursors' = [cursors EXCEPT ![s.name] = new] /\ paged' = [paged EXCEPT ![s.name] = rows]
      /\ w.offset \in Positions
    BY DEF FetchPage, FetchWindow, Forward
<1>6. ASSUME s.dir \in Forward, ~Negative(s), paged[s.name] # None
      PROVE  paged[s.name] \o Page(w) = UpTo(w.offset) /\ w.offset \in 0..Total
    <2>1. paged[s.name] = UpTo(old) /\ old \in 0..Total
        BY <1>1, <1>2, <1>6, PgNames DEF PagedExact, Position
    <2>2. s.count \in Nat \cup {NoCount}
        BY <1>1, <1>6 DEF Negative, Forward, Counted
    <2>3. w.length \in Nat /\ w.start = old /\ w.reverse = FALSE /\ w.offset = old + w.length
        BY <1>3, <1>6, <2>1, <2>2, ForwardWindow
    <2>4. w.offset \in 0..Total
        BY <1>4, <1>6, <2>1
    <2> HIDE DEF w
    <2>5. old \in Nat
        BY <2>1, PgBounds
    <2> QED BY <2>1, <2>3, <2>4, <2>5, UpToExtends
<1> HIDE DEF w
<1>7. Negative(s) \in BOOLEAN
    BY DEF Negative
<1>8. /\ new \in Cursor /\ new.offset = w.offset /\ new.owner = cursors[s.name].owner
      /\ new.strayed = (cursors[s.name].strayed \/ Negative(s))
    BY <1>2, <1>5, <1>7 DEF Cursor
<1>9. rows # None => rows = UpTo(new.offset) /\ new.offset \in 0..Total
    BY <1>6, <1>8
<1>10. ~new.strayed => ~Negative(s) /\ ~cursors[s.name].strayed
    BY <1>8
<1>11. ~new.strayed /\ old \in 0..Total => new.offset \in 0..Total
    BY <1>4, <1>8, <1>10
<1> HIDE DEF new, rows, old
<1>13. rows \in Seq(1..Total) \cup {None}
    BY <1>9, UpToType
<1>12. cursors[s.name].offset \in 0..Total => old \in 0..Total
    BY DEF old
<1> QED BY <1>1, <1>2, <1>5, <1>8, <1>9, <1>10, <1>11, <1>12, <1>13

\* CLOSE removes cursors and what they delivered.
LEMMA CloseTypes ==
    ASSUME HandlerTypes, NEW s, CloseStmt(s), UNCHANGED <<txn, failed>>
    PROVE  HandlerTypes'
<1>1. /\ cursors' \in [Cursors -> Cursor \cup {None}] /\ store' \subseteq Cursors
      /\ paged' \in [Cursors -> Seq(1..Total) \cup {None}]
    BY DEF HandlerTypes, CloseStmt
<1>2. phase' \in {"query", "idle"} /\ run' = None /\ sent' \in Seq({"A", "E", "Z"})
    BY GoesTypes DEF CloseStmt
<1> QED BY <1>1, <1>2 DEF HandlerTypes

\* A statement handed to the worker is a typed one.
LEMMA SubmitTypes ==
    ASSUME HandlerTypes, NEW s \in Given, NEW for \in {"query", "execute", "describe", "declare"},
           NEW p \in Portals \cup {None}, NEW c \in Cursors \cup {None}, NEW m \in MaxRows \cup {0},
           Submit(s, for, p, c, m)
    PROVE  /\ phase' \in {"startup", "query", "extended", "closed"}
           /\ run' \in Run /\ sent' \in Seq({"A", "E", "Z"})
BY DEF HandlerTypes, Submit, Frames, Run

\* Every statement is one the worker may be given, and so is the query of a DECLARE.
LEMMA GivenSaid == \A s \in Said : s \in Given /\ (s.kw = "DECLARE" => s.query \in Given /\ s.name \in Cursors)
BY SqlAssumption DEF Given, Said, Control

\* DECLARE, FETCH, MOVE and CLOSE.
LEMMA CursorStmtTypes ==
    ASSUME HandlerTypes, PagedExact, NEW s \in Said, s.kw \in CursorKw, NEW m \in MaxRows \cup {0}, CursorStmt(s, m)
    PROVE  HandlerTypes'
<1>1. CASE Raise /\ UNCHANGED <<cursors, store, paged>>
    BY <1>1, RaiseTypes DEF HandlerTypes, Raise
<1>2. CASE /\ s.kw = "DECLARE" /\ Submit(s.query, "declare", None, s.name, 0)
           /\ UNCHANGED <<txn, failed, cursors, store, paged>>
    BY <1>2, GivenSaid, SubmitTypes DEF HandlerTypes
<1>3. CASE s.kw \in {"FETCH", "MOVE"} /\ Known(s.name) /\ FetchPage(s, m) /\ UNCHANGED <<txn, failed, store>>
    <2>1. PICK new \in Cursor, rows \in Seq(1..Total) \cup {None} :
              /\ cursors' = [cursors EXCEPT ![s.name] = new] /\ paged' = [paged EXCEPT ![s.name] = rows]
              /\ rows # None => rows = UpTo(new.offset) /\ new.offset \in 0..Total
        BY <1>3, FetchTypes
    <2>3. paged' \in [Cursors -> Seq(1..Total) \cup {None}]
        BY <2>1 DEF HandlerTypes
    <2>4. cursors' \in [Cursors -> Cursor \cup {None}]
        BY <2>1 DEF HandlerTypes
    <2>5. phase' \in {"query", "idle"} /\ run' = None /\ sent' \in Seq({"A", "E", "Z"})
        BY <1>3, GoesTypes DEF FetchPage
    <2> QED BY <1>3, <2>3, <2>4, <2>5 DEF HandlerTypes
<1>4. CASE CloseStmt(s) /\ UNCHANGED <<txn, failed>>
    BY <1>4, CloseTypes
<1> QED BY <1>1, <1>2, <1>3, <1>4 DEF CursorStmt

\* Any statement that passed the gate.
LEMMA StatementTypes ==
    ASSUME HandlerTypes, PagedExact, NEW s \in Said \cup {Empty}, NEW for \in {"query", "execute"},
           NEW p \in Portals \cup {None}, NEW m \in MaxRows \cup {0}, Statement(s, for, p, m)
    PROVE  HandlerTypes'
<1>1. CASE s.kw \in CursorKw /\ CursorStmt(s, m)
    BY <1>1, CursorStmtTypes DEF Empty, CursorKw
<1>2. CASE /\ s.kw # "EMPTY" /\ Submit(s, for, p, None, m)
           /\ UNCHANGED <<txn, failed, cursors, store, paged>>
    <2>1. s \in Given
        BY <1>2, GivenSaid DEF Empty
    <2>2. phase' \in {"startup", "query", "extended", "closed"} /\ run' \in Run /\ sent' \in Seq({"A", "E", "Z"})
        BY <1>2, <2>1, SubmitTypes
    <2> QED BY <1>2, <2>2 DEF HandlerTypes
<1> QED BY <1>1, <1>2 DEF Statement

\* The result of a statement is sent.
LEMMA EmitTypes ==
    ASSUME HandlerTypes, NEW s, EmitResult(s), txn' \in Txn \cup {None}
    PROVE  HandlerTypes'
<1>1. phase' \in {"query", "idle"} /\ run' = None /\ sent' \in Seq({"A", "E", "Z"})
    BY GoesTypes DEF EmitResult
<1>2. /\ cursors' \in [Cursors -> Cursor \cup {None}] /\ store' \subseteq Cursors
      /\ paged' \in [Cursors -> Seq(1..Total) \cup {None}]
    BY NoCursorsTypes DEF EmitResult, HandlerTypes
<1> QED BY <1>1, <1>2 DEF EmitResult, HandlerTypes

\* The steps that handle a message without a statement of their own.
Plainly ==
    \/ StartSession \/ QueryDone \/ OtherMessage \/ Sync
    \/ \E n \in 0..MaxBatch : Query(n)
    \/ \E n \in Statements, s \in Preparable : Parse(n, s)
    \/ \E p \in Portals, n \in Statements : Bind(p, n)
    \/ \E p \in Portals : ClosePortal(p)
    \/ \E n \in Statements : ClosePrepared(n)
    \/ CancelBackend \/ Disconnect

\* Messages without a statement.
LEMMA PlainlyTypes ==
    ASSUME TypeOK, Plainly
    PROVE  TypeOK'
<1> USE DEF TypeOK
<1>0. /\ <<>> \in Seq({"A", "E", "Z"}) /\ <<"A">> \in Seq({"A", "E", "Z"}) /\ <<"Z">> \in Seq({"A", "E", "Z"})
      /\ <<"E", "Z">> \in Seq({"A", "E", "Z"}) /\ <<"A", "A", "Z">> \in Seq({"A", "E", "Z"})
    OBVIOUS
<1>1. CASE StartSession \/ QueryDone
    <2>1. sent' \in Seq({"A", "E", "Z"})
        <3>1. Append(sent, "Z") \in Seq({"A", "E", "Z"})
            OBVIOUS
        <3> QED BY <1>0, <1>1, <3>1 DEF StartSession, QueryDone
    <2> QED BY <1>1, <2>1 DEF StartSession, QueryDone
<1>9. CASE OtherMessage \/ Sync
    BY <1>0, <1>9 DEF OtherMessage, Sync
<1>2. CASE \E n \in 0..MaxBatch : Query(n)
    <2>1. PICK n \in 0..MaxBatch : Query(n)
        BY <1>2
    <2>2. sent' = <<"A">> \/ sent' = <<>>
        BY <2>1, Zenon DEF Query
    <2>3. sent' \in Seq({"A", "E", "Z"})
        BY <1>0, <2>2
    <2>4. rest' \in Nat
        BY <2>1, PgBounds DEF Query
    <2> QED BY <2>1, <2>3, <2>4 DEF Query
<1>3. CASE \E n \in Statements, s \in Preparable : Parse(n, s)
    BY <1>3 DEF Parse
<1>4. CASE \E p \in Portals, n \in Statements : Bind(p, n)
    BY <1>4 DEF Bind
<1>5. CASE \E p \in Portals : ClosePortal(p)
    BY <1>5 DEF ClosePortal
<1>6. CASE \E n \in Statements : ClosePrepared(n)
    BY <1>6 DEF ClosePrepared
<1>7. CASE CancelBackend
    BY <1>7 DEF CancelBackend, Run
<1>8. CASE Disconnect
    BY <1>8 DEF Disconnect
<1> QED BY <1>1, <1>2, <1>3, <1>4, <1>5, <1>6, <1>7, <1>8, <1>9 DEF Plainly

\* The next statement of a simple query, blocked or not.
LEMMA NextStatementTypes ==
    ASSUME TypeOK, PagedExact, NEW s \in Sql, NextStatement(s)
    PROVE  TypeOK'
<1>1. HandlerTypes /\ OtherTypes
    BY TypeParts
<1>2. HandlerTypes'
    <2>1. CASE Blocked(s)
        BY <1>1, <2>1 DEF NextStatement, HandlerTypes, Statement
    <2>2. CASE ~Blocked(s)
        <3>1. Statement(s, "query", None, 0) /\ s \in Said \cup {Empty}
            BY <2>2 DEF NextStatement, Said
        <3> QED BY <1>1, <3>1, StatementTypes
    <2> QED BY <2>1, <2>2
<1>3. OtherTypes'
    BY <1>1 DEF NextStatement, OtherTypes
<1> QED BY <1>2, <1>3, TypePartsNext

\* A malformed message.
LEMMA BadMessageTypes ==
    ASSUME TypeOK, BadMessage
    PROVE  TypeOK'
<1>1. HandlerTypes'
    BY TypeParts, RaiseTypes DEF BadMessage, HandlerTypes, Raise
<1>2. OtherTypes'
    BY TypeParts DEF BadMessage, OtherTypes
<1> QED BY <1>1, <1>2, TypePartsNext

\* Describe of a portal.
LEMMA DescribeTypes ==
    ASSUME TypeOK, NEW p \in Portals, Describe(p)
    PROVE  TypeOK'
<1>1. HandlerTypes /\ OtherTypes
    BY TypeParts
<1>2. CASE IsSelect(portals[p]) /\ Submit(portals[p], "describe", p, None, 0)
    <2>1. portals[p] \in Given
        BY <1>1, <1>2, GivenSaid DEF OtherTypes, IsSelect, Empty, Said
    <2>2. phase' \in {"startup", "query", "extended", "closed"} /\ run' \in Run /\ sent' \in Seq({"A", "E", "Z"})
        BY <1>1, <1>2, <2>1, SubmitTypes
    <2> QED BY <2>2 DEF TypeOK, Describe
<1>3. CASE sent' = <<"A">> /\ UNCHANGED <<phase, run>>
    BY <1>3 DEF TypeOK, Describe
<1> QED BY <1>2, <1>3 DEF Describe

\* Execute of a portal.
LEMMA ExecuteTypes ==
    ASSUME TypeOK, PagedExact, NEW p \in Portals, NEW m \in MaxRows, Execute(p, m)
    PROVE  TypeOK'
<1>1. HandlerTypes /\ OtherTypes
    BY TypeParts
<1>2. HandlerTypes'
    <2>1. CASE (Goes(<<"A">>) \/ Goes(<<"E">>)) /\ UNCHANGED <<txn, failed, cursors, store, paged>>
        BY <1>1, <2>1, GoesTypes DEF HandlerTypes
    <2>2. CASE portals[p] # None /\ Statement(portals[p], "execute", p, m)
        <3>1. portals[p] \in Said \cup {Empty}
            BY <1>1, <2>2 DEF OtherTypes, Said
        <3> QED BY <1>1, <2>2, <3>1, StatementTypes
    <2>3. CASE EmitResult(portals[p]) /\ UNCHANGED txn
        BY <1>1, <2>3, EmitTypes DEF HandlerTypes
    <2> QED BY <2>1, <2>2, <2>3 DEF Execute
<1>3. OtherTypes'
    BY <1>1 DEF Execute, OtherTypes
<1> QED BY <1>2, <1>3, TypePartsNext

\* The worker is done with a statement, and its handler resumes.
LEMMA RunEndTypes ==
    ASSUME TypeOK, RunPlace, run # None, RunSucceeds \/ RunRaises \/ RunCancelled
    PROVE  TypeOK'
<1>1. HandlerTypes /\ OtherTypes /\ run \in Run
    BY TypeParts DEF HandlerTypes
<1>2. cache' = cache => OtherTypes'
    <2>1. rest' \in Nat /\ UNCHANGED <<statements, portals, gone>>
        BY <1>1 DEF RunSucceeds, RunRaises, RunCancelled, Stopped, OtherTypes
    <2>2. spoiled' \in BOOLEAN
        BY <1>1 DEF RunSucceeds, RunRaises, RunCancelled, Stopped, EngineTxn, EngineRuns, DeclareRefused, OtherTypes
    <2> QED BY <1>1, <2>1, <2>2 DEF OtherTypes
<1>3. EngineTxn(run.sql) => txn' \in Txn \cup {None}
    BY <1>1 DEF EngineTxn, TxnAfter, HandlerTypes, Txn
<1>4. CASE Raise /\ UNCHANGED <<cache, cursors, store, paged>>
    BY <1>1, <1>2, <1>4, RaiseTypes, TypePartsNext DEF HandlerTypes, Raise
<1>11. CASE DeclareRefused
    <2>1. cursors' \in [Cursors -> Cursor \cup {None}]
        <3>1. \A c \in Cursors : cursors[c] # None => [cursors[c] EXCEPT !.owner = "left"] \in Cursor
            BY <1>1 DEF HandlerTypes, Cursor
        <3> QED BY <1>1, <1>11, <3>1 DEF DeclareRefused, HandlerTypes
    <2>2. HandlerTypes'
        BY <1>1, <1>11, <2>1, RaiseTypes DEF HandlerTypes, DeclareRefused
    <2> QED BY <1>2, <1>11, <2>2, TypePartsNext DEF DeclareRefused
<1>5. CASE EngineTxn(run.sql) /\ EmitResult(run.sql) /\ UNCHANGED cache
    BY <1>1, <1>2, <1>3, <1>5, EmitTypes, TypePartsNext
<1>6. CASE Goes(<<"A">>) /\ UNCHANGED <<txn, failed, cache, cursors, store, paged>>
    BY <1>1, <1>2, <1>6, GoesTypes, TypePartsNext DEF HandlerTypes
<1>7. CASE /\ run.for = "describe" /\ EngineTxn(run.sql) /\ Goes(<<"A">>)
           /\ cache' = [cache EXCEPT ![run.portal] = run.sql]
           /\ UNCHANGED <<failed, cursors, store, paged>>
           /\ RunSucceeds
    <2>1. run.portal \in Portals /\ run.sql \in Preparable
        BY <1>7 DEF RunPlace
    <2>2. cache' \in [Portals -> Preparable \cup {None}]
        BY <1>1, <1>7, <2>1 DEF OtherTypes
    <2>3. OtherTypes'
        BY <1>1, <1>7, <2>2 DEF RunSucceeds, EngineTxn, EngineRuns, OtherTypes
    <2>4. HandlerTypes'
        BY <1>1, <1>3, <1>7, GoesTypes DEF HandlerTypes
    <2> QED BY <2>3, <2>4, TypePartsNext
<1>8. CASE run.for = "declare" /\ EngineTxn(run.sql) /\ OpenCursor /\ UNCHANGED <<failed, cache>>
    <2>1. run.name \in Cursors
        BY <1>8 DEF RunPlace
    <2>2. [offset |-> 0, strayed |-> FALSE, owner |-> IF InTxn THEN "txn" ELSE "none"] \in Cursor
        BY PgBounds DEF Cursor, Positions
    <2>3. cursors' \in [Cursors -> Cursor \cup {None}] /\ store' \subseteq Cursors
        BY <1>1, <1>8, <2>1, <2>2 DEF OpenCursor, HandlerTypes
    <2>4. paged' \in [Cursors -> Seq(1..Total) \cup {None}]
        BY <1>1, <1>8, <2>1 DEF OpenCursor, HandlerTypes
    <2>5. HandlerTypes'
        BY <1>1, <1>3, <1>8, <2>3, <2>4, GoesTypes DEF HandlerTypes, OpenCursor
    <2> QED BY <1>2, <1>8, <2>5, TypePartsNext
<1>9. CASE RunSucceeds
    BY <1>5, <1>7, <1>8, <1>9, <1>11 DEF RunSucceeds
<1>10. CASE RunRaises \/ RunCancelled
    BY <1>4, <1>6, <1>10 DEF RunRaises, RunCancelled, Stopped
<1> QED BY <1>9, <1>10

\* Type correctness is preserved by every step.
LEMMA TypesNext ==
    ASSUME TypeOK, RunPlace, PagedExact, [Next]_pgvars
    PROVE  TypeOK'
<1>1. CASE Plainly
    BY <1>1, PlainlyTypes
<1>2. CASE \E s \in Sql : NextStatement(s)
    BY <1>2, NextStatementTypes
<1>3. CASE BadMessage
    BY <1>3, BadMessageTypes
<1>4. CASE \E p \in Portals : Describe(p)
    BY <1>4, DescribeTypes
<1>5. CASE \E p \in Portals, m \in MaxRows : Execute(p, m)
    BY <1>5, ExecuteTypes
<1>6. CASE RunSucceeds \/ RunRaises \/ RunCancelled
    BY <1>6, RunEndTypes DEF RunSucceeds, RunRaises, RunCancelled
<1>7. CASE Cleanup
    BY <1>7, NoCursorsTypes DEF Cleanup, TypeOK
<1>8. CASE UNCHANGED pgvars
    BY <1>8 DEF pgvars, TypeOK
<1> QED BY <1>1, <1>2, <1>3, <1>4, <1>5, <1>6, <1>7, <1>8 DEF Next, Plainly

----------------------------------------------------------------------------
(***************************************************************************)
(* The statement at the worker, and the gate.                              *)
(***************************************************************************)

\* A statement goes to the worker only if it was not blocked.
LEMMA StatementRuns ==
    ASSUME TypeOK, NEW s \in Said \cup {Empty}, ~Blocked(s), NEW for \in {"query", "execute"},
           NEW p \in Portals \cup {None}, NEW m \in MaxRows \cup {0}, phase \in {"idle", "query"},
           run = None, Statement(s, for, p, m)
    PROVE  RunPlace'
<1> USE DEF RunPlace
<1>1. CASE s.kw \in CursorKw
    <2>1. s \in Said
        BY <1>1 DEF CursorKw, Empty
    <2>2. CASE s.kw = "DECLARE" /\ Submit(s.query, "declare", None, s.name, 0) /\ UNCHANGED failed
        BY <2>1, <2>2, SqlAssumption DEF Submit, Blocked, Said, Control
    <2>3. CASE run' = None
        BY <2>3
    <2> QED BY <1>1, <2>2, <2>3 DEF Statement, CursorStmt, CursorKw, Raise, RaiseIn, FetchPage, CloseStmt, Goes
<1>2. CASE s.kw \notin CursorKw
    <2>1. s \in Said /\ Submit(s, for, p, None, m) /\ UNCHANGED failed
        BY <1>2 DEF Statement, Empty
    <2>2. s.kw \in Control \cup {"SELECT"}
        BY <1>2, <2>1, SqlAssumption DEF Said, Control, CursorKw
    <2> QED BY <2>1, <2>2 DEF Submit, Blocked
<1> QED BY <1>1, <1>2

\* Nothing moves the gate or a portal while a statement is at the worker.
LEMMA RunNext ==
    ASSUME TypeOK, RunPlace, [Next]_pgvars
    PROVE  RunPlace'
<1>1. CASE StartSession \/ QueryDone \/ OtherMessage \/ Sync \/ \E n \in 0..MaxBatch : Query(n)
    BY <1>1 DEF RunPlace, StartSession, QueryDone, OtherMessage, Sync, Query, Reads
<1>2. CASE \/ \E n \in Statements, s \in Preparable : Parse(n, s)
           \/ \E p \in Portals, n \in Statements : Bind(p, n)
           \/ \E p \in Portals : ClosePortal(p)
           \/ \E n \in Statements : ClosePrepared(n)
    BY <1>2 DEF RunPlace, Parse, Bind, ClosePortal, ClosePrepared, Reads
<1>3. CASE CancelBackend
    BY <1>3 DEF RunPlace, CancelBackend, TypeOK, Run
<1>4. CASE Disconnect \/ Cleanup \/ UNCHANGED pgvars
    BY <1>4 DEF RunPlace, Disconnect, Cleanup, pgvars
<1>5. ASSUME NEW s \in Sql, NextStatement(s)
      PROVE  RunPlace'
    <2>1. CASE Blocked(s)
        BY <1>5, <2>1 DEF NextStatement, RunPlace
    <2>2. CASE ~Blocked(s)
        BY <1>5, <2>2, StatementRuns DEF NextStatement, Said
    <2> QED BY <2>1, <2>2
<1>6. CASE BadMessage \/ RunRaises \/ RunCancelled \/ RunSucceeds
    BY <1>6 DEF BadMessage, RunRaises, RunCancelled, RunSucceeds, Stopped, Raise, RaiseIn, DeclareRefused,
                EmitResult, OpenCursor, Goes, RunPlace
<1>7. ASSUME NEW p \in Portals, Describe(p)
      PROVE  RunPlace'
    <2>1. CASE IsSelect(portals[p]) /\ Submit(portals[p], "describe", p, None, 0)
        <3>1. portals[p] \in Preparable /\ portals[p].kw = "SELECT"
            BY <2>1 DEF TypeOK, IsSelect, Empty
        <3> QED BY <1>7, <2>1, <3>1 DEF Describe, Reads, Submit, RunPlace
    <2>2. CASE UNCHANGED <<phase, run>>
        BY <1>7, <2>2 DEF Describe, Reads, RunPlace
    <2> QED BY <1>7, <2>1, <2>2 DEF Describe
<1>8. ASSUME NEW p \in Portals, NEW m \in MaxRows, Execute(p, m)
      PROVE  RunPlace'
    <2>1. phase = "idle" /\ run = None
        BY <1>8 DEF Execute, Reads, RunPlace
    <2>2. CASE Goes(<<"A">>) \/ Goes(<<"E">>) \/ EmitResult(portals[p])
        BY <2>2 DEF Goes, EmitResult, RunPlace
    <2>3. CASE portals[p] # None /\ ~Blocked(portals[p]) /\ Statement(portals[p], "execute", p, m)
        <3>1. portals[p] \in Said \cup {Empty}
            BY <2>3 DEF TypeOK, Said
        <3> QED BY <2>1, <2>3, <3>1, StatementRuns
    <2> QED BY <1>8, <2>2, <2>3 DEF Execute
<1> QED BY <1>1, <1>2, <1>3, <1>4, <1>5, <1>6, <1>7, <1>8 DEF Next

\* A client that does not rebind keeps cached results and portals together.
LEMMA CacheNext ==
    ASSUME TypeOK, RunPlace, CacheExact, ~Rebinds, [Next]_pgvars
    PROVE  CacheExact'
<1>1. ASSUME NEW p \in Portals, NEW n \in Statements, Bind(p, n)
      PROVE  CacheExact'
    BY <1>1 DEF Bind, Described, CacheExact, TypeOK
<1>2. ASSUME NEW p \in Portals, ClosePortal(p)
      PROVE  CacheExact'
    BY <1>2 DEF ClosePortal, Described, CacheExact, TypeOK
<1>3. ASSUME NEW p \in Portals, NEW m \in MaxRows, Execute(p, m)
      PROVE  CacheExact'
    <2>1. cache' = [cache EXCEPT ![p] = IF portals[p] = None THEN @ ELSE None] /\ UNCHANGED portals
        BY <1>3 DEF Execute
    <2> QED BY <2>1 DEF CacheExact, TypeOK
<1>4. CASE RunSucceeds
    <2>1. CASE run.for = "describe" /\ cache' = [cache EXCEPT ![run.portal] = run.sql] /\ UNCHANGED portals
        BY <1>4, <2>1 DEF RunSucceeds, RunPlace, CacheExact, TypeOK
    <2>2. CASE UNCHANGED <<cache, portals>>
        BY <2>2 DEF CacheExact
    <2> QED BY <1>4, <2>1, <2>2 DEF RunSucceeds, DeclareRefused
<1>5. CASE UNCHANGED <<cache, portals>>
    BY <1>5 DEF CacheExact
<1>6. ASSUME \/ StartSession \/ QueryDone \/ BadMessage \/ OtherMessage \/ Sync
             \/ \E n \in 0..MaxBatch : Query(n)
             \/ \E s \in Sql : NextStatement(s)
             \/ \E n \in Statements, s \in Preparable : Parse(n, s)
             \/ \E p \in Portals : Describe(p)
             \/ \E n \in Statements : ClosePrepared(n)
             \/ RunRaises \/ CancelBackend \/ RunCancelled \/ Disconnect \/ Cleanup
      PROVE  UNCHANGED <<cache, portals>>
    BY <1>6 DEF StartSession, QueryDone, BadMessage, OtherMessage, Sync, Query, NextStatement, Parse, Describe,
                ClosePrepared, RunRaises, CancelBackend, RunCancelled, Stopped, Disconnect, Cleanup
<1>7. CASE UNCHANGED pgvars
    BY <1>5, <1>7 DEF pgvars
<1> QED BY <1>1, <1>2, <1>3, <1>4, <1>5, <1>6, <1>7 DEF Next

\* Steps after which the gate and the transaction are what they were.
LEMMA GateKept ==
    ASSUME GateExact, phase # "closed", UNCHANGED <<txn, failed>>
    PROVE  GateExact'
BY DEF GateExact, InTxn

\* An exception closes the gate exactly if a transaction is open; none is if the gate was open
\* and the statement has ended the transaction.
LEMMA RaiseInGate ==
    ASSUME TypeOK, NEW x \in Txn \cup {None}, x = None => ~failed, RaiseIn(x)
    PROVE  GateExact'
<1>1. None \notin Txn
    BY PgNames
<1>2. CASE x # None
    <2>1. txn' = [poisoned |-> TRUE] /\ failed' = TRUE /\ [poisoned |-> TRUE] \in Txn
        BY <1>2 DEF RaiseIn, Txn
    <2> QED BY <1>1, <2>1 DEF GateExact, InTxn
<1>3. CASE x = None
    <2>1. txn' = None /\ failed' = FALSE
        BY <1>3 DEF RaiseIn, TypeOK
    <2> QED BY <2>1 DEF GateExact, InTxn
<1> QED BY <1>2, <1>3

\* An exception of a statement that has not touched the transaction.
LEMMA RaiseGate ==
    ASSUME TypeOK, GateExact, phase # "closed", Raise
    PROVE  GateExact'
<1>1. txn \in Txn \cup {None} /\ (txn = None => ~failed)
    BY DEF TypeOK, GateExact, InTxn
<1> QED BY <1>1, RaiseInGate DEF Raise

\* A statement that passed the gate moves it only by raising.
LEMMA StatementGate ==
    ASSUME TypeOK, GateExact, phase # "closed", NEW s, NEW for, NEW p, NEW m, Statement(s, for, p, m)
    PROVE  GateExact'
<1>1. Raise \/ UNCHANGED <<txn, failed>>
    BY DEF Statement, CursorStmt
<1> QED BY <1>1, RaiseGate, GateKept

\* A statement that ends moves the gate and the transaction together.
LEMMA EndGate ==
    ASSUME TypeOK, GateExact, AbortedNeverCommits, RunPlace, run # None, run.for \in {"query", "execute"},
           EngineTxn(run.sql), EmitResult(run.sql)
    PROVE  GateExact' /\ AbortedNeverCommits'
<1>1. /\ phase # "closed" /\ (run.sql.kw # "ROLLBACK" => ~failed)
      /\ run.sql.kw \in Control \cup {"SELECT"}
      /\ failed' = (failed /\ run.sql.kw # "ROLLBACK")
    BY DEF RunPlace, EmitResult
<1>2. CASE run.sql.kw = "BEGIN"
    <2>1. txn' = [poisoned |-> FALSE] /\ spoiled' = spoiled /\ failed' = FALSE
        BY <1>1, <1>2 DEF EngineTxn, EngineRuns, TxnAfter, TypeOK
    <2> QED BY <2>1 DEF GateExact, AbortedNeverCommits, InTxn
<1>3. CASE run.sql.kw = "COMMIT"
    <2>1. txn # None /\ txn' = None /\ failed' = FALSE /\ failed = FALSE
        BY <1>1, <1>3 DEF EngineTxn, EngineRuns, TxnAfter, InTxn, TypeOK
    <2>2. ~txn.poisoned
        BY <1>1, <2>1 DEF GateExact, InTxn
    <2>3. spoiled' = FALSE
        BY <2>2 DEF EngineTxn, EngineRuns, AbortedNeverCommits, TypeOK
    <2> QED BY <2>1, <2>3 DEF GateExact, AbortedNeverCommits, InTxn
<1>4. CASE run.sql.kw = "ROLLBACK"
    <2>1. txn' = None /\ failed' = FALSE /\ spoiled' = spoiled
        BY <1>1, <1>4 DEF EngineTxn, EngineRuns, TxnAfter, TypeOK
    <2> QED BY <2>1 DEF GateExact, AbortedNeverCommits, InTxn
<1>5. CASE run.sql.kw \in {"SELECT", "WRITE"}
    <2>1. UNCHANGED <<txn, failed, spoiled>>
        BY <1>1, <1>5 DEF EngineTxn, EngineRuns, TxnAfter, TypeOK
    <2> QED BY <1>1, <2>1, GateKept DEF AbortedNeverCommits
<1> QED BY <1>1, <1>2, <1>3, <1>4, <1>5 DEF Control

\* The query of a refused DECLARE may end a transaction, but no failed one, or begin one that the
\* refusal then fails.
LEMMA RefusedGate ==
    ASSUME TypeOK, GateExact, AbortedNeverCommits, RunPlace, run # None, run.for = "declare", DeclareRefused
    PROVE  GateExact' /\ AbortedNeverCommits'
<1>1. phase # "closed" /\ ~failed /\ EngineRuns(run.sql) /\ RaiseIn(TxnAfter(run.sql))
    BY DEF RunPlace, DeclareRefused
<1>2. spoiled' = FALSE
    <2>1. run.sql.kw = "COMMIT" => txn # None /\ ~txn.poisoned
        BY <1>1 DEF EngineRuns, GateExact, InTxn
    <2> QED BY <1>1, <2>1 DEF EngineRuns, AbortedNeverCommits, TypeOK
<1>3. TxnAfter(run.sql) \in Txn \cup {None}
    BY DEF TxnAfter, TypeOK, Txn
<1> QED BY <1>1, <1>2, <1>3, RaiseInGate DEF AbortedNeverCommits

\* Every step keeps the gate exact and commits no failed transaction.
LEMMA GateNext ==
    ASSUME TypeOK, RunPlace, CacheExact, GateExact, AbortedNeverCommits, [Next]_pgvars
    PROVE  GateExact' /\ AbortedNeverCommits'
<1>1. ASSUME Plainly \/ \E p \in Portals : Describe(p)
      PROVE  phase # "closed" /\ UNCHANGED <<txn, failed, spoiled>>
    BY <1>1 DEF Plainly, StartSession, QueryDone, OtherMessage, Sync, Query, Parse, Bind, ClosePortal,
                ClosePrepared, CancelBackend, Disconnect, Describe, Reads, RunPlace
<1>2. ASSUME NEW s \in Sql, NextStatement(s)
      PROVE  GateExact' /\ AbortedNeverCommits'
    <2>1. phase # "closed" /\ UNCHANGED spoiled
        BY <1>2 DEF NextStatement
    <2>2. UNCHANGED <<txn, failed>> \/ Statement(s, "query", None, 0)
        BY <1>2 DEF NextStatement
    <2> QED BY <2>1, <2>2, GateKept, StatementGate DEF AbortedNeverCommits
<1>3. CASE BadMessage
    BY <1>3, RaiseGate DEF BadMessage, Reads, AbortedNeverCommits
<1>4. ASSUME NEW p \in Portals, NEW m \in MaxRows, Execute(p, m)
      PROVE  GateExact' /\ AbortedNeverCommits'
    <2>1. phase # "closed" /\ UNCHANGED spoiled
        BY <1>4 DEF Execute, Reads
    <2>2. CASE UNCHANGED <<txn, failed>>
        BY <2>1, <2>2, GateKept DEF AbortedNeverCommits
    <2>3. CASE Statement(portals[p], "execute", p, m)
        BY <2>1, <2>3, StatementGate DEF AbortedNeverCommits
    <2>4. CASE cache[p] # None /\ EmitResult(portals[p]) /\ UNCHANGED txn
        <3>1. failed' = failed
            BY <2>4 DEF CacheExact, EmitResult, TypeOK
        <3> QED BY <2>1, <2>4, <3>1, GateKept DEF AbortedNeverCommits
    <2> QED BY <1>4, <2>2, <2>3, <2>4 DEF Execute
<1>5. CASE RunSucceeds
    <2>1. run # None /\ phase # "closed"
        BY <1>5 DEF RunSucceeds, RunPlace
    <2>2. CASE run.for \in {"query", "execute"} /\ EngineTxn(run.sql) /\ EmitResult(run.sql)
        BY <2>1, <2>2, EndGate
    <2>3. CASE /\ EngineTxn(run.sql) /\ UNCHANGED failed
               /\ run.for = "describe" \/ (run.for = "declare" /\ DeclareOk)
        <3>1. run.sql.kw = "SELECT"
            BY <2>1, <2>3 DEF RunPlace, DeclareOk
        <3>2. UNCHANGED <<txn, spoiled>>
            BY <2>3, <3>1 DEF EngineTxn, EngineRuns, TxnAfter, TypeOK
        <3> QED BY <2>1, <2>3, <3>2, GateKept DEF AbortedNeverCommits
    <2>4. CASE run.for = "declare" /\ DeclareRefused
        BY <2>1, <2>4, RefusedGate
    <2> QED BY <1>5, <2>2, <2>3, <2>4 DEF RunSucceeds
<1>6. CASE RunRaises \/ RunCancelled
    <2>1. phase # "closed" /\ UNCHANGED spoiled /\ (Raise \/ UNCHANGED <<txn, failed>>)
        BY <1>6 DEF RunRaises, RunCancelled, Stopped, RunPlace
    <2> QED BY <2>1, RaiseGate, GateKept DEF AbortedNeverCommits
<1>7. CASE Cleanup
    BY <1>7 DEF Cleanup, GateExact, AbortedNeverCommits
<1>8. CASE UNCHANGED pgvars
    BY <1>8 DEF pgvars, GateExact, AbortedNeverCommits, InTxn
<1>9. CASE Plainly \/ \E p \in Portals : Describe(p)
    BY <1>1, <1>9, GateKept DEF AbortedNeverCommits
<1> QED BY <1>2, <1>3, <1>4, <1>5, <1>6, <1>7, <1>8, <1>9 DEF Next, Plainly

----------------------------------------------------------------------------
(***************************************************************************)
(* Cursors.                                                                *)
(***************************************************************************)

CursorsInv == CursorsOwned /\ PagedExact /\ IsFiniteSet(store)

\* A transaction is not the absence of one.
LEMMA TxnNotNone == [poisoned |-> TRUE] # None /\ [poisoned |-> FALSE] # None
<1>1. [poisoned |-> TRUE] \in Txn /\ [poisoned |-> FALSE] \in Txn
    BY DEF Txn
<1> QED BY <1>1, PgNames

\* Cursors may stay as long as a transaction does.
LEMMA CursorsKept ==
    ASSUME CursorsInv, UNCHANGED <<cursors, store, paged>>, InTxn => InTxn'
    PROVE  CursorsInv'
BY DEF CursorsInv, CursorsOwned, PagedExact, Position

\* Nothing is left to be wrong when every cursor is closed.
LEMMA NoCursorsInv ==
    ASSUME NoCursors
    PROVE  CursorsInv'
<1>1. store' = {} /\ \A c \in Cursors : cursors'[c] = None /\ paged'[c] = <<>>
    BY DEF NoCursors
<1>2. IsFiniteSet({}) /\ Cardinality({}) = 0
    BY FS_EmptySet
<1>3. UpTo(0) = <<>>
    BY DEF UpTo
<1> QED BY <1>1, <1>2, <1>3, PgBounds DEF CursorsInv, CursorsOwned, PagedExact, Position

\* What CursorsOwned says of one cursor.
Placed(c) == /\ cursors[c].strayed \/ cursors[c].offset \in 0..Total
             /\ cursors[c].owner = "txn" => InTxn

\* FETCH and MOVE move one cursor.
LEMMA FetchInv ==
    ASSUME TypeOK, CursorsInv, NEW s \in Said, s.kw \in {"FETCH", "MOVE"}, Known(s.name),
           NEW m \in MaxRows \cup {0}, FetchPage(s, m), UNCHANGED <<txn, store>>
    PROVE  CursorsInv'
<1> DEFINE c == s.name
<1>1. c \in Cursors /\ cursors[c] \in Cursor
    BY FetchTypes, TypeParts DEF CursorsInv
<1>2. PICK new \in Cursor, rows \in Seq(1..Total) \cup {None} :
                 /\ cursors' = [cursors EXCEPT ![c] = new] /\ new.owner = cursors[c].owner
                 /\ ~new.strayed /\ cursors[c].offset \in 0..Total => new.offset \in 0..Total
                 /\ ~new.strayed => ~cursors[c].strayed
                 /\ paged' = [paged EXCEPT ![c] = rows]
                 /\ rows # None => rows = UpTo(new.offset) /\ new.offset \in 0..Total
    BY FetchTypes, TypeParts DEF CursorsInv
<1>3. /\ cursors'[c] = new /\ paged'[c] = rows
      /\ \A d \in Cursors \ {c} : cursors'[d] = cursors[d] /\ paged'[d] = paged[d]
    BY <1>1, <1>2 DEF TypeOK
<1>4. cursors[c] # None /\ cursors'[c] # None
    BY <1>1, <1>2, <1>3, PgNames
<1>5. PagedExact'
    <2>1. Position(c)' = new.offset
        BY <1>3, <1>4 DEF Position
    <2>2. ASSUME NEW d \in Cursors \ {c}
          PROVE  paged'[d] # None => paged'[d] = UpTo(Position(d)') /\ Position(d)' \in 0..Total
        BY <1>3 DEF PagedExact, Position, CursorsInv
    <2> QED BY <1>2, <1>3, <2>1, <2>2 DEF PagedExact
<1>6. CursorsOwned'
    <2>1. store' = {d \in Cursors : cursors'[d] # None}
        BY <1>1, <1>3, <1>4 DEF CursorsInv, CursorsOwned
    <2>2. c \in store /\ Placed(c)
        BY <1>1, <1>4 DEF CursorsInv, CursorsOwned, Placed
    <2>3. Placed(c)'
        BY <1>2, <1>3, <2>2 DEF Placed, InTxn
    <2>4. ASSUME NEW d \in store', d # c
          PROVE  Placed(d)'
        <3>1. d \in store /\ d \in Cursors
            BY <2>4 DEF TypeOK
        <3> QED BY <1>3, <2>4, <3>1 DEF CursorsInv, CursorsOwned, Placed, InTxn
    <2> QED BY <2>1, <2>3, <2>4 DEF CursorsInv, CursorsOwned, Placed
<1> QED BY <1>5, <1>6 DEF CursorsInv

\* CLOSE removes cursors from both tables.
LEMMA CloseInv ==
    ASSUME TypeOK, CursorsInv, NEW s, CloseStmt(s), UNCHANGED txn
    PROVE  CursorsInv'
<1>1. store' \subseteq store /\ IsFiniteSet(store') /\ Cardinality(store') <= Cardinality(store)
    BY FS_Subset DEF CloseStmt, CursorsInv
<1>2. Cardinality(store') <= MaxCursors
    BY <1>1, FS_CardinalityType, PgBounds DEF CursorsInv, CursorsOwned
<1>3. \A c \in Cursors : \/ s.name \in {c, All} /\ cursors'[c] = None /\ paged'[c] = <<>>
                         \/ s.name \notin {c, All} /\ cursors'[c] = cursors[c] /\ paged'[c] = paged[c]
    BY DEF CloseStmt
<1>4. store' = {c \in Cursors : cursors'[c] # None}
    BY <1>3 DEF CloseStmt, CursorsInv, CursorsOwned
<1>5. \A c \in store' : Placed(c)'
    BY <1>1, <1>3, <1>4 DEF CursorsInv, CursorsOwned, Placed, InTxn
<1>6. UpTo(0) = <<>>
    BY DEF UpTo
<1>7. PagedExact'
    BY <1>3, <1>6, PgBounds DEF PagedExact, Position, CursorsInv
<1> QED BY <1>1, <1>2, <1>4, <1>5, <1>7 DEF CursorsInv, CursorsOwned, Placed

\* DECLARE opens a cursor in both tables, within the limit.
LEMMA OpenInv ==
    ASSUME TypeOK, CursorsInv, NEW c \in Cursors, c = run.name, DeclareOk, OpenCursor, UNCHANGED txn
    PROVE  CursorsInv'
<1>1. store' = store \cup {c} /\ IsFiniteSet(store')
    BY FS_AddElement DEF OpenCursor, CursorsInv
<1>2. Cardinality(store') <= MaxCursors
    <2>1. Cardinality(store) \in Nat /\ Cardinality(store) < MaxCursors
        BY FS_CardinalityType DEF CursorsInv, DeclareOk
    <2>2. Cardinality(store') = IF c \in store THEN Cardinality(store) ELSE Cardinality(store) + 1
        BY <1>1, FS_AddElement DEF CursorsInv
    <2> QED BY <2>1, <2>2, PgBounds
<1> DEFINE new == [offset |-> 0, strayed |-> FALSE, owner |-> IF InTxn THEN "txn" ELSE "none"]
<1>3. /\ cursors'[c] = new /\ paged'[c] = <<>>
      /\ \A d \in Cursors \ {c} : cursors'[d] = cursors[d] /\ paged'[d] = paged[d]
    BY DEF OpenCursor, TypeOK
<1>4. cursors'[c] # None
    <2>1. new \in Cursor
        BY PgBounds DEF Cursor, Positions
    <2> QED BY <1>3, <2>1, PgNames
<1>5. store' = {d \in Cursors : cursors'[d] # None}
    BY <1>1, <1>3, <1>4 DEF CursorsInv, CursorsOwned
<1>6. \A d \in store' : Placed(d)'
    <2>1. Placed(c)'
        BY <1>3, PgBounds DEF Placed, InTxn
    <2>2. \A d \in store \ {c} : Placed(d)'
        BY <1>3 DEF CursorsInv, CursorsOwned, Placed, InTxn
    <2> QED BY <1>1, <2>1, <2>2
<1>7. UpTo(0) = <<>>
    BY DEF UpTo
<1>8. PagedExact'
    <2>1. Position(c)' = 0
        BY <1>3, <1>4 DEF Position
    <2> QED BY <1>3, <1>7, <2>1, PgBounds DEF PagedExact, Position, CursorsInv
<1> QED BY <1>1, <1>2, <1>5, <1>6, <1>8 DEF CursorsInv, CursorsOwned, Placed

\* A refused DECLARE leaves every cursor open; those of a transaction it has ended are marked.
LEMMA RefusedInv ==
    ASSUME TypeOK, CursorsInv, RunPlace, run # None, run.for = "declare", DeclareRefused
    PROVE  CursorsInv'
<1> DEFINE Ends == run.sql.kw \in {"COMMIT", "ROLLBACK"}
<1>1. ASSUME ~Ends, InTxn
      PROVE  InTxn'
    <2>1. TxnAfter(run.sql) # None
        BY <1>1, TxnNotNone DEF TxnAfter, InTxn
    <2> QED BY <2>1, TxnNotNone DEF DeclareRefused, RaiseIn, InTxn
<1>2. ASSUME NEW c \in Cursors
      PROVE  \/ cursors'[c] = cursors[c] /\ (cursors[c] = None \/ cursors[c].owner # "txn" \/ ~Ends)
             \/ /\ cursors[c] \in Cursor /\ cursors'[c] = [cursors[c] EXCEPT !.owner = "left"]
                /\ cursors[c] # None /\ cursors'[c] \in Cursor /\ cursors'[c].offset = cursors[c].offset
                /\ cursors'[c].strayed = cursors[c].strayed /\ cursors'[c].owner = "left"
    <2>1. CASE cursors[c] # None /\ cursors[c].owner = "txn" /\ Ends
        <3>1. cursors[c] \in Cursor /\ cursors'[c] = [cursors[c] EXCEPT !.owner = "left"]
            BY <2>1 DEF TypeOK, DeclareRefused
        <3> QED BY <2>1, <3>1 DEF Cursor
    <2>2. CASE ~(cursors[c] # None /\ cursors[c].owner = "txn" /\ Ends)
        BY <2>2 DEF DeclareRefused
    <2> QED BY <2>1, <2>2
<1>3. \A c \in Cursors : (cursors'[c] # None) <=> (cursors[c] # None)
    BY <1>2, PgNames
<1>4. UNCHANGED <<store, paged>>
    BY DEF DeclareRefused
<1>5. PagedExact'
    <2>1. \A c \in Cursors : Position(c)' = Position(c)
        BY <1>2, <1>3 DEF Position
    <2> QED BY <1>4, <2>1 DEF PagedExact, CursorsInv
<1>6. store' = {c \in Cursors : cursors'[c] # None}
    BY <1>3, <1>4 DEF CursorsInv, CursorsOwned
<1>7. ASSUME NEW c \in store'
      PROVE  Placed(c)'
    <2>1. c \in store /\ c \in Cursors /\ cursors[c] # None /\ Placed(c)
        BY <1>4, <1>7 DEF TypeOK, CursorsInv, CursorsOwned, Placed
    <2> QED BY <1>1, <1>2, <2>1 DEF Placed
<1> QED BY <1>4, <1>5, <1>6, <1>7 DEF CursorsInv, CursorsOwned, Placed

\* Any statement that passed the gate keeps the cursors in order.
LEMMA StatementInv ==
    ASSUME TypeOK, CursorsInv, NEW s \in Said \cup {Empty}, NEW for, NEW p, NEW m \in MaxRows \cup {0},
           Statement(s, for, p, m)
    PROVE  CursorsInv'
<1>1. Raise => (InTxn => InTxn')
    BY TxnNotNone DEF Raise, RaiseIn, InTxn
<1>2. CASE UNCHANGED <<cursors, store, paged>> /\ (Raise \/ UNCHANGED txn)
    BY <1>1, <1>2, CursorsKept DEF InTxn
<1>3. CASE s.kw \in {"FETCH", "MOVE"} /\ Known(s.name) /\ FetchPage(s, m) /\ UNCHANGED <<txn, failed, store>>
    <2>1. s \in Said
        BY <1>3 DEF Empty
    <2> QED BY <1>3, <2>1, FetchInv
<1>4. CASE CloseStmt(s) /\ UNCHANGED <<txn, failed>>
    BY <1>4, CloseInv
<1> QED BY <1>2, <1>3, <1>4 DEF Statement, CursorStmt

\* EmitResult closes all cursors exactly when the transaction may have ended.
LEMMA EmitInv ==
    ASSUME TypeOK, CursorsInv, NEW s, EmitResult(s), s.kw \notin {"COMMIT", "ROLLBACK"} => (InTxn => InTxn')
    PROVE  CursorsInv'
BY NoCursorsInv, CursorsKept DEF EmitResult

\* Every step keeps the cursors in order.
LEMMA CursorsNext ==
    ASSUME TypeOK, RunPlace, CursorsInv, [Next]_pgvars
    PROVE  CursorsInv'
<1>1. ASSUME Plainly \/ (\E p \in Portals : Describe(p)) \/ UNCHANGED pgvars
      PROVE  UNCHANGED <<cursors, store, paged, txn>>
    BY <1>1 DEF Plainly, StartSession, QueryDone, OtherMessage, Sync, Query, Parse, Bind, ClosePortal,
                ClosePrepared, CancelBackend, Disconnect, Describe, pgvars
<1>2. Raise => (InTxn => InTxn')
    BY TxnNotNone DEF Raise, RaiseIn, InTxn
<1>3. CASE UNCHANGED <<cursors, store, paged>> /\ (Raise \/ UNCHANGED txn)
    BY <1>2, <1>3, CursorsKept DEF InTxn
<1>4. ASSUME NEW s \in Sql, NextStatement(s)
      PROVE  CursorsInv'
    <2>1. UNCHANGED <<cursors, store, paged, txn>> \/ Statement(s, "query", None, 0)
        BY <1>4 DEF NextStatement
    <2> QED BY <1>3, <2>1, StatementInv DEF Said
<1>5. ASSUME NEW p \in Portals, NEW m \in MaxRows, Execute(p, m)
      PROVE  CursorsInv'
    <2>1. CASE UNCHANGED <<txn, cursors, store, paged>>
        BY <1>3, <2>1
    <2>2. CASE portals[p] # None /\ Statement(portals[p], "execute", p, m)
        <3>1. portals[p] \in Said \cup {Empty}
            BY <2>2 DEF TypeOK, Said
        <3> QED BY <2>2, <3>1, StatementInv
    <2>3. CASE EmitResult(portals[p]) /\ UNCHANGED txn
        BY <2>3, EmitInv DEF InTxn
    <2> QED BY <1>5, <2>1, <2>2, <2>3 DEF Execute
<1>6. CASE RunSucceeds
    <2>1. run # None
        BY <1>6 DEF RunSucceeds
    <2>2. EngineTxn(run.sql) /\ run.sql.kw \notin {"COMMIT", "ROLLBACK"} => (InTxn => InTxn')
        BY TxnNotNone DEF EngineTxn, TxnAfter, InTxn
    <2>3. CASE EngineTxn(run.sql) /\ EmitResult(run.sql)
        BY <2>2, <2>3, EmitInv
    <2>4. CASE run.for = "describe" /\ EngineTxn(run.sql) /\ UNCHANGED <<cursors, store, paged>>
        BY <2>1, <2>2, <2>4, CursorsKept DEF RunPlace
    <2>5. CASE run.for = "declare" /\ DeclareOk /\ EngineTxn(run.sql) /\ OpenCursor
        <3>1. UNCHANGED txn /\ run.name \in Cursors
            BY <2>1, <2>5 DEF RunPlace, EngineTxn, TxnAfter, DeclareOk
        <3> QED BY <2>5, <3>1, OpenInv
    <2>6. CASE run.for = "declare" /\ DeclareRefused
        BY <2>1, <2>6, RefusedInv
    <2> QED BY <1>6, <2>3, <2>4, <2>5, <2>6 DEF RunSucceeds
<1>7. CASE BadMessage \/ RunRaises \/ RunCancelled
    BY <1>3, <1>7 DEF BadMessage, RunRaises, RunCancelled, Stopped
<1>8. CASE Cleanup
    BY <1>8, NoCursorsInv DEF Cleanup
<1>9. CASE Plainly \/ (\E p \in Portals : Describe(p)) \/ UNCHANGED pgvars
    BY <1>1, <1>3, <1>9
<1> QED BY <1>4, <1>5, <1>6, <1>7, <1>8, <1>9 DEF Next, Plainly

----------------------------------------------------------------------------
(***************************************************************************)
(* Theorems.                                                               *)
(***************************************************************************)

\* What holds whatever clients do.
SessionInv == TypeOK /\ RunPlace /\ CursorsInv

\* A new session satisfies the invariant.
LEMMA SessionInit == Init => SessionInv
<1> SUFFICES ASSUME Init PROVE SessionInv
    OBVIOUS
<1>1. TypeOK
    <2>1. <<>> \in Seq({"A", "E", "Z"}) /\ <<>> \in Seq(1..Total)
        OBVIOUS
    <2> QED BY <2>1 DEF Init, TypeOK
<1>2. RunPlace
    BY DEF Init, RunPlace
<1>3. CursorsInv
    <2>1. IsFiniteSet({}) /\ Cardinality({}) = 0
        BY FS_EmptySet
    <2>2. UpTo(0) = <<>>
        BY DEF UpTo
    <2> QED BY <2>1, <2>2, PgBounds DEF Init, CursorsInv, CursorsOwned, PagedExact, Position
<1> QED BY <1>1, <1>2, <1>3 DEF SessionInv

\* Every step preserves it.
LEMMA SessionNext == SessionInv /\ [Next]_pgvars => SessionInv'
BY TypesNext, RunNext, CursorsNext DEF SessionInv, CursorsInv

\* The invariant of a session, whatever its client sends (PGConn).
THEOREM SessionAlways == Spec => []SessionInv
BY SessionInit, SessionNext, PTL DEF Spec

\* Type correctness of a session: pgwire.py PGConn and its cursors.
THEOREM PgTypes == Spec => []TypeOK
<1>1. SessionInv => TypeOK
    BY DEF SessionInv
<1> QED BY <1>1, SessionAlways, PTL

\* Cursors of the connection and of the server's store are the same ones, within the limit; a
\* position leaves its result only by a negative count, and a cursor outlives its transaction only
\* when the query of a DECLARE has ended it (_fetch, _declare, _close_stmt, _close_all_cursors).
THEOREM PgCursorsOwned == Spec => []CursorsOwned
<1>1. SessionInv => CursorsOwned
    BY DEF SessionInv, CursorsInv
<1> QED BY <1>1, SessionAlways, PTL

\* Paging forward delivers every row once and in order, for any row limits and any counts that
\* are not negative (_fetch, _cursor_window).
THEOREM PgPagedOnce == Spec => []PagedOnce
<1>1. SessionInv => PagedOnce
    BY DEF SessionInv, CursorsInv, CursorsOwned, PagedExact, PagedOnce, Position, UpTo
<1> QED BY <1>1, SessionAlways, PTL

\* What clients that do not rebind described portals can rely on.
GateInv == GateExact /\ AbortedNeverCommits /\ CacheExact

\* A new session has an open gate and an empty cache.
LEMMA GateInit == Init => GateInv
BY DEF Init, GateInv, GateExact, AbortedNeverCommits, CacheExact, InTxn

\* Every step of a client that does not rebind preserves the gate invariant.
LEMMA GateInvNext ==
    ASSUME ~Rebinds
    PROVE  SessionInv /\ GateInv /\ [Next]_pgvars => GateInv'
BY CacheNext, GateNext DEF SessionInv, GateInv

\* The gate invariant, for clients that do not rebind described portals (_gate, _execute).
THEOREM GateAlways ==
    ASSUME ~Rebinds
    PROVE  Spec => []GateInv
BY GateInit, GateInvNext, SessionAlways, PTL DEF Spec

\* The gate is closed exactly while a transaction with a failed statement is open (_gate, loop,
\* _emit_result).
THEOREM PgGateExact ==
    ASSUME ~Rebinds
    PROVE  Spec => []GateExact
<1>1. GateInv => GateExact
    BY DEF GateInv
<1> QED BY <1>1, GateAlways, PTL

\* A transaction in which a statement failed is never committed (_gate).
THEOREM PgAbortedNeverCommits ==
    ASSUME ~Rebinds
    PROVE  Spec => []AbortedNeverCommits
<1>1. GateInv => AbortedNeverCommits
    BY DEF GateInv
<1> QED BY <1>1, GateAlways, PTL
=============================================================================
