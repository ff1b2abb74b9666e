---------------------------- MODULE ServerProofs ----------------------------
(***************************************************************************)
(* Theorems about Server, for any connections, requests and size of pool.  *)
(***************************************************************************)
EXTENDS Server, TLAPS

(***************************************************************************)
(* A request is in one place: unsent, in the queue, with one worker, on    *)
(* its way back, or done; and at each place it is known whether its        *)
(* statement has taken effect.                                             *)
(***************************************************************************)
Told(r, outcome) ==
    /\ outcome = "ok" => r \in effect
    /\ outcome = "cancelled" => r \notin effect \/ req[r].op = "admin"

Away(r) == req[r] # None /\ posted[r] = None /\ answer[r] = None

SentInv ==
    /\ \A r \in Requests : (task[r] = "unsent") <=> (req[r] = None)
    /\ \A q, r \in Requests : q < r /\ task[q] = "unsent" => task[r] = "unsent"

QueueInv ==
    /\ \A i, j \in DOMAIN queue : queue[i] = queue[j] => i = j
    /\ \A i \in DOMAIN queue : Away(queue[i]) /\ queue[i] \notin effect

BusyInv ==
    \A w \in Workers : work[w].at # "idle" =>
        /\ work[w].req \in Requests
        /\ Away(work[w].req)
        /\ \A i \in DOMAIN queue : queue[i] # work[w].req
        /\ \A v \in Workers \ {w} : work[v].at # "idle" => work[v].req # work[w].req

EffectInv ==
    \A w \in Workers :
        /\ work[w].at \in {"taken", "loaded"} => work[w].req \notin effect
        /\ work[w].at \in Outcome => Told(work[w].req, work[w].at)

PostedInv ==
    \A r \in Requests : posted[r] # None => req[r] # None /\ answer[r] = None /\ Told(r, posted[r])

UnsentInv ==
    \A r \in Requests : req[r] = None => posted[r] = None /\ answer[r] = None /\ r \notin effect

\* A thread's slot is loaded only while it runs a statement.
SlotInv ==
    \A w \in Workers :
        slot[w] # None => work[w].at \notin {"idle", "taken"} /\ req[work[w].req].op \in SqlOps

\* A request in flight has a live connection, and one of a live connection that has not
\* been answered is in flight; two in flight under one id are both known to share it.
Unanswered(r) == req[r] # None /\ answer[r] = None /\ req[r].conn \in up

Clash(r, x) ==
    /\ task[r] = "waiting" /\ task[x] = "waiting"
    /\ req[r].conn = req[x].conn /\ req[r].id = req[x].id /\ req[r].id # None

FlightInv ==
    /\ \A r \in Requests : task[r] = "waiting" => req[r].conn \in up
    /\ \A r \in Requests : Unanswered(r) => task[r] = "waiting"
    /\ \A r, x \in Requests : r # x /\ Clash(r, x) => r \in shared

ServerInv ==
    /\ TypeOK /\ SentInv /\ QueueInv /\ BusyInv /\ EffectInv /\ PostedInv /\ UnsentInv /\ SlotInv
    /\ FlightInv /\ AnswerTruthful /\ PendingExact

LEMMA ServerInit == Init => ServerInv
<1> SUFFICES ASSUME Init PROVE ServerInv
  OBVIOUS
<1>1. TypeOK
  BY BoundsAssumption DEF Init, TypeOK, Idle
<1>2. SentInv /\ QueueInv /\ PostedInv /\ UnsentInv /\ AnswerTruthful
  BY NoneAssumption DEF Init, SentInv, QueueInv, PostedInv, UnsentInv, AnswerTruthful, Outcome
<1>3. BusyInv /\ EffectInv /\ SlotInv
  BY DEF Init, BusyInv, EffectInv, SlotInv, Idle, Outcome
<1>4. FlightInv /\ PendingExact
  BY DEF Init, FlightInv, Unanswered, Clash, PendingExact, Waiting, InFlight
<1> QED BY <1>1, <1>2, <1>3, <1>4 DEF ServerInv

\* The parts of a worker's record.
LEMMA WorkParts ==
    ASSUME TypeOK, NEW w \in Workers
    PROVE  /\ work[w].at \in {"idle", "taken", "loaded"} \cup Outcome
           /\ work[w].req \in Requests \cup {None}
BY DEF TypeOK

\* A sent request has a connection, a kind and an id.
LEMMA ReqParts ==
    ASSUME TypeOK, NEW r \in Requests, req[r] # None
    PROVE  req[r].conn \in Conns /\ req[r].op \in OpKinds /\ req[r].id \in Ids
BY DEF TypeOK, Request

LEMMA SendKeeps ==
    ASSUME ServerInv, NEW c \in Conns, NEW r \in Requests, NEW op \in Ops, NEW id \in Ids,
           Send(c, r, op, id)
    PROVE  ServerInv'
<1> DEFINE q == [conn |-> c, op |-> op, id |-> id]
<1>0. q \in Request /\ q # None /\ q.conn = c /\ q.id = id /\ req[r] = None
  BY OpsAssumption, NoneAssumption DEF ServerInv, SentInv, Send, Request
<1>1. TypeOK'
  <2>1. pending' \in [Conns -> SUBSET Requests] /\ shared' \subseteq Requests
    BY DEF ServerInv, TypeOK, Send, InFlight, Waiting
  <2> QED BY <1>0, <2>1 DEF ServerInv, TypeOK, Send
<1>2. req' = [req EXCEPT ![r] = q] /\ \A x \in Requests \ {r} : req'[x] = req[x] /\ task'[x] = task[x]
  BY DEF Send, ServerInv, TypeOK
<1>3. /\ req'[r] = q /\ task'[r] = "waiting" /\ task[r] = "unsent"
      /\ r \notin effect /\ posted[r] = None /\ answer[r] = None
  BY <1>0 DEF Send, ServerInv, TypeOK, UnsentInv
<1>4. UNCHANGED <<posted, answer, effect, work, slot>>
  BY DEF Send
<1> HIDE DEF q
<1>5. PostedInv' /\ UnsentInv' /\ AnswerTruthful'
  BY <1>0, <1>2, <1>3, <1>4 DEF ServerInv, PostedInv, UnsentInv, AnswerTruthful, Told
<1>14. \A x \in Requests : task[x] # "unsent" => x < r
  BY <1>3, NumberAssumption DEF ServerInv, SentInv
<1>15. SentInv'
  <2>1. \A x \in Requests : x < r => task[x] # "unsent"
    BY DEF Send
  <2> QED BY <1>0, <1>2, <1>3, <1>14, <2>1, NumberAssumption DEF ServerInv, SentInv
<1>6. queue' = Append(queue, r) /\ queue \in Seq(Requests)
  BY DEF Send, ServerInv, TypeOK
<1>7. \A i \in DOMAIN queue' :
        \/ i \in DOMAIN queue /\ queue'[i] = queue[i]
        \/ i = Len(queue) + 1 /\ queue'[i] = r
  BY <1>6
<1>8. \A i \in DOMAIN queue : queue[i] # r /\ queue[i] \in Requests
  BY <1>0, <1>6 DEF ServerInv, QueueInv, Away
<1>9. QueueInv'
  BY <1>0, <1>2, <1>3, <1>4, <1>6, <1>7, <1>8 DEF ServerInv, QueueInv, Away
<1>10. \A w \in Workers : work[w].at # "idle" => work[w].req # r
  BY <1>0 DEF ServerInv, BusyInv, Away
<1>11. BusyInv' /\ SlotInv'
  <2>1. BusyInv'
    BY <1>2, <1>4, <1>7, <1>10 DEF ServerInv, BusyInv, Away
  <2>2. SlotInv'
    BY <1>2, <1>4, <1>10 DEF ServerInv, BusyInv, SlotInv
  <2> QED BY <2>1, <2>2
<1>12. EffectInv'
  <2> SUFFICES ASSUME NEW w \in Workers PROVE EffectInv!(w)'
    BY DEF EffectInv
  <2>1. work[w].at \in Outcome => work[w].at # "idle"
    BY DEF Outcome
  <2> QED BY <1>2, <1>4, <1>10, <2>1 DEF ServerInv, EffectInv, BusyInv, Told
<1>13. PendingExact'
  <2> SUFFICES ASSUME NEW d \in Conns PROVE PendingExact!(d)'
    BY DEF PendingExact
  <2>0. pending \in [Conns -> SUBSET Requests] /\ pending[d] \subseteq Waiting(d) /\ r \notin Waiting(d)
    BY <1>3 DEF ServerInv, TypeOK, PendingExact, Waiting
  <2>1. shared \subseteq shared'
    BY DEF Send
  <2>2. CASE d # c
    <3>1. pending'[d] = pending[d] /\ Waiting(d)' = Waiting(d)
      BY <1>0, <1>2, <1>3, <2>2 DEF Send, ServerInv, TypeOK, Waiting
    <3>2. \A x \in Waiting(d) : x \in Requests /\ req'[x] = req[x]
      BY <1>2, <2>0 DEF Waiting
    <3> QED BY <2>0, <2>1, <3>1, <3>2 DEF ServerInv, PendingExact, InFlight
  <2>3. CASE d = c
    <3>1. Waiting(c)' = Waiting(c) \cup {r}
      BY <1>0, <1>2, <1>3 DEF Waiting
    <3>2. \A x \in Waiting(c) : x \in Requests /\ req'[x] = req[x] /\ x < r
      BY <1>2, <1>14, <2>0, <2>3 DEF Waiting
    <3>3. CASE id = None
      <4>1. pending'[c] = pending[c] /\ shared' = shared
        BY <2>0, <3>3 DEF Send
      <4> QED BY <1>0, <1>3, <2>0, <2>3, <3>1, <3>2, <3>3, <4>1 DEF ServerInv, PendingExact, InFlight
    <3>4. CASE id # None
      <4>1. pending'[c] = (pending[c] \ Entry(c, id)) \cup {r}
        BY <2>0, <3>4 DEF Send
      <4>2. \A x \in Entry(c, id) : x \in InFlight(c, id)
        BY <2>0, <2>3 DEF Entry, InFlight
      <4>3. \A x \in InFlight(c, id) : x \in shared'
        BY <3>4 DEF Send
      <4>4. \A x \in Waiting(c) \ pending'[c] : req[x].id = None \/ x \in shared'
        BY <2>0, <2>1, <4>1, <4>2, <4>3 DEF ServerInv, PendingExact
      <4>5. \A x \in Waiting(c)' \ pending'[c] : req'[x].id = None \/ x \in shared'
        BY <3>1, <3>2, <4>1, <4>4
      <4>6. \A x \in pending'[c] : req'[x].id # None
        BY <1>0, <1>3, <2>0, <2>3, <3>2, <3>4, <4>1 DEF ServerInv, PendingExact
      <4>7. \A x \in pending'[c], y \in Waiting(c)' : req'[y].id = req'[x].id => y <= x
        <5> SUFFICES ASSUME NEW x \in pending'[c], NEW y \in Waiting(c)', req'[y].id = req'[x].id
                     PROVE  y <= x
          OBVIOUS
        <5>1. CASE x = r
          <6>1. y = r \/ y \in Waiting(c)
            BY <3>1
          <6>2. r \in Nat /\ (y = r \/ (y \in Nat /\ y < r))
            BY <3>2, <6>1, NumberAssumption
          <6> QED BY <5>1, <6>2
        <5>2. CASE x # r
          <6>1. x \in pending[c] /\ x \in Waiting(c) /\ x \notin Entry(c, id)
            BY <2>0, <2>3, <4>1, <5>2
          <6>2. req[x].id # id
            BY <6>1 DEF Entry
          <6>3. y # r
            BY <1>0, <1>3, <3>2, <6>1, <6>2
          <6>4. y \in InFlight(c, req[x].id)
            BY <3>1, <3>2, <6>1, <6>3 DEF InFlight
          <6> QED BY <6>1, <6>4 DEF ServerInv, PendingExact
        <5> QED BY <5>1, <5>2
      <4> QED BY <2>0, <2>3, <3>1, <4>1, <4>5, <4>6, <4>7 DEF InFlight
    <3> QED BY <3>3, <3>4
  <2> QED BY <2>2, <2>3
<1>16. FlightInv'
  <2>1. c \in up /\ up' = up /\ answer' = answer /\ shared \subseteq shared'
    BY DEF Send
  <2>2. \A x \in Requests : task'[x] = "waiting" => req'[x].conn \in up
    BY <1>0, <1>2, <1>3, <2>1 DEF ServerInv, FlightInv
  <2>3. \A x \in Requests : Unanswered(x)' => task'[x] = "waiting"
    BY <1>2, <1>3, <2>1 DEF ServerInv, FlightInv, Unanswered
  <2>4. ASSUME NEW x \in Requests, NEW y \in Requests, x # y, Clash(x, y)'
        PROVE  x \in shared'
    <3>1. CASE x # r /\ y # r
      <4>1. Clash(x, y)
        BY <1>2, <2>4, <3>1 DEF Clash
      <4> QED BY <2>1, <2>4, <4>1 DEF ServerInv, FlightInv
    <3>2. CASE x = r \/ y = r
      <4>1. \A z \in Requests \ {r} : Clash(r, z)' \/ Clash(z, r)' => z \in InFlight(c, id) /\ id # None
        BY <1>0, <1>2, <1>3 DEF Clash, InFlight, Waiting
      <4>2. PICK z \in Requests \ {r} : (x = r \/ x = z) /\ z \in InFlight(c, id) /\ id # None
        BY <2>4, <3>2, <4>1
      <4>3. shared' = shared \cup InFlight(c, id) \cup {r}
        BY <4>2 DEF Send
      <4> QED BY <4>2, <4>3
    <3> QED BY <3>1, <3>2
  <2> QED BY <2>1, <2>2, <2>3, <2>4 DEF FlightInv
<1> QED BY <1>1, <1>5, <1>9, <1>11, <1>12, <1>13, <1>15, <1>16 DEF ServerInv

LEMMA CancelKeeps ==
    ASSUME ServerInv, NEW c \in Conns, NEW r \in Requests, Cancel(c, r)
    PROVE  ServerInv'
<1>1. TypeOK'
  BY DEF ServerInv, TypeOK, Cancel, workvars
<1> QED BY <1>1 DEF ServerInv, Cancel, workvars, SentInv, QueueInv, BusyInv, EffectInv, PostedInv,
                    UnsentInv, SlotInv, AnswerTruthful, PendingExact, Waiting, InFlight, FlightInv, Unanswered,
                    Clash, Away, Told

LEMMA CloseCursorKeeps ==
    ASSUME ServerInv, NEW c \in Conns, CloseCursor(c)
    PROVE  ServerInv'
<1>1. cursors' \in [Conns -> 0..MaxCursors]
  BY BoundsAssumption DEF ServerInv, TypeOK, CloseCursor
<1>2. TypeOK'
  BY <1>1 DEF ServerInv, TypeOK, CloseCursor, workvars
<1> QED BY <1>2 DEF ServerInv, CloseCursor, workvars, SentInv, QueueInv, BusyInv, EffectInv, PostedInv,
                    UnsentInv, SlotInv, AnswerTruthful, PendingExact, Waiting, InFlight, FlightInv, Unanswered,
                    Clash, Away, Told

LEMMA DisconnectKeeps ==
    ASSUME ServerInv, NEW c \in Conns, Disconnect(c)
    PROVE  ServerInv'
<1>1. TypeOK'
  <2>1. cursors' \in [Conns -> 0..MaxCursors] /\ pending' \in [Conns -> SUBSET Requests]
    BY BoundsAssumption DEF ServerInv, TypeOK, Disconnect
  <2>2. task' \in [Requests -> {"unsent", "waiting", "ended"}] /\ cancel' \subseteq Requests
    BY DEF ServerInv, TypeOK, Disconnect
  <2> QED BY <2>1, <2>2 DEF ServerInv, TypeOK, Disconnect, workvars
<1>2. SentInv'
  BY DEF ServerInv, TypeOK, SentInv, Disconnect, Waiting
<1>3. PendingExact'
  <2>1. Waiting(c)' = {} /\ \A d \in Conns \ {c} : Waiting(d)' = Waiting(d)
    BY DEF Waiting, Disconnect
  <2>2. pending'[c] = {} /\ \A d \in Conns \ {c} : pending'[d] = pending[d]
    BY DEF ServerInv, TypeOK, Disconnect
  <2>3. req' = req /\ shared' = shared
    BY DEF Disconnect
  <2> QED BY <2>1, <2>2, <2>3 DEF ServerInv, PendingExact, InFlight
<1>4. FlightInv'
  <2>1. /\ req' = req /\ answer' = answer /\ shared' = shared /\ up' = up \ {c}
        /\ task' = [r \in Requests |-> IF r \in Waiting(c) THEN "ended" ELSE task[r]]
    BY DEF Disconnect
  <2>2. \A r \in Requests : task'[r] = "waiting" => task[r] = "waiting" /\ req[r].conn # c
    BY <2>1 DEF Waiting
  <2>3. \A r \in Requests : req[r].conn # c => task'[r] = task[r]
    BY <2>1 DEF Waiting
  <2>4. \A r, x \in Requests : Clash(r, x)' => Clash(r, x)
    BY <2>1, <2>2 DEF Clash
  <2>5. \A r \in Requests : Unanswered(r)' => Unanswered(r) /\ req[r].conn # c
    BY <2>1 DEF Unanswered
  <2> QED BY <2>1, <2>2, <2>3, <2>4, <2>5 DEF ServerInv, FlightInv
<1> QED BY <1>1, <1>2, <1>3, <1>4 DEF ServerInv, Disconnect, workvars, QueueInv, BusyInv, EffectInv, PostedInv,
                                UnsentInv, SlotInv, AnswerTruthful, Away, Told

LEMMA DeliverKeeps ==
    ASSUME ServerInv, NEW r \in Requests, Deliver(r)
    PROVE  ServerInv'
<1> SUFFICES ASSUME NEW c, c = req[r].conn PROVE ServerInv'
  OBVIOUS
<1>0. posted[r] \in Outcome /\ req[r] # None /\ c \in Conns /\ answer[r] = None /\ Told(r, posted[r])
  BY ReqParts DEF ServerInv, TypeOK, PostedInv, Deliver
<1>1. UNCHANGED <<up, req, cancel, shared, queue, work, slot, ws_txn, effect, buffer, commits>>
  BY DEF Deliver, workvars
<1>2. \A x \in Requests \ {r} : posted'[x] = posted[x] /\ task'[x] = task[x] /\ answer'[x] = answer[x]
  BY DEF Deliver, ServerInv, TypeOK
<1>3. posted'[r] = None /\ task'[r] = "ended" /\ answer'[r] \in {None, "error", posted[r]}
  BY <1>0 DEF Deliver, ServerInv, TypeOK
<1>4. answer'[r] = "error" => posted[r] = "error" \/ req[r].op = "cursor"
  BY <1>0, NoneAssumption DEF Deliver, ServerInv, TypeOK, Outcome
<1>5. TypeOK'
  <2>1. posted' \in [Requests -> {None} \cup Outcome] /\ task' \in [Requests -> {"unsent", "waiting", "ended"}]
    BY DEF Deliver, ServerInv, TypeOK
  <2>2. answer' \in [Requests -> {None} \cup Outcome]
    BY <1>0 DEF Deliver, ServerInv, TypeOK, Outcome
  <2>3. pending' \in [Conns -> SUBSET Requests]
    BY DEF Deliver, ServerInv, TypeOK
  <2>4. cursors' \in [Conns -> 0..MaxCursors]
    BY <1>0, BoundsAssumption DEF Deliver, ServerInv, TypeOK
  <2> QED BY <1>1, <2>1, <2>2, <2>3, <2>4 DEF ServerInv, TypeOK
<1>6. SentInv' /\ UnsentInv'
  BY <1>0, <1>1, <1>2, <1>3 DEF ServerInv, SentInv, UnsentInv
<1>7. PostedInv' /\ SlotInv'
  BY <1>1, <1>2, <1>3 DEF ServerInv, PostedInv, SlotInv, Told
<1>8. QueueInv'
  <2>1. queue \in Seq(Requests)
    BY DEF ServerInv, TypeOK
  <2>2. \A i \in DOMAIN queue : queue[i] \in Requests \ {r}
    BY <1>0, <2>1, NoneAssumption DEF ServerInv, QueueInv, Away, Outcome
  <2> QED BY <1>1, <1>2, <2>2 DEF ServerInv, QueueInv, Away
<1>9. BusyInv' /\ EffectInv'
  <2>1. \A w \in Workers : work[w].at # "idle" => work[w].req # r
    BY <1>0, NoneAssumption DEF ServerInv, BusyInv, Away, Outcome
  <2> QED BY <1>1, <1>2, <2>1 DEF ServerInv, BusyInv, EffectInv, Away, Told
<1>10. AnswerTruthful'
  BY <1>0, <1>1, <1>2, <1>3, <1>4, NoneAssumption DEF ServerInv, AnswerTruthful, Told, Outcome
<1>11. PendingExact'
  <2> DEFINE e == Entry(c, req[r].id)
  <2>1. pending' = [pending EXCEPT ![c] = @ \ e] /\ pending \in [Conns -> SUBSET Requests]
    BY DEF Deliver, ServerInv, TypeOK
  <2>2. Waiting(c)' = Waiting(c) \ {r} /\ \A d \in Conns \ {c} : Waiting(d)' = Waiting(d)
    BY <1>1, <1>2, <1>3 DEF Waiting
  <2>3. pending'[c] = pending[c] \ e /\ \A d \in Conns \ {c} : pending'[d] = pending[d]
    BY <1>0, <2>1
  <2>4. r \in pending[c] => r \in e
    BY DEF Entry
  <2>5. \A x \in Waiting(c)' : x \in e => x \in shared
    <3> SUFFICES ASSUME NEW x \in Waiting(c)', x \in e PROVE x \in shared
      OBVIOUS
    <3>1. x \in Requests \ {r} /\ task[x] = "waiting" /\ req[x].conn = c
      BY <2>2 DEF Waiting
    <3>2. task[r] = "waiting"
      BY <1>0, <3>1 DEF ServerInv, FlightInv, Unanswered
    <3>3. req[x].id = req[r].id /\ req[x].id # None
      BY <1>0 DEF Entry, ServerInv, PendingExact
    <3> QED BY <3>1, <3>2, <3>3 DEF ServerInv, FlightInv, Clash
  <2> HIDE DEF e
  <2>6. PendingExact!(c)'
    <3>1. pending'[c] \subseteq Waiting(c)'
      BY <1>0, <2>2, <2>3, <2>4 DEF ServerInv, PendingExact
    <3>2. \A x \in Waiting(c)' \ pending'[c] : req[x].id = None \/ x \in shared
      BY <1>0, <2>2, <2>3, <2>5 DEF ServerInv, PendingExact
    <3>3. \A x \in pending'[c] : req[x].id # None /\ \A y \in InFlight(c, req[x].id)' : y <= x
      BY <1>0, <1>1, <2>2, <2>3 DEF ServerInv, PendingExact, InFlight
    <3> QED BY <1>1, <3>1, <3>2, <3>3
  <2>7. \A d \in Conns \ {c} : PendingExact!(d)'
    BY <1>1, <2>2, <2>3 DEF ServerInv, PendingExact, InFlight
  <2> QED BY <1>0, <2>6, <2>7 DEF PendingExact
<1>12. FlightInv'
  <2>1. task[r] = "waiting" => answer'[r] # None
    BY <1>0, NoneAssumption DEF Deliver, ServerInv, TypeOK, Outcome
  <2>2. \A x \in Requests : Unanswered(x)' => Unanswered(x) /\ x # r
    BY <1>0, <1>1, <1>2, <2>1 DEF ServerInv, FlightInv, Unanswered
  <2>3. \A x, y \in Requests : Clash(x, y)' => Clash(x, y)
    BY <1>1, <1>2, <1>3 DEF Clash
  <2> QED BY <1>1, <1>2, <1>3, <2>2, <2>3 DEF ServerInv, FlightInv
<1> QED BY <1>5, <1>6, <1>7, <1>8, <1>9, <1>10, <1>11, <1>12 DEF ServerInv

LEMMA TakeKeeps ==
    ASSUME ServerInv, NEW w \in Workers, Take(w)
    PROVE  ServerInv'
<1> SUFFICES ASSUME NEW r, r = Head(queue) PROVE ServerInv'
  OBVIOUS
<1>0. queue \in Seq(Requests) /\ queue # <<>> /\ queue' = Tail(queue) /\ work[w] = Idle /\ work[w].at = "idle"
  BY DEF Take, ServerInv, TypeOK, Idle
<1>1. r \in Requests /\ 1 \in DOMAIN queue /\ queue[1] = r /\ Away(r) /\ r \notin effect
  BY <1>0 DEF ServerInv, QueueInv
<1>2. \A i \in DOMAIN queue' : i + 1 \in DOMAIN queue /\ queue'[i] = queue[i + 1]
  BY <1>0
<1>3. \A i \in DOMAIN queue' : queue'[i] # r
  <2> TAKE i \in DOMAIN queue'
  <2>1. i + 1 # 1 /\ i + 1 \in DOMAIN queue
    BY <1>0, <1>2
  <2> QED BY <1>1, <1>2, <2>1 DEF ServerInv, QueueInv
<1>4. UNCHANGED <<up, req, task, slot, ws_txn, cancel, pending, cursors, answer, shared, effect, buffer, commits>>
  BY DEF Take
<1>5. \A v \in Workers : work[v].at # "idle" => work[v].req # r
  BY <1>1 DEF ServerInv, BusyInv
<1>6. \A i, j \in DOMAIN queue' : queue'[i] = queue'[j] => i = j
  <2> SUFFICES ASSUME NEW i \in DOMAIN queue', NEW j \in DOMAIN queue', queue'[i] = queue'[j]
               PROVE  i = j
    OBVIOUS
  <2>1. i + 1 = j + 1
    BY <1>2 DEF ServerInv, QueueInv
  <2> QED BY <1>0, <2>1
<1>7. SentInv' /\ AnswerTruthful' /\ PendingExact' /\ FlightInv'
  BY <1>4 DEF ServerInv, SentInv, AnswerTruthful, PendingExact, Waiting, InFlight, FlightInv, Unanswered, Clash
<1>8. CASE r \in cancel
  <2>1. posted' = [posted EXCEPT ![r] = "cancelled"] /\ work' = work
    BY <1>8 DEF Take
  <2>2. TypeOK'
    BY <1>0, <1>4, <2>1 DEF ServerInv, TypeOK, Outcome
  <2>3. \A x \in Requests : x # r => posted'[x] = posted[x]
    BY <2>1 DEF ServerInv, TypeOK
  <2>4. posted'[r] = "cancelled"
    BY <1>1, <2>1 DEF ServerInv, TypeOK
  <2>5. QueueInv'
    <3>1. \A i \in DOMAIN queue' : queue'[i] \in Requests \ {r}
      BY <1>0, <1>2, <1>3
    <3> QED BY <1>2, <1>4, <1>6, <2>3, <3>1 DEF ServerInv, QueueInv, Away
  <2>6. BusyInv'
    BY <1>2, <1>4, <1>5, <2>1, <2>3 DEF ServerInv, BusyInv, Away
  <2>7. EffectInv' /\ SlotInv'
    BY <1>4, <2>1 DEF ServerInv, EffectInv, SlotInv, Told
  <2>8. PostedInv'
    BY <1>1, <1>4, <2>3, <2>4 DEF ServerInv, PostedInv, Told, Away
  <2>9. UnsentInv'
    BY <1>1, <1>4, <2>3 DEF ServerInv, UnsentInv, Away
  <2> QED BY <1>7, <2>2, <2>5, <2>6, <2>7, <2>8, <2>9 DEF ServerInv
<1>9. CASE r \notin cancel
  <2> DEFINE item == [at |-> "taken", req |-> r]
  <2>1. work' = [work EXCEPT ![w] = item] /\ posted' = posted
    BY <1>9 DEF Take
  <2>2. TypeOK'
    BY <1>0, <1>1, <1>4, <2>1 DEF ServerInv, TypeOK
  <2>3. work'[w].at = "taken" /\ work'[w].req = r /\ \A v \in Workers \ {w} : work'[v] = work[v]
    BY <2>1 DEF ServerInv, TypeOK
  <2>4. QueueInv'
    BY <1>2, <1>4, <1>6, <2>1 DEF ServerInv, QueueInv, Away
  <2>5. BusyInv'
    BY <1>1, <1>2, <1>3, <1>4, <1>5, <2>1, <2>3 DEF ServerInv, BusyInv, Away
  <2>6. EffectInv'
    BY <1>1, <1>4, <2>3 DEF ServerInv, EffectInv, Told, Outcome
  <2>7. SlotInv'
    BY <1>0, <1>4, <2>3 DEF ServerInv, SlotInv
  <2>8. PostedInv' /\ UnsentInv'
    BY <1>4, <2>1 DEF ServerInv, PostedInv, UnsentInv, Told
  <2> QED BY <1>7, <2>2, <2>4, <2>5, <2>6, <2>7, <2>8 DEF ServerInv
<1> QED BY <1>8, <1>9

\* What Load, Raise, Execute and Admin have in common: a worker moves on with its request.
LEMMA WorkerStepKeeps ==
    ASSUME ServerInv, NEW w \in Workers, NEW r, r = work[w].req,
           work[w].at \in {"taken", "loaded"},
           NEW a \in {"loaded"} \cup Outcome, work' = [work EXCEPT ![w].at = a],
           UNCHANGED <<up, req, task, posted, cancel, pending, cursors, answer, shared, queue, ws_txn>>,
           effect' \in {effect, effect \cup {r}},
           a = "loaded" => effect' = effect,
           a \in Outcome => Told(r, a)',
           slot' \in [Workers -> Requests \cup {None}],
           \A v \in Workers \ {w} : slot'[v] = slot[v],
           slot'[w] = slot[w] \/ req[r].op \in SqlOps,
           buffer' \in [Requests -> SUBSET Requests], commits' \in [Requests -> Nat]
    PROVE  ServerInv'
<1>0. r \in Requests /\ Away(r)
  BY DEF ServerInv, BusyInv
<1>1. work'[w].at = a /\ work'[w].req = r /\ \A v \in Workers \ {w} : work'[v] = work[v]
  BY DEF ServerInv, TypeOK
<1>2. work' \in [Workers -> [at : {"idle", "taken", "loaded"} \cup Outcome, req : Requests \cup {None}]]
  BY DEF ServerInv, TypeOK
<1>3. a \notin {"idle", "taken"}
  BY DEF Outcome
<1>4. TypeOK'
  BY <1>0, <1>2 DEF ServerInv, TypeOK
<1>5. SentInv' /\ PendingExact' /\ FlightInv'
  BY DEF ServerInv, SentInv, PendingExact, Waiting, InFlight, FlightInv, Unanswered, Clash
<1>6. \A x \in Requests : x # r => ((x \in effect') <=> (x \in effect))
  OBVIOUS
<1>7. QueueInv'
  <2>0. queue \in Seq(Requests)
    BY DEF ServerInv, TypeOK
  <2>1. \A i \in DOMAIN queue : queue[i] \in Requests /\ queue[i] # r
    BY <2>0 DEF ServerInv, BusyInv
  <2> QED BY <1>6, <2>1 DEF ServerInv, QueueInv, Away
<1>8. BusyInv'
  BY <1>0, <1>1, <1>3 DEF ServerInv, BusyInv, Away
<1>9. EffectInv'
  <2> SUFFICES ASSUME NEW v \in Workers PROVE EffectInv!(v)'
    BY DEF EffectInv
  <2>1. CASE v = w
    BY <1>1, <1>3, <2>1 DEF ServerInv, EffectInv, Outcome
  <2>2. CASE v # w
    <3>1. work[v].at # "idle" => work[v].req \in Requests /\ work[v].req # r
      BY <2>2 DEF ServerInv, BusyInv
    <3>2. work[v].at \in Outcome => work[v].at # "idle"
      BY DEF Outcome
    <3> QED BY <1>1, <1>6, <2>2, <3>1, <3>2 DEF ServerInv, EffectInv, Told
  <2> QED BY <2>1, <2>2
<1>10. PostedInv' /\ UnsentInv'
  BY <1>0, <1>6 DEF ServerInv, PostedInv, UnsentInv, Told, Away
<1>11. SlotInv'
  <2> SUFFICES ASSUME NEW v \in Workers PROVE SlotInv!(v)'
    BY DEF SlotInv
  <2>1. CASE v = w
    BY <1>1, <1>3, <2>1 DEF ServerInv, SlotInv
  <2>2. CASE v # w
    BY <1>1, <2>2 DEF ServerInv, SlotInv
  <2> QED BY <2>1, <2>2
<1>12. AnswerTruthful'
  BY <1>0, <1>6, NoneAssumption DEF ServerInv, AnswerTruthful, Away, Outcome
<1> QED BY <1>4, <1>5, <1>7, <1>8, <1>9, <1>10, <1>11, <1>12 DEF ServerInv

LEMMA LoadKeeps ==
    ASSUME ServerInv, NEW w \in Workers, Load(w)
    PROVE  ServerInv'
<1> SUFFICES ASSUME NEW r, r = work[w].req PROVE ServerInv'
  OBVIOUS
<1>1. r \in Requests /\ req[r] # None
  BY DEF Load, ServerInv, BusyInv, Away
<1>2. req[r].conn \in Conns
  BY <1>1, ReqParts DEF ServerInv
<1>3. slot' \in [Workers -> Requests \cup {None}] /\ \A v \in Workers \ {w} : slot'[v] = slot[v]
  BY <1>2 DEF Load, ServerInv, TypeOK
<1>4. "loaded" \notin Outcome
  BY DEF Outcome
<1> QED BY <1>3, <1>4, WorkerStepKeeps DEF Load, loopvars, ServerInv, TypeOK

LEMMA RaiseKeeps ==
    ASSUME ServerInv, NEW w \in Workers, Raise(w)
    PROVE  ServerInv'
<1> SUFFICES ASSUME NEW r, r = work[w].req PROVE ServerInv'
  OBVIOUS
<1>1. PICK a \in {"error", "cancelled"} : /\ work' = [work EXCEPT ![w].at = a]
                                          /\ effect' \in {effect, effect \cup {r}}
                                          /\ a = "cancelled" => effect' = effect
  BY DEF Raise, Done
<1>2. a \in Outcome /\ a # "ok" /\ a # "loaded"
  BY DEF Outcome
<1>3. Told(r, a)'
  BY <1>1, <1>2 DEF Raise, Told, ServerInv, EffectInv
<1>4. slot' = slot /\ slot \in [Workers -> Requests \cup {None}]
  BY DEF Raise, ServerInv, TypeOK
<1> QED BY <1>1, <1>2, <1>3, <1>4, WorkerStepKeeps DEF Raise, loopvars, ServerInv, TypeOK

LEMMA ExecuteKeeps ==
    ASSUME ServerInv, NEW w \in Workers, Execute(w)
    PROVE  ServerInv'
<1> SUFFICES ASSUME NEW r, r = work[w].req PROVE ServerInv'
  OBVIOUS
<1>1. r \in Requests /\ work[w].at = "loaded"
  BY DEF Execute, ServerInv, BusyInv
<1>2. slot' \in [Workers -> Requests \cup {None}] /\ \A v \in Workers \ {w} : slot'[v] = slot[v]
  BY <1>1 DEF Execute, ServerInv, TypeOK
<1>3. buffer' \in [Requests -> SUBSET Requests]
  BY <1>1 DEF Execute, ServerInv, TypeOK
<1>4. commits' \in [Requests -> Nat]
  <2>1. commits \in [Requests -> Nat] /\ slot[w] \in Requests \cup {None}
    BY DEF ServerInv, TypeOK
  <2>2. commits' = commits \/ (slot[w] # None /\ commits' = [commits EXCEPT ![slot[w]] = @ + 1])
    BY DEF Execute
  <2> QED BY <2>1, <2>2
<1>5. slot'[w] = slot[w] \/ req[r].op \in SqlOps
  BY DEF Execute, SqlOps
<1>6. "ok" \in Outcome /\ Told(r, "ok")'
  BY DEF Execute, Told, Outcome
<1> QED BY <1>1, <1>2, <1>3, <1>4, <1>5, <1>6, WorkerStepKeeps DEF Execute, Done, loopvars

LEMMA AdminKeeps ==
    ASSUME ServerInv, NEW w \in Workers, Admin(w)
    PROVE  ServerInv'
<1> SUFFICES ASSUME NEW r, r = work[w].req PROVE ServerInv'
  OBVIOUS
<1>1. PICK a \in Outcome : /\ work' = [work EXCEPT ![w].at = a]
                           /\ effect' \in {effect, effect \cup {r}}
                           /\ a = "ok" => r \in effect'
  BY DEF Admin, Done, Outcome
<1>2. a # "loaded"
  BY DEF Outcome
<1>3. Told(r, a)'
  <2>1. req' = req /\ req[r].op = "admin" /\ r \notin effect
    BY DEF Admin, loopvars, ServerInv, EffectInv
  <2> QED BY <1>1, <2>1 DEF Told, Outcome
<1>4. slot' = slot /\ slot \in [Workers -> Requests \cup {None}]
  BY DEF Admin, ServerInv, TypeOK
<1> QED BY <1>1, <1>2, <1>3, <1>4, WorkerStepKeeps DEF Admin, loopvars, ServerInv, TypeOK

\* What WriteBack and PostAdmin have in common: a worker posts its outcome and is free.
LEMMA PostKeeps ==
    ASSUME ServerInv, NEW w \in Workers, NEW r, r = work[w].req,
           work[w].at \in Outcome,
           work' = [work EXCEPT ![w] = Idle],
           posted' = [posted EXCEPT ![r] = work[w].at],
           UNCHANGED <<up, req, task, queue, cancel, pending, cursors, answer, shared, effect, buffer, commits>>,
           ws_txn' \in [Conns -> Requests \cup {None}],
           slot' = [slot EXCEPT ![w] = None]
    PROVE  ServerInv'
<1>0. r \in Requests /\ Away(r) /\ Told(r, work[w].at)
  BY DEF ServerInv, BusyInv, EffectInv, Outcome
<1>1. work'[w].at = "idle" /\ \A v \in Workers \ {w} : work'[v] = work[v]
  BY DEF ServerInv, TypeOK, Idle
<1>2. posted'[r] = work[w].at /\ \A x \in Requests \ {r} : posted'[x] = posted[x]
  BY <1>0 DEF ServerInv, TypeOK
<1>3. TypeOK'
  <2>1. work' \in [Workers -> [at : {"idle", "taken", "loaded"} \cup Outcome, req : Requests \cup {None}]]
    BY DEF ServerInv, TypeOK, Idle
  <2>2. posted' \in [Requests -> {None} \cup Outcome] /\ slot' \in [Workers -> Requests \cup {None}]
    BY DEF ServerInv, TypeOK
  <2> QED BY <2>1, <2>2 DEF ServerInv, TypeOK
<1>4. SentInv' /\ PendingExact' /\ AnswerTruthful' /\ FlightInv'
  BY DEF ServerInv, SentInv, PendingExact, Waiting, InFlight, AnswerTruthful, FlightInv, Unanswered, Clash
<1>5. QueueInv'
  <2>0. queue \in Seq(Requests)
    BY DEF ServerInv, TypeOK
  <2>1. \A i \in DOMAIN queue : queue[i] \in Requests \ {r}
    BY <2>0 DEF ServerInv, BusyInv, Outcome
  <2> QED BY <1>2, <2>1 DEF ServerInv, QueueInv, Away
<1>6. \A v \in Workers \ {w} : work[v].at # "idle" => work[v].req \in Requests \ {r}
  BY DEF ServerInv, BusyInv, Outcome
<1>7. BusyInv'
  BY <1>1, <1>2, <1>6 DEF ServerInv, BusyInv, Away
<1>8. EffectInv'
  BY <1>1 DEF ServerInv, EffectInv, Told, Outcome
<1>9. PostedInv' /\ UnsentInv'
  BY <1>0, <1>2 DEF ServerInv, PostedInv, UnsentInv, Told, Away
<1>10. SlotInv'
  BY <1>1 DEF ServerInv, TypeOK, SlotInv
<1> QED BY <1>3, <1>4, <1>5, <1>7, <1>8, <1>9, <1>10 DEF ServerInv

LEMMA WriteBackKeeps ==
    ASSUME ServerInv, NEW w \in Workers, WriteBack(w)
    PROVE  ServerInv'
<1>1. ws_txn' \in [Conns -> Requests \cup {None}]
  BY DEF WriteBack, ServerInv, TypeOK
<1> QED BY <1>1, PostKeeps DEF WriteBack

LEMMA PostAdminKeeps ==
    ASSUME ServerInv, NEW w \in Workers, PostAdmin(w)
    PROVE  ServerInv'
<1>1. slot[w] = None
  BY DEF PostAdmin, ServerInv, SlotInv, SqlOps
<1>2. slot' = [slot EXCEPT ![w] = None] /\ ws_txn' \in [Conns -> Requests \cup {None}]
  BY <1>1 DEF PostAdmin, ServerInv, TypeOK
<1> QED BY <1>2, PostKeeps DEF PostAdmin

\* Every step of the server preserves the invariant.
LEMMA ServerStep == ServerInv /\ [Next]_vars => ServerInv'
<1> SUFFICES ASSUME ServerInv, [Next]_vars PROVE ServerInv'
  OBVIOUS
<1>1. CASE UNCHANGED vars
  <2>1. TypeOK'
    BY <1>1 DEF vars, ServerInv, TypeOK
  <2> QED BY <1>1, <2>1 DEF vars, ServerInv, SentInv, QueueInv, BusyInv, EffectInv, PostedInv, UnsentInv,
                            SlotInv, AnswerTruthful, PendingExact, Waiting, InFlight, FlightInv, Unanswered,
                    Clash, Away, Told
<1>2. CASE Next
  BY <1>2, SendKeeps, CancelKeeps, CloseCursorKeeps, DisconnectKeeps, DeliverKeeps, TakeKeeps, LoadKeeps,
     RaiseKeeps, ExecuteKeeps, AdminKeeps, WriteBackKeeps, PostAdminKeeps DEF Next
<1> QED BY <1>1, <1>2

----------------------------------------------------------------------------
\* Type correctness; in particular no connection exceeds its cursor limit.
THEOREM ServerTypes == Spec => []TypeOK
<1>1. ServerInv => TypeOK
  BY DEF ServerInv
<1> QED BY <1>1, ServerInit, ServerStep, PTL DEF Spec

\* "ok" and "cancelled" say what happened to a request, whatever cancels, disconnects and other
\* requests do, on a pool of any size, also when statements fail after they changed something.
THEOREM ServerTruthful == Spec => []AnswerTruthful
<1>1. ServerInv => AnswerTruthful
  BY DEF ServerInv
<1> QED BY <1>1, ServerInit, ServerStep, PTL DEF Spec

\* cancel and disconnect reach every request that awaits an answer, except one without an
\* id or whose id was in use twice while it was in flight; and they reach no other.
THEOREM ServerPending == Spec => []PendingExact
<1>1. ServerInv => PendingExact
  BY DEF ServerInv
<1> QED BY <1>1, ServerInit, ServerStep, PTL DEF Spec

----------------------------------------------------------------------------
(***************************************************************************)
(* Requests of a connection that has gone: what it left in the queue is    *)
(* marked, because disconnect finds it in the pending table.               *)
(***************************************************************************)
QuietInv ==
    \A i \in DOMAIN queue :
        LET r == queue[i] IN
        req[r].conn \in up \/ req[r].id = None \/ r \in shared \/ r \in cancel

LEMMA QuietStep ==
    ASSUME ServerInv, QuietInv, [Next]_vars
    PROVE  QuietInv'
<1>0. queue \in Seq(Requests) /\ \A i \in DOMAIN queue : queue[i] \in Requests
  <2>1. queue \in Seq(Requests)
    BY DEF ServerInv, TypeOK
  <2> QED BY <2>1
<1>1. ASSUME UNCHANGED <<queue, req, up, shared>>, cancel \subseteq cancel'
      PROVE  QuietInv'
  BY <1>1 DEF QuietInv
<1>2. ASSUME NEW c \in Conns, NEW r \in Requests, NEW op \in Ops, NEW id \in Ids, Send(c, r, op, id)
      PROVE  QuietInv'
  <2>1. req'[r].conn = c /\ \A x \in Requests \ {r} : req'[x] = req[x]
    BY <1>2 DEF Send, ServerInv, TypeOK
  <2>2. \A i \in DOMAIN queue : queue[i] \in Requests \ {r}
    BY <1>0, <1>2 DEF Send, ServerInv, QueueInv, Away, SentInv
  <2>3. \A i \in DOMAIN queue' : (i \in DOMAIN queue /\ queue'[i] = queue[i]) \/ queue'[i] = r
    BY <1>0, <1>2 DEF Send
  <2>4. up' = up /\ cancel' = cancel /\ c \in up /\ shared \subseteq shared'
    BY <1>2 DEF Send
  <2> QED BY <2>1, <2>2, <2>3, <2>4 DEF QuietInv
<1>3. ASSUME NEW c \in Conns, Disconnect(c)
      PROVE  QuietInv'
  <2> SUFFICES ASSUME NEW i \in DOMAIN queue' PROVE QuietInv!(i)'
    BY DEF QuietInv
  <2>1. queue' = queue /\ req' = req /\ shared' = shared /\ up' = up \ {c} /\ cancel' = cancel \cup pending[c]
    BY <1>3 DEF Disconnect, workvars
  <2>2. CASE req[queue[i]].conn = c /\ c \in up
    <3>1. queue[i] \in Waiting(c)
      BY <1>0, <2>1, <2>2 DEF ServerInv, QueueInv, Away, FlightInv, Unanswered, Waiting
    <3>2. req[queue[i]].id = None \/ queue[i] \in shared \/ queue[i] \in pending[c]
      BY <3>1 DEF ServerInv, PendingExact
    <3> QED BY <2>1, <2>2, <3>2
  <2>3. CASE req[queue[i]].conn # c
    BY <2>1, <2>3 DEF QuietInv
  <2>4. c \in up
    BY <1>3 DEF Disconnect
  <2> QED BY <2>2, <2>3, <2>4
<1>4. ASSUME NEW r \in Requests, Deliver(r)
      PROVE  QuietInv'
  BY <1>1, <1>4 DEF Deliver, workvars
<1>5. ASSUME NEW w \in Workers, Take(w)
      PROVE  QuietInv'
  <2>1. \A i \in DOMAIN queue' : i + 1 \in DOMAIN queue /\ queue'[i] = queue[i + 1]
    BY <1>0, <1>5 DEF Take
  <2>2. UNCHANGED <<req, up, shared, cancel>>
    BY <1>5 DEF Take
  <2> QED BY <2>1, <2>2 DEF QuietInv
<1>6. ASSUME NEW c \in Conns, CloseCursor(c) \/ \E r \in Requests : Cancel(c, r)
      PROVE  QuietInv'
  BY <1>1, <1>6 DEF CloseCursor, Cancel, workvars
<1>7. ASSUME NEW w \in Workers, Load(w) \/ Raise(w) \/ Execute(w) \/ Admin(w) \/ WriteBack(w) \/ PostAdmin(w)
      PROVE  QuietInv'
  BY <1>1, <1>7 DEF Load, Raise, Execute, Admin, WriteBack, PostAdmin, loopvars
<1>8. CASE UNCHANGED vars
  BY <1>1, <1>8 DEF vars
<1> QED BY <1>2, <1>3, <1>4, <1>5, <1>6, <1>7, <1>8 DEF Next

\* A step that makes a worker start on a request takes the head of the queue, unmarked.
LEMMA StartsQueued ==
    ASSUME ServerInv, [Next]_vars, NEW w \in Workers, work'[w].at = "taken", work[w].at # "taken"
    PROVE  /\ Take(w)
           /\ queue # <<>> /\ work'[w].req = Head(queue) /\ Head(queue) \notin cancel
<1>1. work \in [Workers -> [at : {"idle", "taken", "loaded"} \cup Outcome, req : Requests \cup {None}]]
  BY DEF ServerInv, TypeOK
<1>2. ASSUME work' = work
      PROVE  FALSE
  BY <1>2
<1>3. ASSUME NEW v \in Workers, Take(v)
      PROVE  v = w /\ queue # <<>> /\ work'[w].req = Head(queue) /\ Head(queue) \notin cancel
  BY <1>1, <1>3 DEF Take
<1>4. ASSUME NEW v \in Workers, Load(v) \/ Raise(v) \/ Execute(v) \/ Admin(v)
      PROVE  FALSE
  BY <1>1, <1>4 DEF Load, Raise, Execute, Admin, Done
<1>5. ASSUME NEW v \in Workers, WriteBack(v) \/ PostAdmin(v)
      PROVE  FALSE
  BY <1>1, <1>5 DEF WriteBack, PostAdmin, Idle
<1>6. ASSUME NEW c \in Conns,
             \/ Disconnect(c) \/ CloseCursor(c)
             \/ \E r \in Requests : Cancel(c, r) \/ \E op \in Ops, id \in Ids : Send(c, r, op, id)
      PROVE  FALSE
  BY <1>2, <1>6 DEF Disconnect, CloseCursor, Cancel, Send, workvars
<1>7. ASSUME NEW r \in Requests, Deliver(r)
      PROVE  FALSE
  BY <1>2, <1>7 DEF Deliver, workvars
<1>8. CASE UNCHANGED vars
  BY <1>2, <1>8 DEF vars
<1> QED BY <1>3, <1>4, <1>5, <1>6, <1>7, <1>8 DEF Next

\* Nothing a client has left in the queue starts after it has disconnected, with the same
\* two exceptions, on a pool of any size; an id used again after the answer is none.
THEOREM ServerQuiet == Spec => QuietAfterClose
<1> DEFINE Starts(w) ==
        work'[w].at = "taken" /\ work[w].at # "taken" =>
            LET r == work'[w].req IN req[r].conn \in up \/ req[r].id = None \/ r \in shared
<1>1. Init => ServerInv /\ QuietInv
  BY ServerInit DEF Init, QuietInv
<1>2. ServerInv /\ QuietInv /\ [Next]_vars => (ServerInv /\ QuietInv)'
  BY ServerStep, QuietStep
<1>3. ServerInv /\ QuietInv /\ [Next]_vars => [\A w \in Workers : Starts(w)]_vars
  <2> SUFFICES ASSUME ServerInv, QuietInv, [Next]_vars, NEW w \in Workers,
                      work'[w].at = "taken", work[w].at # "taken"
               PROVE  LET r == work'[w].req IN req[r].conn \in up \/ req[r].id = None \/ r \in shared
    OBVIOUS
  <2>1. queue \in Seq(Requests)
    BY DEF ServerInv, TypeOK
  <2>2. queue # <<>> /\ work'[w].req = Head(queue) /\ Head(queue) \notin cancel
    BY StartsQueued
  <2>3. 1 \in DOMAIN queue /\ queue[1] = Head(queue)
    BY <2>1, <2>2
  <2> QED BY <2>2, <2>3 DEF QuietInv
<1> QED BY <1>1, <1>2, <1>3, PTL DEF Spec, QuietAfterClose

----------------------------------------------------------------------------
LEMMA PlaceStep ==
    ASSUME ServerInv, NoneForgotten, [Next]_vars
    PROVE  NoneForgotten'
<1>0. /\ queue \in Seq(Requests) /\ posted \in [Requests -> {None} \cup Outcome]
      /\ task \in [Requests -> {"unsent", "waiting", "ended"}]
      /\ work \in [Workers -> [at : {"idle", "taken", "loaded"} \cup Outcome, req : Requests \cup {None}]]
  BY DEF ServerInv, TypeOK
<1>1. ASSUME UNCHANGED <<queue, work, posted>>, \A r \in Requests : task'[r] = "waiting" => task[r] = "waiting"
      PROVE  NoneForgotten'
  BY <1>1 DEF NoneForgotten
<1>2. ASSUME NEW c \in Conns, NEW r \in Requests, NEW op \in Ops, NEW id \in Ids, Send(c, r, op, id)
      PROVE  NoneForgotten'
  <2>1. UNCHANGED <<work, posted>> /\ \A x \in Requests \ {r} : task'[x] = task[x]
    BY <1>0, <1>2 DEF Send
  <2>2. /\ Len(queue) + 1 \in DOMAIN queue' /\ queue'[Len(queue) + 1] = r
        /\ \A i \in DOMAIN queue : i \in DOMAIN queue' /\ queue'[i] = queue[i]
    BY <1>0, <1>2 DEF Send
  <2> QED BY <2>1, <2>2 DEF NoneForgotten
<1>3. ASSUME NEW r \in Requests, Deliver(r)
      PROVE  NoneForgotten'
  <2>1. UNCHANGED <<queue, work>> /\ task'[r] = "ended"
    BY <1>0, <1>3 DEF Deliver, workvars
  <2>2. \A x \in Requests \ {r} : task'[x] = task[x] /\ posted'[x] = posted[x]
    BY <1>0, <1>3 DEF Deliver
  <2> QED BY <2>1, <2>2 DEF NoneForgotten
<1>4. ASSUME NEW w \in Workers, Take(w)
      PROVE  NoneForgotten'
  <2> DEFINE h == Head(queue)
  <2>1. queue # <<>> /\ task' = task /\ work[w].at = "idle"
    BY <1>4 DEF Take, Idle
  <2>2. /\ h \in Requests
        /\ \A i \in DOMAIN queue : queue[i] = h \/ (i - 1 \in DOMAIN queue' /\ queue'[i - 1] = queue[i])
    BY <1>0, <1>4, <2>1 DEF Take
  <2>3. \A v \in Workers : work[v].at # "idle" => work'[v] = work[v]
    BY <1>0, <1>4, <2>1 DEF Take
  <2>4. posted'[h] # None \/ (work'[w].at = "taken" /\ work'[w].req = h)
    BY <1>0, <1>4, <2>2, NoneAssumption DEF Take, Outcome
  <2>5. \A x \in Requests : posted[x] # None => posted'[x] # None
    BY <1>0, <1>4, NoneAssumption DEF Take, Outcome
  <2> HIDE DEF h
  <2> QED BY <2>1, <2>2, <2>3, <2>4, <2>5 DEF NoneForgotten
<1>5. ASSUME NEW w \in Workers, Load(w) \/ Raise(w) \/ Execute(w) \/ Admin(w)
      PROVE  NoneForgotten'
  <2>1. UNCHANGED <<queue, posted, task>>
    BY <1>5 DEF Load, Raise, Execute, Admin, loopvars
  <2>2. work[w].at # "idle" /\ \E a \in {"loaded"} \cup Outcome : work' = [work EXCEPT ![w].at = a]
    BY <1>5 DEF Load, Raise, Execute, Admin, Done, Outcome
  <2> QED BY <1>0, <2>1, <2>2 DEF NoneForgotten, Outcome
<1>6. ASSUME NEW w \in Workers, WriteBack(w) \/ PostAdmin(w)
      PROVE  NoneForgotten'
  <2> DEFINE r == work[w].req
  <2>1. /\ UNCHANGED <<queue, task>> /\ work' = [work EXCEPT ![w] = Idle]
        /\ posted' = [posted EXCEPT ![r] = work[w].at] /\ work[w].at \in Outcome
    BY <1>6 DEF WriteBack, PostAdmin
  <2>2. \A v \in Workers \ {w} : work'[v] = work[v]
    BY <1>0, <2>1
  <2>3. \A x \in Requests : x = r \/ posted[x] # None => posted'[x] # None
    BY <1>0, <2>1, NoneAssumption
  <2> HIDE DEF r
  <2> QED BY <2>1, <2>2, <2>3 DEF NoneForgotten, r
<1>7. ASSUME NEW c \in Conns, Disconnect(c) \/ CloseCursor(c) \/ \E r \in Requests : Cancel(c, r)
      PROVE  NoneForgotten'
  BY <1>1, <1>7 DEF Disconnect, CloseCursor, Cancel, workvars
<1>8. CASE UNCHANGED vars
  BY <1>1, <1>8 DEF vars
<1> QED BY <1>2, <1>3, <1>4, <1>5, <1>6, <1>7, <1>8 DEF Next

\* No request is forgotten, on a pool of any size: the task that awaits an answer has its
\* request queued, with a worker, or its outcome posted.  With the progress of workers and
\* loop this is what every answer rests on.
THEOREM ServerNoneForgotten == Spec => []NoneForgotten
<1>1. Init => NoneForgotten
  BY DEF Init, NoneForgotten
<1> QED BY <1>1, ServerInit, ServerStep, PlaceStep, PTL DEF Spec

----------------------------------------------------------------------------
(***************************************************************************)
(* Transactions, on the default pool of one worker or on a larger one.     *)
(***************************************************************************)
OneWorker == \A w, v \in Workers : w = v

\* A transaction belongs to the connection that began it.
Began(t, c) == req[t] # None /\ req[t].conn = c

OwnedInv ==
    /\ \A c \in Conns : ws_txn[c] # None => Began(ws_txn[c], c)
    /\ \A w \in Workers : slot[w] # None => Began(slot[w], req[work[w].req].conn)

LEMMA OwnedStep ==
    ASSUME ServerInv, OwnedInv, [Next]_vars
    PROVE  OwnedInv'
<1>0. /\ ws_txn \in [Conns -> Requests \cup {None}] /\ slot \in [Workers -> Requests \cup {None}]
      /\ work \in [Workers -> [at : {"idle", "taken", "loaded"} \cup Outcome, req : Requests \cup {None}]]
  BY DEF ServerInv, TypeOK
<1>1. ASSUME UNCHANGED <<req, slot, ws_txn>>, \A w \in Workers : slot[w] # None => work'[w].req = work[w].req
      PROVE  OwnedInv'
  BY <1>1 DEF OwnedInv, Began
<1>2. ASSUME NEW c \in Conns, NEW r \in Requests, NEW op \in Ops, NEW id \in Ids, Send(c, r, op, id)
      PROVE  OwnedInv'
  <2>1. req[r] = None /\ \A x \in Requests \ {r} : req'[x] = req[x]
    BY <1>2 DEF Send, ServerInv, SentInv, TypeOK
  <2>2. UNCHANGED <<work, slot, ws_txn>>
    BY <1>2 DEF Send
  <2>3. \A w \in Workers : slot[w] # None => work[w].req \in Requests \ {r}
    BY <2>1 DEF ServerInv, SlotInv, BusyInv, Away
  <2>4. \A d \in Conns : ws_txn[d] # None => ws_txn[d] \in Requests \ {r}
    BY <1>0, <2>1 DEF OwnedInv, Began
  <2>5. \A w \in Workers : slot[w] # None => slot[w] \in Requests \ {r}
    BY <1>0, <2>1 DEF OwnedInv, Began
  <2> QED BY <2>1, <2>2, <2>3, <2>4, <2>5 DEF OwnedInv, Began
<1>3. ASSUME NEW w \in Workers, Take(w)
      PROVE  OwnedInv'
  <2>1. slot[w] = None /\ \A v \in Workers \ {w} : work'[v] = work[v]
    BY <1>0, <1>3 DEF Take, Idle, ServerInv, SlotInv
  <2> QED BY <1>1, <1>3, <2>1 DEF Take
<1>4. ASSUME NEW w \in Workers, Load(w)
      PROVE  OwnedInv'
  <2> SUFFICES ASSUME NEW c, c = req[work[w].req].conn PROVE OwnedInv'
    OBVIOUS
  <2>1. /\ slot'[w] = ws_txn[c] /\ \A v \in Workers \ {w} : slot'[v] = slot[v]
        /\ \A v \in Workers : work'[v].req = work[v].req
    BY <1>0, <1>4 DEF Load
  <2>2. req' = req /\ ws_txn' = ws_txn
    BY <1>4 DEF Load, loopvars
  <2>3. c \in Conns
    BY <1>4, ReqParts DEF Load, ServerInv, BusyInv, Away
  <2> QED BY <2>1, <2>2, <2>3 DEF OwnedInv, Began
<1>5. ASSUME NEW w \in Workers, Raise(w) \/ Admin(w)
      PROVE  OwnedInv'
  <2>1. \A v \in Workers : work'[v].req = work[v].req
    BY <1>0, <1>5 DEF Raise, Admin, Done
  <2> QED BY <1>1, <1>5, <2>1 DEF Raise, Admin, loopvars
<1>6. ASSUME NEW w \in Workers, Execute(w)
      PROVE  OwnedInv'
  <2>1. \A v \in Workers : work'[v].req = work[v].req
    BY <1>0, <1>6 DEF Execute, Done
  <2>2. req' = req /\ ws_txn' = ws_txn /\ req[work[w].req] # None
    BY <1>6 DEF Execute, loopvars, ServerInv, BusyInv, Away
  <2>3. slot'[w] \in {slot[w], work[w].req, None} /\ \A v \in Workers \ {w} : slot'[v] = slot[v]
    BY <1>0, <1>6 DEF Execute
  <2> QED BY <2>1, <2>2, <2>3 DEF OwnedInv, Began
<1>7. ASSUME NEW w \in Workers, WriteBack(w)
      PROVE  OwnedInv'
  <2> SUFFICES ASSUME NEW c, c = req[work[w].req].conn PROVE OwnedInv'
    OBVIOUS
  <2>1. slot'[w] = None /\ \A v \in Workers \ {w} : slot'[v] = slot[v] /\ work'[v] = work[v]
    BY <1>0, <1>7 DEF WriteBack
  <2>2. req' = req /\ ws_txn' = [ws_txn EXCEPT ![c] = slot[w]]
    BY <1>7 DEF WriteBack
  <2>3. \A d \in Conns : ws_txn'[d] = ws_txn[d] \/ (d = c /\ ws_txn'[d] = slot[w])
    BY <1>0, <2>2
  <2> QED BY <2>1, <2>2, <2>3 DEF OwnedInv, Began
<1>8. ASSUME NEW w \in Workers, PostAdmin(w)
      PROVE  OwnedInv'
  <2>1. slot[w] = None /\ \A v \in Workers \ {w} : work'[v] = work[v]
    BY <1>0, <1>8 DEF PostAdmin, ServerInv, SlotInv, SqlOps
  <2> QED BY <1>1, <1>8, <2>1 DEF PostAdmin
<1>9. ASSUME NEW c \in Conns, Disconnect(c) \/ CloseCursor(c) \/ \E r \in Requests : Cancel(c, r)
      PROVE  OwnedInv'
  BY <1>1, <1>9 DEF Disconnect, CloseCursor, Cancel, workvars
<1>10. ASSUME NEW r \in Requests, Deliver(r)
       PROVE  OwnedInv'
  BY <1>1, <1>10 DEF Deliver, workvars
<1>11. CASE UNCHANGED vars
  BY <1>1, <1>11 DEF vars
<1> QED BY <1>2, <1>3, <1>4, <1>5, <1>6, <1>7, <1>8, <1>9, <1>10, <1>11 DEF Next

\* No statement runs in a transaction that another connection began, on a pool of any size
\* and however clients pipeline.
THEOREM ServerTxnOwned == Spec => []TxnOwned
<1>1. Init => OwnedInv
  BY DEF Init, OwnedInv
<1>2. ServerInv /\ OwnedInv => TxnOwned
  BY DEF OwnedInv, Began, TxnOwned, ServerInv, SlotInv
<1> QED BY <1>1, <1>2, ServerInit, ServerStep, OwnedStep, PTL DEF Spec

\* A transaction that is committed is in no thread's slot, and with its connection only until
\* the worker has written back.
Ended(c) ==
    \E w \in Workers :
        work[w].at \in Outcome /\ req[work[w].req].op \in SqlOps /\ req[work[w].req].conn = c

Opened(t, c) == Began(t, c) /\ t \in effect

Held(c) == ws_txn[c] # None => Opened(ws_txn[c], c) /\ (commits[ws_txn[c]] > 0 => Ended(c))

Loaded(w) == slot[w] # None => Opened(slot[w], req[work[w].req].conn) /\ commits[slot[w]] = 0

TxnInv ==
    /\ \A t \in Requests : commits[t] <= 1 /\ (commits[t] > 0 => t \in effect)
    /\ \A c \in Conns : Held(c)
    /\ \A w \in Workers : Loaded(w)

(***************************************************************************)
(* No two workers serve one connection at a time: there is only one        *)
(* worker, or clients wait for each answer, and then a connection has at   *)
(* most one request that was never answered.                               *)
(***************************************************************************)
Alone ==
    \A w, v \in Workers :
        w # v /\ work[w].at # "idle" /\ work[v].at # "idle" => req[work[w].req].conn # req[work[v].req].conn

Open(r, c) == req[r] # None /\ req[r].conn = c /\ answer[r] = None

SingleInv == \A r, x \in Requests, c \in Conns : Open(r, c) /\ Open(x, c) => r = x

LEMMA SingleStep ==
    ASSUME ~Pipelined, ServerInv, SingleInv, [Next]_vars
    PROVE  SingleInv'
<1>1. ASSUME req' = req, \A r \in Requests : answer'[r] = None => answer[r] = None
      PROVE  SingleInv'
  BY <1>1 DEF SingleInv, Open
<1>2. ASSUME NEW c \in Conns, NEW r \in Requests, NEW op \in Ops, NEW id \in Ids, Send(c, r, op, id)
      PROVE  SingleInv'
  <2>1. req'[r].conn = c /\ answer' = answer /\ \A x \in Requests \ {r} : req'[x] = req[x]
    BY <1>2 DEF Send, ServerInv, TypeOK
  <2>2. \A x \in Requests : ~Open(x, c)
    BY <1>2 DEF Send, Open, Waiting, ServerInv, FlightInv, Unanswered
  <2>3. \A x \in Requests \ {r}, d \in Conns : Open(x, d)' => Open(x, d) /\ d # c
    BY <2>1, <2>2 DEF Open
  <2>4. \A d \in Conns : Open(r, d)' => d = c
    BY <2>1 DEF Open
  <2> QED BY <2>3, <2>4 DEF SingleInv
<1>3. ASSUME NEW r \in Requests, Deliver(r)
      PROVE  SingleInv'
  <2>1. req' = req /\ answer[r] = None /\ \A x \in Requests \ {r} : answer'[x] = answer[x]
    BY <1>3 DEF Deliver, ServerInv, TypeOK, PostedInv
  <2> QED BY <1>1, <2>1
<1>4. ASSUME NEW c \in Conns, Disconnect(c) \/ CloseCursor(c) \/ \E r \in Requests : Cancel(c, r)
      PROVE  SingleInv'
  BY <1>1, <1>4 DEF Disconnect, CloseCursor, Cancel
<1>5. ASSUME NEW w \in Workers,
             Take(w) \/ Load(w) \/ Raise(w) \/ Execute(w) \/ Admin(w) \/ WriteBack(w) \/ PostAdmin(w)
      PROVE  SingleInv'
  BY <1>1, <1>5 DEF Take, Load, Raise, Execute, Admin, WriteBack, PostAdmin, loopvars
<1>6. CASE UNCHANGED vars
  BY <1>1, <1>6 DEF vars
<1> QED BY <1>2, <1>3, <1>4, <1>5, <1>6 DEF Next

LEMMA SingleAlone ==
    ASSUME ServerInv, OneWorker \/ SingleInv
    PROVE  Alone
<1> SUFFICES ASSUME NEW w \in Workers, NEW v \in Workers, w # v,
                    work[w].at # "idle", work[v].at # "idle",
                    req[work[w].req].conn = req[work[v].req].conn
             PROVE  FALSE
  BY DEF Alone
<1>1. /\ work[w].req \in Requests /\ work[v].req \in Requests /\ work[w].req # work[v].req
      /\ Away(work[w].req) /\ Away(work[v].req)
  BY DEF ServerInv, BusyInv
<1>2. req[work[w].req].conn \in Conns
  BY <1>1, ReqParts DEF ServerInv, Away
<1> QED BY <1>1, <1>2 DEF OneWorker, SingleInv, Open, Away

LEMMA TxnStep ==
    ASSUME Alone, ServerInv, TxnInv, [Next]_vars
    PROVE  TxnInv'
<1>0. /\ ws_txn \in [Conns -> Requests \cup {None}] /\ slot \in [Workers -> Requests \cup {None}]
      /\ commits \in [Requests -> Nat]
      /\ work \in [Workers -> [at : {"idle", "taken", "loaded"} \cup Outcome, req : Requests \cup {None}]]
  BY DEF ServerInv, TypeOK
<1>1. ASSUME UNCHANGED <<req, work, slot, ws_txn, effect, commits>>
      PROVE  TxnInv'
  BY <1>1 DEF TxnInv, Held, Loaded, Opened, Began, Ended
<1>2. ASSUME NEW c \in Conns, NEW r \in Requests, NEW op \in Ops, NEW id \in Ids, Send(c, r, op, id)
      PROVE  TxnInv'
  <2>1. req[r] = None /\ \A x \in Requests \ {r} : req'[x] = req[x]
    BY <1>2 DEF Send, ServerInv, SentInv, TypeOK
  <2>2. UNCHANGED <<work, slot, ws_txn, effect, commits>>
    BY <1>2 DEF Send
  <2>3. \A w \in Workers : work[w].at # "idle" => work[w].req \in Requests \ {r}
    BY <2>1 DEF ServerInv, BusyInv, Away
  <2>4. \A w \in Workers : slot[w] # None => work[w].at # "idle"
    BY DEF ServerInv, SlotInv
  <2>5. \A w \in Workers : work[w].at \in Outcome => work[w].at # "idle"
    BY DEF Outcome
  <2>6. \A d \in Conns : Ended(d) => Ended(d)'
    BY <2>1, <2>2, <2>3, <2>5 DEF Ended
  <2>8. \A d \in Conns : Held(d)'
    BY <1>0, <2>1, <2>2, <2>6 DEF TxnInv, Held, Opened, Began
  <2>9. \A w \in Workers : Loaded(w)'
    BY <1>0, <2>1, <2>2, <2>3, <2>4 DEF TxnInv, Loaded, Opened, Began
  <2> QED BY <2>2, <2>8, <2>9 DEF TxnInv, Held, Loaded
<1>3. ASSUME NEW w \in Workers, work[w].at \notin Outcome, req' = req,
             \A v \in Workers \ {w} : work'[v] = work[v]
      PROVE  \A d \in Conns : Ended(d) => Ended(d)'
  BY <1>3 DEF Ended
<1>4. "idle" \notin Outcome /\ "taken" \notin Outcome /\ "loaded" \notin Outcome
  BY DEF Outcome
<1>14. \A v \in Workers : slot[v] # None => work[v].at # "idle"
  BY DEF ServerInv, SlotInv
<1>15. ASSUME NEW w \in Workers, work[w].at \in {"taken", "loaded"}
       PROVE  ~Ended(req[work[w].req].conn)
  BY <1>4, <1>15 DEF Ended, Alone
<1>5. ASSUME NEW w \in Workers, Take(w)
      PROVE  TxnInv'
  <2>1. work[w].at = "idle" /\ slot[w] = None /\ \A v \in Workers \ {w} : work'[v] = work[v]
    BY <1>0, <1>5 DEF Take, Idle, ServerInv, SlotInv
  <2>2. UNCHANGED <<req, slot, ws_txn, effect, commits>>
    BY <1>5 DEF Take
  <2>3. \A d \in Conns : Held(d)'
    BY <1>3, <1>4, <2>1, <2>2 DEF TxnInv, Held, Opened, Began
  <2>4. \A v \in Workers : Loaded(v)'
    BY <2>1, <2>2 DEF TxnInv, Loaded, Opened, Began
  <2> QED BY <2>2, <2>3, <2>4 DEF TxnInv
<1>6. ASSUME NEW w \in Workers, Load(w)
      PROVE  TxnInv'
  <2> SUFFICES ASSUME NEW c, c = req[work[w].req].conn PROVE TxnInv'
    OBVIOUS
  <2>1. /\ work[w].at = "taken" /\ slot'[w] = ws_txn[c] /\ work'[w].req = work[w].req
        /\ \A v \in Workers \ {w} : work'[v] = work[v] /\ slot'[v] = slot[v]
    BY <1>0, <1>6 DEF Load
  <2>2. UNCHANGED <<req, ws_txn, effect, commits>>
    BY <1>6 DEF Load, loopvars
  <2>3. c \in Conns
    BY <2>1, ReqParts DEF ServerInv, BusyInv, Away
  <2>4. \A d \in Conns : Held(d)'
    BY <1>3, <1>4, <2>1, <2>2 DEF TxnInv, Held, Opened, Began
  <2>5. Loaded(w)'
    <3>1. ws_txn[c] # None => Opened(ws_txn[c], c) /\ commits[ws_txn[c]] = 0
      BY <1>0, <1>15, <2>1, <2>3 DEF TxnInv, Held
    <3> QED BY <2>1, <2>2, <3>1 DEF Loaded, Opened, Began
  <2>6. \A v \in Workers \ {w} : Loaded(v)'
    BY <2>1, <2>2 DEF TxnInv, Loaded, Opened, Began
  <2> QED BY <2>2, <2>4, <2>5, <2>6 DEF TxnInv
<1>7. ASSUME NEW w \in Workers, Raise(w) \/ Admin(w)
      PROVE  TxnInv'
  <2>1. /\ work[w].at \in {"taken", "loaded"} /\ work'[w].req = work[w].req
        /\ \A v \in Workers \ {w} : work'[v] = work[v]
    BY <1>0, <1>7 DEF Raise, Admin, Done
  <2>2. UNCHANGED <<req, ws_txn, slot, commits>> /\ effect \subseteq effect'
    BY <1>7 DEF Raise, Admin, loopvars
  <2>3. \A d \in Conns : Held(d)'
    BY <1>3, <1>4, <2>1, <2>2 DEF TxnInv, Held, Opened, Began
  <2>4. \A v \in Workers : Loaded(v)'
    BY <2>1, <2>2 DEF TxnInv, Loaded, Opened, Began
  <2> QED BY <2>2, <2>3, <2>4 DEF TxnInv
<1>8. ASSUME NEW w \in Workers, Execute(w)
      PROVE  TxnInv'
  <2> SUFFICES ASSUME NEW r, r = work[w].req PROVE TxnInv'
    OBVIOUS
  <2>1. /\ work[w].at = "loaded" /\ r \in Requests /\ req[r] # None /\ r \notin effect
        /\ work'[w].req = r /\ work'[w].at = "ok"
        /\ \A v \in Workers \ {w} : work'[v] = work[v] /\ slot'[v] = slot[v]
    BY <1>0, <1>8 DEF Execute, Done, ServerInv, BusyInv, Away, EffectInv
  <2>2. UNCHANGED <<req, ws_txn>> /\ effect' = effect \cup {r} /\ "ok" \in Outcome
    BY <1>8 DEF Execute, loopvars, Outcome
  <2>3. commits[r] = 0
    BY <1>0, <2>1 DEF TxnInv
  <2>4. \A d \in Conns : Ended(d) => Ended(d)'
    BY <1>3, <1>4, <2>1, <2>2
  <2>5. CASE commits' = commits /\ slot'[w] \in {r, slot[w], None}
    <3>1. \A d \in Conns : Held(d)'
      BY <2>2, <2>4, <2>5 DEF TxnInv, Held, Opened, Began
    <3>2. \A v \in Workers \ {w} : Loaded(v)'
      BY <2>1, <2>2, <2>5 DEF TxnInv, Loaded, Opened, Began
    <3>3. Loaded(w)'
      BY <2>1, <2>2, <2>3, <2>5 DEF TxnInv, Loaded, Opened, Began
    <3> QED BY <2>2, <2>5, <3>1, <3>2, <3>3 DEF TxnInv
  <2>6. CASE slot[w] # None /\ commits' = [commits EXCEPT ![slot[w]] = @ + 1] /\ slot'[w] = None
             /\ req[r].op = "commit"
    <3> SUFFICES ASSUME NEW t \in Requests, t = slot[w] PROVE TxnInv'
      BY <1>0, <2>6
    <3>1. commits[t] = 0 /\ commits'[t] = 1 /\ \A x \in Requests \ {t} : commits'[x] = commits[x]
      BY <1>0, <2>6 DEF TxnInv, Loaded
    <3>2. t \in effect /\ req[t].conn = req[r].conn
      BY <2>6 DEF TxnInv, Loaded, Opened, Began
    <3>3. Ended(req[r].conn)'
      BY <2>1, <2>2, <2>6 DEF Ended, SqlOps
    <3>4. \A x \in Requests : commits'[x] <= 1 /\ (commits'[x] > 0 => x \in effect')
      BY <2>2, <3>1, <3>2 DEF TxnInv
    <3>5. \A c \in Conns : Held(c)'
      <4> SUFFICES ASSUME NEW c \in Conns, ws_txn[c] # None
                   PROVE  Opened(ws_txn[c], c)' /\ ((commits[ws_txn[c]] > 0)' => Ended(c)')
        BY <2>2 DEF Held
      <4>1. Opened(ws_txn[c], c)'
        BY <2>2 DEF TxnInv, Held, Opened, Began
      <4>2. CASE ws_txn[c] = t
        <5>1. c = req[r].conn
          BY <3>2, <4>2 DEF TxnInv, Held, Opened, Began
        <5> QED BY <2>2, <3>3, <4>1, <5>1
      <4>3. CASE ws_txn[c] # t
        BY <1>0, <2>2, <2>4, <3>1, <4>1, <4>3 DEF TxnInv, Held
      <4> QED BY <4>2, <4>3
    <3>6. \A v \in Workers \ {w} : Loaded(v)'
      <4> SUFFICES ASSUME NEW v \in Workers \ {w}, slot[v] # None
                   PROVE  Opened(slot[v], req[work[v].req].conn)' /\ commits'[slot[v]] = 0
        BY <2>1, <2>2 DEF Loaded
      <4>1. Opened(slot[v], req[work[v].req].conn) /\ commits[slot[v]] = 0
        BY DEF TxnInv, Loaded
      <4>2. req[work[v].req].conn # req[r].conn
        BY <1>14, <2>1 DEF Alone
      <4>3. slot[v] # t
        BY <3>2, <4>1, <4>2 DEF Opened, Began
      <4> QED BY <1>0, <2>1, <2>2, <3>1, <4>1, <4>3 DEF Opened, Began
    <3>7. Loaded(w)'
      BY <2>6 DEF Loaded
    <3> QED BY <3>4, <3>5, <3>6, <3>7 DEF TxnInv
  <2> QED BY <1>0, <1>8, <2>5, <2>6 DEF Execute
<1>9. ASSUME NEW w \in Workers, WriteBack(w)
      PROVE  TxnInv'
  <2> SUFFICES ASSUME NEW c, c = req[work[w].req].conn PROVE TxnInv'
    OBVIOUS
  <2>1. /\ work[w].at \in Outcome /\ slot'[w] = None
        /\ \A v \in Workers \ {w} : work'[v] = work[v] /\ slot'[v] = slot[v]
    BY <1>0, <1>9 DEF WriteBack
  <2>2. UNCHANGED <<req, effect, commits>>
    BY <1>9 DEF WriteBack
  <2>3. ws_txn' = [ws_txn EXCEPT ![c] = slot[w]]
    BY <1>9 DEF WriteBack
  <2>4. \A d \in Conns \ {c} : Ended(d) => Ended(d)'
    BY <2>1, <2>2 DEF Ended
  <2>5. \A d \in Conns \ {c} : Held(d)'
    BY <1>0, <2>2, <2>3, <2>4 DEF TxnInv, Held, Opened, Began
  <2>6. c \in Conns => Held(c)'
    <3>1. slot[w] # None => Opened(slot[w], c) /\ commits[slot[w]] = 0
      BY DEF TxnInv, Loaded
    <3> QED BY <1>0, <2>2, <2>3, <3>1 DEF Held, Opened, Began
  <2>7. \A v \in Workers : Loaded(v)'
    BY <2>1, <2>2 DEF TxnInv, Loaded, Opened, Began
  <2> QED BY <2>2, <2>5, <2>6, <2>7 DEF TxnInv
<1>10. ASSUME NEW w \in Workers, PostAdmin(w)
       PROVE  TxnInv'
  <2>1. /\ slot[w] = None /\ req[work[w].req].op \notin SqlOps
        /\ \A v \in Workers \ {w} : work'[v] = work[v]
    BY <1>0, <1>10 DEF PostAdmin, ServerInv, SlotInv, SqlOps
  <2>2. UNCHANGED <<req, slot, ws_txn, effect, commits>>
    BY <1>10 DEF PostAdmin
  <2>3. \A d \in Conns : Ended(d) => Ended(d)'
    BY <2>1, <2>2 DEF Ended
  <2>4. \A d \in Conns : Held(d)'
    BY <2>2, <2>3 DEF TxnInv, Held, Opened, Began
  <2>5. \A v \in Workers : Loaded(v)'
    BY <2>1, <2>2 DEF TxnInv, Loaded, Opened, Began
  <2> QED BY <2>2, <2>4, <2>5 DEF TxnInv
<1>11. ASSUME NEW c \in Conns, Disconnect(c) \/ CloseCursor(c) \/ \E r \in Requests : Cancel(c, r)
       PROVE  TxnInv'
  BY <1>1, <1>11 DEF Disconnect, CloseCursor, Cancel, workvars
<1>12. ASSUME NEW r \in Requests, Deliver(r)
       PROVE  TxnInv'
  BY <1>1, <1>12 DEF Deliver, workvars
<1>13. CASE UNCHANGED vars
  BY <1>1, <1>13 DEF vars
<1> QED BY <1>2, <1>5, <1>6, <1>7, <1>8, <1>9, <1>10, <1>11, <1>12, <1>13 DEF Next

\* A transaction is committed at most once and takes no writes afterwards: on one worker
\* however its client pipelines, and on a pool of any size when clients wait for answers.
THEOREM ServerCommittedOnce == OneWorker \/ ~Pipelined => (Spec => CommittedOnce)
<1> SUFFICES ASSUME OneWorker \/ ~Pipelined PROVE Spec => CommittedOnce
  OBVIOUS
<1> DEFINE Once ==
        \A t \in Requests :
            /\ commits'[t] <= 1
            /\ commits[t] > 0 => buffer'[t] = buffer[t]
           Inv == ServerInv /\ TxnInv /\ (OneWorker \/ SingleInv)
<1>1. Init => Inv
  <2>1. Init => TxnInv /\ SingleInv
    BY DEF Init, TxnInv, Held, Loaded, SingleInv, Open
  <2> QED BY <2>1, ServerInit
<1>2. Inv /\ [Next]_vars => Inv'
  <2> SUFFICES ASSUME Inv, [Next]_vars PROVE Inv'
    OBVIOUS
  <2>1. ServerInv' /\ TxnInv'
    BY ServerStep, TxnStep, SingleAlone
  <2>2. ASSUME ~OneWorker PROVE SingleInv'
    BY <2>2, SingleStep
  <2> QED BY <2>1, <2>2 DEF OneWorker
<1>3. Inv /\ [Next]_vars => [Once]_vars
  <2> SUFFICES ASSUME Inv, [Next]_vars PROVE Once
    OBVIOUS
  <2>1. \A t \in Requests : commits'[t] <= 1
    BY <1>2 DEF TxnInv
  <2>2. ASSUME NEW t \in Requests, commits[t] > 0
        PROVE  buffer'[t] = buffer[t]
    <3>1. ASSUME NEW w \in Workers, Execute(w)
          PROVE  buffer'[t] = buffer[t]
      <4>1. slot[w] # t
        BY <2>2, NoneAssumption DEF TxnInv, Loaded
      <4> QED BY <3>1, <4>1 DEF Execute, ServerInv, TypeOK
    <3>2. ASSUME NEW w \in Workers,
                 Take(w) \/ Load(w) \/ Raise(w) \/ Admin(w) \/ WriteBack(w) \/ PostAdmin(w)
          PROVE  buffer' = buffer
      BY <3>2 DEF Take, Load, Raise, Admin, WriteBack, PostAdmin
    <3>3. ASSUME NEW c \in Conns,
                 \/ Disconnect(c) \/ CloseCursor(c)
                 \/ \E r \in Requests : Cancel(c, r) \/ \E op \in Ops, id \in Ids : Send(c, r, op, id)
          PROVE  buffer' = buffer
      BY <3>3 DEF Disconnect, CloseCursor, Cancel, Send, workvars
    <3>4. ASSUME NEW r \in Requests, Deliver(r)
          PROVE  buffer' = buffer
      BY <3>4 DEF Deliver, workvars
    <3>5. CASE UNCHANGED vars
      BY <3>5 DEF vars
    <3> QED BY <3>1, <3>2, <3>3, <3>4, <3>5 DEF Next
  <2> QED BY <2>1, <2>2
<1> QED BY <1>1, <1>2, <1>3, PTL DEF Spec, CommittedOnce

----------------------------------------------------------------------------
(***************************************************************************)
(* Order.  The queue is in the order of sending and behind every request   *)
(* that a worker has taken.                                                *)
(***************************************************************************)
RankInv ==
    /\ \A i, j \in DOMAIN queue : i < j => queue[i] < queue[j]
    /\ \A w \in Workers : work[w].at # "idle" => \A i \in DOMAIN queue : work[w].req < queue[i]

LEMMA RankStep ==
    ASSUME ServerInv, RankInv, [Next]_vars
    PROVE  RankInv'
<1>0. /\ queue \in Seq(Requests)
      /\ work \in [Workers -> [at : {"idle", "taken", "loaded"} \cup Outcome, req : Requests \cup {None}]]
  BY DEF ServerInv, TypeOK
<1>1. ASSUME queue' = queue, \A w \in Workers : work'[w].at # "idle" => work[w].at # "idle" /\ work'[w].req = work[w].req
      PROVE  RankInv'
  BY <1>1 DEF RankInv
<1>2. ASSUME NEW c \in Conns, NEW r \in Requests, NEW op \in Ops, NEW id \in Ids, Send(c, r, op, id)
      PROVE  RankInv'
  <2>1. \A x \in Requests : req[x] # None => x < r
    BY <1>2, NumberAssumption DEF Send, ServerInv, SentInv
  <2>2. \A i \in DOMAIN queue : queue[i] < r
    BY <1>0, <2>1 DEF ServerInv, QueueInv, Away
  <2>3. \A w \in Workers : work[w].at # "idle" => work[w].req < r
    BY <2>1 DEF ServerInv, BusyInv, Away
  <2>4. work' = work /\ queue' = Append(queue, r)
    BY <1>2 DEF Send
  <2>5. \A i \in DOMAIN queue' :
          \/ i \in DOMAIN queue /\ queue'[i] = queue[i]
          \/ i = Len(queue) + 1 /\ queue'[i] = r
    BY <1>0, <2>4
  <2>6. \A i \in DOMAIN queue : i < Len(queue) + 1 /\ ~(Len(queue) + 1 < i)
    BY <1>0
  <2>7. \A i, j \in DOMAIN queue' : i < j => queue'[i] < queue'[j]
    BY <1>0, <2>2, <2>5, <2>6 DEF RankInv
  <2> QED BY <2>3, <2>4, <2>5, <2>7 DEF RankInv
<1>3. ASSUME NEW w \in Workers, Take(w)
      PROVE  RankInv'
  <2>1. \A i \in DOMAIN queue' : i \in Nat /\ i + 1 \in DOMAIN queue /\ 1 < i + 1 /\ queue'[i] = queue[i + 1]
    BY <1>0, <1>3 DEF Take
  <2>2. 1 \in DOMAIN queue /\ Head(queue) = queue[1]
    BY <1>0, <1>3 DEF Take
  <2>3. \A v \in Workers : work'[v] = work[v] \/ work'[v].req = Head(queue)
    BY <1>0, <1>3 DEF Take
  <2>4. \A i, j \in DOMAIN queue' : i < j => i + 1 < j + 1
    BY <2>1
  <2>5. \A i, j \in DOMAIN queue' : i < j => queue'[i] < queue'[j]
    BY <2>1, <2>4 DEF RankInv
  <2>6. \A i \in DOMAIN queue' : Head(queue) < queue'[i]
    BY <2>1, <2>2 DEF RankInv
  <2>7. \A v \in Workers : work'[v].at # "idle" => \A i \in DOMAIN queue' : work'[v].req < queue'[i]
    BY <2>1, <2>3, <2>6 DEF RankInv
  <2> QED BY <2>5, <2>7 DEF RankInv
<1>4. ASSUME NEW w \in Workers, Load(w) \/ Raise(w) \/ Execute(w) \/ Admin(w)
      PROVE  RankInv'
  <2>1. /\ queue' = queue /\ work[w].at # "idle"
        /\ \E a \in {"loaded"} \cup Outcome : work' = [work EXCEPT ![w].at = a]
    BY <1>4 DEF Load, Raise, Execute, Admin, Done, Outcome
  <2> QED BY <1>0, <1>1, <2>1
<1>5. ASSUME NEW w \in Workers, WriteBack(w) \/ PostAdmin(w)
      PROVE  RankInv'
  <2>1. queue' = queue /\ work' = [work EXCEPT ![w] = Idle]
    BY <1>5 DEF WriteBack, PostAdmin
  <2> QED BY <1>0, <1>1, <2>1 DEF Idle
<1>6. ASSUME NEW c \in Conns, Disconnect(c) \/ CloseCursor(c) \/ \E r \in Requests : Cancel(c, r)
      PROVE  RankInv'
  BY <1>1, <1>6 DEF Disconnect, CloseCursor, Cancel, workvars
<1>7. ASSUME NEW r \in Requests, Deliver(r)
      PROVE  RankInv'
  BY <1>1, <1>7 DEF Deliver, workvars
<1>8. CASE UNCHANGED vars
  BY <1>1, <1>8 DEF vars
<1> QED BY <1>2, <1>3, <1>4, <1>5, <1>6, <1>7, <1>8 DEF Next

\* Only a worker that runs a request makes it take effect.
LEMMA EffectOfRunning ==
    ASSUME [Next]_vars, NEW r \in effect' \ effect
    PROVE  \E w \in Workers : work[w].at \in {"taken", "loaded"} /\ work[w].req = r
<1>1. ASSUME effect' = effect PROVE FALSE
  BY <1>1
<1>2. ASSUME NEW w \in Workers, Execute(w) \/ Raise(w) \/ Admin(w)
      PROVE  work[w].at \in {"taken", "loaded"} /\ work[w].req = r
  BY <1>2 DEF Execute, Raise, Admin
<1>3. ASSUME NEW w \in Workers, Take(w) \/ Load(w) \/ WriteBack(w) \/ PostAdmin(w)
      PROVE  FALSE
  BY <1>1, <1>3 DEF Take, Load, WriteBack, PostAdmin
<1>4. ASSUME NEW c \in Conns,
             \/ Disconnect(c) \/ CloseCursor(c)
             \/ \E q \in Requests : Cancel(c, q) \/ \E op \in Ops, id \in Ids : Send(c, q, op, id)
      PROVE  FALSE
  BY <1>1, <1>4 DEF Disconnect, CloseCursor, Cancel, Send, workvars
<1>5. ASSUME NEW q \in Requests, Deliver(q)
      PROVE  FALSE
  BY <1>1, <1>5 DEF Deliver, workvars
<1>6. CASE UNCHANGED vars
  BY <1>1, <1>6 DEF vars
<1> QED BY <1>2, <1>3, <1>4, <1>5, <1>6 DEF Next

\* The requests of a connection take effect in the order they were sent: on one worker
\* however clients pipeline, and on a pool of any size when they wait for answers.
THEOREM ServerInOrder == OneWorker \/ ~Pipelined => (Spec => InOrder)
<1> SUFFICES ASSUME OneWorker \/ ~Pipelined PROVE Spec => InOrder
  OBVIOUS
<1> DEFINE Ordered ==
        \A r \in effect' \ effect, q \in Requests : q < r /\ Unrun(q) => req[q].conn # req[r].conn
           Inv == ServerInv /\ RankInv /\ (OneWorker \/ SingleInv)
<1>1. Init => Inv
  <2>1. Init => RankInv /\ SingleInv
    BY DEF Init, RankInv, SingleInv, Open, Idle
  <2> QED BY <2>1, ServerInit
<1>2. Inv /\ [Next]_vars => Inv'
  <2> SUFFICES ASSUME Inv, [Next]_vars PROVE Inv'
    OBVIOUS
  <2>1. ServerInv' /\ RankInv'
    BY ServerStep, RankStep
  <2>2. ASSUME ~OneWorker PROVE SingleInv'
    BY <2>2, SingleStep
  <2> QED BY <2>1, <2>2 DEF OneWorker
<1>3. Inv /\ [Next]_vars => [Ordered]_vars
  <2> SUFFICES ASSUME Inv, [Next]_vars, NEW r \in effect' \ effect, NEW q \in Requests,
                      q < r, Unrun(q), req[q].conn = req[r].conn
               PROVE  FALSE
    OBVIOUS
  <2>1. PICK w \in Workers : work[w].at \in {"taken", "loaded"} /\ work[w].req = r
    BY EffectOfRunning
  <2>2. r \in Nat /\ q \in Nat
    BY <2>1, NumberAssumption DEF ServerInv, BusyInv
  <2>3. ASSUME NEW i \in DOMAIN queue, queue[i] = q PROVE FALSE
    <3>1. r < q
      BY <2>1, <2>3 DEF RankInv
    <3> QED BY <2>2, <3>1
  <2>4. ASSUME NEW v \in Workers, work[v].req = q, work[v].at \in {"taken", "loaded"} PROVE FALSE
    <3>1. v # w
      BY <2>1, <2>2, <2>4
    <3>2. Alone
      BY SingleAlone
    <3> QED BY <2>1, <2>4, <3>1, <3>2 DEF Alone
  <2> QED BY <2>3, <2>4 DEF Unrun
<1> QED BY <1>1, <1>2, <1>3, PTL DEF Spec, InOrder
=============================================================================
