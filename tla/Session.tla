------------------------------ MODULE Session ------------------------------
(***************************************************************************)
(* LogvineClient (client.py) and LogvineServer (server.py): asyncio tasks   *)
(* that share a client's one connection under its _io_lock, and a server    *)
(* that answers each connection's requests in turn. A step is what a task   *)
(* does up to an await that may suspend it.                                *)
(*                                                                         *)
(* Responses carry no identifier: a call takes the next line of the         *)
(* connection for its own. The model keeps with every line the call it      *)
(* answers, which no action of the client looks at.                        *)
(*                                                                         *)
(* A client may be disconnected and connected again, so its connections are *)
(* numbered; gen[c] is the one self.reader and self.writer belong to.       *)
(***************************************************************************)
EXTENDS Operations

CONSTANTS
  Clients,
  Tasks,        \* each makes one call
  ClientOf,     \* the client a task calls
  RequestsOf,   \* per task: the requests it may make
  MaxConnects,  \* bound: the connections each client opens
  MaxFaults     \* bound: calls cancelled or abandoned, disconnects, lines over
                \* the 64 KiB of readline's buffer, exceptions of the engine

ASSUME SessionAssumption ==
  /\ ClientOf \in [Tasks -> Clients]
  /\ \A t \in Tasks : RequestsOf[t] \subseteq Requests
  /\ MaxConnects \in [Clients -> Nat \ {0}]
  /\ MaxFaults \in Nat

VARIABLES
  task,      \* per task: its step, its request, the connection it reads, the
             \* rows it has got; and for the properties whether its connection
             \* was clean before its end, and the versions during its call
  lock,      \* per client: the holder of _io_lock and then those who wait
  linked,    \* per client: self.writer is not None
  gen,       \* per client: the number of its latest connection
  conn,      \* per connection: what it carries and what is left to answer
  versions,  \* the stores so far: the last is the current one
  faults     \* faults so far

vars == <<task, lock, linked, gen, conn, versions, faults>>

Store == Last(versions)

Fault == faults < MaxFaults /\ faults' = faults + 1

Conns == UNION {{c} \X (1..MaxConnects[c]) : c \in Clients}

NoCall == [pc |-> "idle", req |-> [op |-> "none"], on |-> 0, rows |-> <<>>,
           clean |-> TRUE, since |-> 1, until |-> 1]

\* client, server: whether that side has the connection open; cut: history,
\* a call on it has ended before it took all the lines that answer it.
NewConn == [client |-> TRUE, server |-> TRUE, requests |-> <<>>, todo |-> <<>>,
            lines |-> <<>>, cut |-> FALSE]

Busy == {"waiting", "reading", "yielding"}

Ended == {"returned", "raised", "cancelled"}

TaskAt(t, pc) == task[t].pc = pc

Current(c) == <<c, gen[c]>>

ConnOf(t) == <<ClientOf[t], task[t].on>>

\* Lines that answer t are on connection n, or will be.
Owed(n, t) ==
  \/ t \in ToSet(n.requests)
  \/ \E l \in ToSet(n.todo \o n.lines) : l.of = t

\* Mutant: a cancelled task keeps the lock.
EndsKeepingLock(t, pc, rows, n) ==
  /\ task' = [task EXCEPT ![t] = [@ EXCEPT !.pc = pc, !.on = 0, !.rows = rows,
                                          !.clean = ~n.cut, !.until = Len(versions)]]
  /\ lock' = IF pc = "cancelled" THEN lock ELSE [lock EXCEPT ![ClientOf[t]] = RemoveFirst(@, t)]
  /\ conn' = [conn EXCEPT ![ConnOf(t)] = [n EXCEPT !.cut = n.client /\ (@ \/ Owed(n, t))]]

\* t's call ends at step pc with these rows, its connection is n then, and the
\* lock goes to the next in the queue.
Ends(t, pc, rows, n) ==
  /\ task' = [task EXCEPT ![t] = [@ EXCEPT !.pc = pc, !.on = 0, !.rows = rows,
                                          !.clean = ~n.cut, !.until = Len(versions)]]
  /\ lock' = [lock EXCEPT ![ClientOf[t]] = RemoveFirst(@, t)]
  /\ conn' = [conn EXCEPT ![ConnOf(t)] = [n EXCEPT !.cut = n.client /\ (@ \/ Owed(n, t))]]

Raises(t, n) == Ends(t, "raised", <<>>, n)

-----------------------------------------------------------------------------
(* The client *)

\* connect, by a client that has disconnected.
Connect(c) ==
  /\ ~linked[c]
  /\ gen[c] < MaxConnects[c]
  /\ gen' = [gen EXCEPT ![c] = @ + 1]
  /\ linked' = [linked EXCEPT ![c] = TRUE]
  /\ UNCHANGED <<task, lock, conn, versions, faults>>

\* disconnect does not take _io_lock. What has arrived and was not read is gone.
Disconnect(c) ==
  /\ linked[c]
  /\ Fault
  /\ linked' = [linked EXCEPT ![c] = FALSE]
  /\ conn' = [conn EXCEPT ![Current(c)].client = FALSE, ![Current(c)].lines = <<>>,
                          ![Current(c)].todo = <<>>, ![Current(c)].cut = FALSE]
  /\ UNCHANGED <<task, lock, gen, versions>>

\* The request is written to the current connection, and its task reads.
Sends(t, call) ==
  /\ task' = [task EXCEPT ![t] = [call EXCEPT !.pc = "reading", !.on = gen[ClientOf[t]]]]
  /\ conn' = [conn EXCEPT ![Current(ClientOf[t])].requests = Append(@, t)]

\* The call of task t, up to its first await.
Begun(t, r) == [NoCall EXCEPT !.req = r, !.on = gen[ClientOf[t]],
                              !.since = Len(versions), !.until = Len(versions)]

CallRaises(t, r) ==
  /\ TaskAt(t, "idle") /\ ~linked[ClientOf[t]]
  /\ task' = [task EXCEPT ![t] = [Begun(t, r) EXCEPT !.pc = "raised"]]
  /\ UNCHANGED <<lock, linked, gen, conn, versions, faults>>

\* Mutant: the lock is not waited for.
CallSendsAtOnce(t, r) ==
  /\ TaskAt(t, "idle") /\ linked[ClientOf[t]]
  /\ lock' = [lock EXCEPT ![ClientOf[t]] = Append(@, t)]
  /\ Sends(t, Begun(t, r))
  /\ UNCHANGED <<linked, gen, versions, faults>>

CallSends(t, r) ==
  /\ TaskAt(t, "idle") /\ linked[ClientOf[t]]
  /\ lock[ClientOf[t]] = <<>>
  /\ lock' = [lock EXCEPT ![ClientOf[t]] = <<t>>]
  /\ Sends(t, Begun(t, r))
  /\ UNCHANGED <<linked, gen, versions, faults>>

\* asyncio.Lock serves those who wait in their order.
CallWaits(t, r) ==
  /\ TaskAt(t, "idle") /\ linked[ClientOf[t]]
  /\ lock[ClientOf[t]] # <<>>
  /\ lock' = [lock EXCEPT ![ClientOf[t]] = Append(@, t)]
  /\ task' = [task EXCEPT ![t] = [Begun(t, r) EXCEPT !.pc = "waiting"]]
  /\ UNCHANGED <<linked, gen, conn, versions, faults>>

\* The task gets the lock. It does not look again whether there is a
\* connection, and raises AttributeError when there is none.
GetsLock(t) ==
  /\ TaskAt(t, "waiting") /\ Head(lock[ClientOf[t]]) = t
  /\ IF linked[ClientOf[t]]
     THEN Sends(t, task[t]) /\ UNCHANGED lock
     ELSE Raises(t, conn[ConnOf(t)])
  /\ UNCHANGED <<linked, gen, versions, faults>>

\* Mutant: a stream that is terminated counts as done.
ReturnsTerminated(op, kind) ==
  IF op = "read_key_range" THEN kind \in {"done", "terminated"}
  ELSE kind \in {"success", "chunk", "done"} \/ (op = "get" /\ kind = "key_error")

\* What the client makes of a line: a get that raises "Key not found" has its
\* answer and counts as returned; a range passes over a line without items.
Returns(op, kind) ==
  IF op = "read_key_range" THEN kind = "done"
  ELSE kind \in {"success", "chunk", "done"} \/ (op = "get" /\ kind = "key_error")

PassesOver(op, kind) == op = "read_key_range" /\ kind \in {"success", "key_error"}

Yields(op, kind) == op = "read_key_range" /\ kind = "chunk"

\* _read_json_line of the connection the client has now.
ReadsOn(t, n) ==
  IF linked[ClientOf[t]]
  THEN /\ task' = [task EXCEPT ![t] = [@ EXCEPT !.pc = "reading", !.on = gen[ClientOf[t]]]]
       /\ conn' = [conn EXCEPT ![ConnOf(t)] = n]
       /\ UNCHANGED lock
  ELSE Raises(t, n)

\* A line has arrived.
Receive(t) ==
  /\ TaskAt(t, "reading") /\ conn[ConnOf(t)].lines # <<>>
  /\ LET line == Head(conn[ConnOf(t)].lines)
         op   == task[t].req.op
         rest == [conn[ConnOf(t)] EXCEPT !.lines = Tail(@)]
         rows == task[t].rows \o line.rows
     IN CASE Returns(op, line.kind) -> Ends(t, "returned", rows, rest)
          [] Yields(op, line.kind) ->
               /\ task' = [task EXCEPT ![t].pc = "yielding", ![t].rows = rows]
               /\ conn' = [conn EXCEPT ![ConnOf(t)] = rest]
               /\ UNCHANGED lock
          [] PassesOver(op, line.kind) -> ReadsOn(t, rest)
          [] OTHER -> Raises(t, rest)
  /\ UNCHANGED <<linked, gen, versions, faults>>

\* readline raises ValueError for a line over its limit, and drops either the
\* line or what it has of it, which leaves the rest to be read as a line.
ReceiveTooLong(t) ==
  /\ Fault
  /\ TaskAt(t, "reading") /\ conn[ConnOf(t)].lines # <<>>
  /\ Head(conn[ConnOf(t)].lines).rows # <<>>
  /\ \E rest \in {<<>>, <<[Head(conn[ConnOf(t)].lines) EXCEPT !.kind = "garbage", !.rows = <<>>]>>} :
       Raises(t, [conn[ConnOf(t)] EXCEPT !.lines = rest \o Tail(@)])
  /\ UNCHANGED <<linked, gen, versions>>

\* The consumer of a range asks for more.
Pull(t) ==
  /\ TaskAt(t, "yielding")
  /\ ReadsOn(t, conn[ConnOf(t)])
  /\ UNCHANGED <<linked, gen, versions, faults>>

\* readline returns b"" on a connection that either side has closed.
EndOfFile(t) ==
  /\ TaskAt(t, "reading") /\ conn[ConnOf(t)].lines = <<>>
  /\ ~conn[ConnOf(t)].client \/ ~conn[ConnOf(t)].server
  /\ Raises(t, conn[ConnOf(t)])
  /\ UNCHANGED <<linked, gen, versions, faults>>

\* The task is cancelled, or leaves the loop over a range: `async with` gives
\* the lock back.
Cancel(t) ==
  /\ Fault
  /\ task[t].pc \in Busy
  /\ Ends(t, "cancelled", <<>>, conn[ConnOf(t)])
  /\ UNCHANGED <<linked, gen, versions>>

-----------------------------------------------------------------------------
(* The server: handle_client, one task per connection *)

\* What the server does with the next request: it changes the store, and writes
\* the first line of the answer.
Answers(cn, outcome) ==
  LET t     == Head(conn[cn].requests)
      lines == [i \in DOMAIN outcome.answers |->
                  [of |-> t, kind |-> outcome.answers[i].kind, rows |-> outcome.answers[i].rows]]
  IN /\ versions' = IF outcome.store = Store THEN versions ELSE Append(versions, outcome.store)
     /\ conn' = IF conn[cn].client
                THEN [conn EXCEPT ![cn].requests = Tail(@),
                                  ![cn].lines = Append(@, Head(lines)),
                                  ![cn].todo = Tail(lines)]
                ELSE [conn EXCEPT ![cn].requests = Tail(@)]

CanServe(cn) == conn[cn].server /\ conn[cn].todo = <<>> /\ conn[cn].requests # <<>>

Request(cn) == task[Head(conn[cn].requests)].req

Serve(cn) ==
  /\ CanServe(cn)
  /\ Answers(cn, Served(Store, Request(cn)))
  /\ UNCHANGED <<task, lock, linked, gen, faults>>

ServeFails(cn) ==
  /\ CanServe(cn)
  /\ Fault
  /\ \E outcome \in Failed(Store, Request(cn)) : Answers(cn, outcome)
  /\ UNCHANGED <<task, lock, linked, gen>>

\* _stream_response writes the next line once drain has returned.
Stream(cn) ==
  /\ conn[cn].server /\ conn[cn].todo # <<>>
  /\ conn' = [conn EXCEPT ![cn].lines = Append(@, Head(conn[cn].todo)),
                          ![cn].todo = Tail(@)]
  /\ UNCHANGED <<task, lock, linked, gen, versions, faults>>

\* The connection is closed, and the requests left on it are never read.
Closes(cn) == conn' = [conn EXCEPT ![cn].server = FALSE]

\* A request is too long for readline.
Reject(cn) ==
  /\ CanServe(cn)
  /\ Fault
  /\ Closes(cn)
  /\ UNCHANGED <<task, lock, linked, gen, versions>>

\* The client is gone: the server may find out before it has read everything.
HangUp(cn) ==
  /\ conn[cn].server /\ ~conn[cn].client
  /\ Closes(cn)
  /\ UNCHANGED <<task, lock, linked, gen, versions, faults>>

-----------------------------------------------------------------------------

\* Clients as __aenter__ leaves them, connected, and an empty store.
Init ==
  /\ task = [t \in Tasks |-> NoCall]
  /\ lock = [c \in Clients |-> <<>>]
  /\ linked = [c \in Clients |-> TRUE]
  /\ gen = [c \in Clients |-> 1]
  /\ conn = [cn \in Conns |-> NewConn]
  /\ versions = <<[k \in StoreKeys |-> None]>>
  /\ faults = 0

Calls(t) == \E r \in RequestsOf[t] : CallRaises(t, r) \/ CallSends(t, r) \/ CallWaits(t, r)

ClientStep(t) ==
  GetsLock(t) \/ Receive(t) \/ ReceiveTooLong(t) \/ Pull(t) \/ EndOfFile(t)

ServerStep(cn) ==
  Serve(cn) \/ ServeFails(cn) \/ Stream(cn) \/ Reject(cn) \/ HangUp(cn)

Next ==
  \/ \E c \in Clients : Connect(c) \/ Disconnect(c)
  \/ \E t \in Tasks : Calls(t) \/ ClientStep(t) \/ Cancel(t)
  \/ \E cn \in Conns : ServerStep(cn)

Spec == Init /\ [][Next]_vars

\* The event loops run whatever can run; a consumer of a range goes on.
FairSpec ==
  /\ Spec
  /\ \A t \in Tasks : WF_vars(ClientStep(t))
  /\ \A cn \in Conns : WF_vars(ServerStep(cn))

-----------------------------------------------------------------------------
(* Properties *)

Lines == [of : Tasks, kind : Kinds \cup {"garbage"}, rows : Seq(StoreKeys \X Values)]

\* Type invariant: every part of the state is of its type, and the requests
\* and the queue of a lock are those of calls under way.
TypeOK ==
  /\ task \in [Tasks ->
       [pc : {"idle"} \cup Busy \cup Ended,
        req : {NoCall.req} \cup UNION {RequestsOf[t] : t \in Tasks},
        on : Nat, rows : Seq(StoreKeys \X Values), clean : BOOLEAN,
        since : Nat, until : Nat]]
  /\ lock \in [Clients -> Seq(Tasks)]
  /\ \A c \in Clients : \A t \in ToSet(lock[c]) : ClientOf[t] = c /\ task[t].pc \in Busy
  /\ linked \in [Clients -> BOOLEAN]
  /\ \A c \in Clients : gen[c] \in 0..MaxConnects[c]
  /\ conn \in [Conns ->
       [client : BOOLEAN, server : BOOLEAN, requests : Seq(Tasks), todo : Seq(Lines),
        lines : Seq(Lines), cut : BOOLEAN]]
  /\ versions \in Seq(Stores)
  /\ faults \in 0..MaxFaults

\* What a request writes.
Effect(r) ==
  CASE r.op = "put"       -> [k \in {r.key} |-> r.value]
    [] r.op = "delete"    -> [k \in {r.key} |-> None]
    [] r.op = "batch_put" ->
         [k \in {r.pairs[i].key : i \in DOMAIN r.pairs} |->
            r.pairs[Max({i \in DOMAIN r.pairs : r.pairs[i].key = k})].value]
    [] OTHER              -> [k \in {} |-> None]

\* The versions current during t's call.
During(t) ==
  {versions[i] : i \in task[t].since ..
     (IF TaskAt(t, "returned") /\ task[t].clean THEN task[t].until ELSE Len(versions))}

\* A put, delete or batch_put that returns "success" has taken effect since
\* it was called: the client's only confirmation is the line it takes. (Calls
\* after one that was cut short on the same connection excepted.)
AcknowledgedWritesTookEffect ==
  \A t \in Tasks : TaskAt(t, "returned") /\ task[t].clean =>
    \E s \in During(t) : \A k \in DOMAIN Effect(task[t].req) : s[k] = Effect(task[t].req)[k]

\* read_key_range, when it ends normally, has yielded the rows of the range as
\* they were at one moment of the call, all of them and in order, although they
\* are streamed in chunks while others write.
RangesAreSnapshots ==
  \A t \in Tasks :
    TaskAt(t, "returned") /\ task[t].clean /\ task[t].req.op = "read_key_range" =>
      \E s \in During(t) : task[t].rows = RowsOf(s, task[t].req.from, task[t].req.to)

\* "Stream key-value pairs in range." (client.py), for every call.
RangesComplete ==
  \A t \in Tasks :
    TaskAt(t, "returned") /\ task[t].req.op = "read_key_range" =>
      \E s \in During(t) : task[t].rows = RowsOf(s, task[t].req.from, task[t].req.to)

\* A range that reads a connection over which it has not asked for anything:
\* the client was connected anew between two chunks.
Stray(t) ==
  TaskAt(t, "reading") /\ conn[ConnOf(t)].client /\ conn[ConnOf(t)].server
    /\ ~Owed(conn[ConnOf(t)], t)

\* Every call returns or raises, whatever is cancelled, refused, too long or
\* disconnected before it, unless a stray range keeps the lock.
EveryCallEnds ==
  \A t \in Tasks :
    task[t].pc \in Busy ~>
      task[t].pc \in Ended \/ \E u \in Tasks : ClientOf[u] = ClientOf[t] /\ Stray(u)

\* The write t has called and that has no effect yet; whatever fails on its way
\* to the engine, it never has one.
Pending(t) ==
  LET effect == IF TaskAt(t, "waiting") \/ \E cn \in Conns : t \in ToSet(conn[cn].requests)
                THEN Effect(task[t].req) ELSE Effect([op |-> "none"])
  IN [effect |-> effect, mayFail |-> DOMAIN effect # {}]

Reading(t) ==
  IF task[t].req.op # "get"
  THEN [pc |-> "idle", key |-> None, seen |-> {}, result |-> None]
  ELSE LET done == TaskAt(t, "returned") /\ task[t].clean IN
       [pc     |-> IF done THEN "done" ELSE "busy",
        key    |-> task[t].req.key,
        seen   |-> {s[task[t].req.key] : s \in During(t)},
        result |-> IF done /\ task[t].rows # <<>> THEN task[t].rows[1][2] ELSE None]

KV == INSTANCE KVStore WITH
  Keys <- StoreKeys, Missing <- None, Writers <- Tasks, Readers <- Tasks,
  store   <- Store,
  pending <- [t \in Tasks |-> Pending(t)],
  reading <- [t \in Tasks |-> Reading(t)]

\* Through the network the store is still the one KVStore describes: a write
\* takes effect once, between its call and its return, or never, and a get
\* returns what was current during it.
ImplementsKVStore == KV!Spec
=============================================================================
