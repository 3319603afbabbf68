------------------------------ MODULE KVStore -------------------------------
(***************************************************************************)
(* What the storage engine promises its clients, with no MemTable, WAL or   *)
(* SSTable in sight (the StorageEngine interface of engine.py): a map from  *)
(* keys to values in which every put and delete takes effect at one moment  *)
(* between its call and its return; a batch does so as a whole, or is       *)
(* refused and has no effect; and a get returns a value that was current at *)
(* some moment between its own call and return.                             *)
(***************************************************************************)
CONSTANTS
  Keys, Values,
  Missing,   \* no value: a get of the key raises KeyError
  Writers,   \* clients that write
  Readers    \* clients that read

VARIABLES
  store,     \* the value of every key, or Missing
  pending,   \* per writer: the write it has called and that has no effect yet,
             \* and whether that may still fail
  reading    \* per reader: its get, the values current since its call, its result

vars == <<store, pending, reading>>

\* What a write makes of some keys.
Effects == UNION {[D -> Values \cup {Missing}] : D \in SUBSET Keys}

NoEffect == [k \in {} |-> Missing]

Writes == [effect : Effects, mayFail : BOOLEAN]

NoWrite == [effect |-> NoEffect, mayFail |-> FALSE]

Idle == [pc |-> "idle", key |-> Missing, seen |-> {}, result |-> Missing]

Call(t, write) ==
  /\ pending[t] = NoWrite
  /\ pending' = [pending EXCEPT ![t] = write]
  /\ UNCHANGED <<store, reading>>

TakeEffect(t) ==
  LET effect == pending[t].effect IN
  /\ store' = [k \in Keys |-> IF k \in DOMAIN effect THEN effect[k] ELSE store[k]]
  /\ pending' = [pending EXCEPT ![t] = NoWrite]
  /\ reading' = [r \in Readers |->
       IF reading[r].pc = "busy" /\ reading[r].key \in DOMAIN effect
       THEN [reading[r] EXCEPT !.seen = @ \cup {effect[reading[r].key]}]
       ELSE reading[r]]

\* The write can no longer fail: it is going to take effect.
Accept(t) ==
  /\ pending' = [pending EXCEPT ![t].mayFail = FALSE]
  /\ UNCHANGED <<store, reading>>

\* A call that may fail, such as a batch that is too large, ends without
\* effect; no other call does.
Refuse(t) ==
  /\ pending[t].mayFail
  /\ pending' = [pending EXCEPT ![t] = NoWrite]
  /\ UNCHANGED <<store, reading>>

Get(r, k) ==
  /\ reading[r].pc = "idle"
  /\ reading' = [reading EXCEPT ![r] =
                   [Idle EXCEPT !.pc = "busy", !.key = k, !.seen = {store[k]}]]
  /\ UNCHANGED <<store, pending>>

Return(r) ==
  /\ reading[r].pc = "busy"
  /\ \E v \in reading[r].seen :
       reading' = [reading EXCEPT ![r].pc = "done", ![r].result = v]
  /\ UNCHANGED <<store, pending>>

\* A get that returns at once.
GetNow(r, k) ==
  /\ reading[r].pc = "idle"
  /\ reading' = [reading EXCEPT ![r] = [Idle EXCEPT
                   !.pc = "done", !.key = k, !.seen = {store[k]}, !.result = store[k]]]
  /\ UNCHANGED <<store, pending>>

Init ==
  /\ store = [k \in Keys |-> Missing]
  /\ pending = [t \in Writers |-> NoWrite]
  /\ reading = [r \in Readers |-> Idle]

Next ==
  \/ \E t \in Writers :
       \/ \E write \in Writes : Call(t, write)
       \/ TakeEffect(t) \/ Accept(t) \/ Refuse(t)
  \/ \E r \in Readers : (\E k \in Keys : Get(r, k) \/ GetNow(r, k)) \/ Return(r)

Spec == Init /\ [][Next]_vars
=============================================================================
