------------------------------- MODULE RWLock -------------------------------
(***************************************************************************)
(* The reader-writer lock of MemTable (memtable.py, _acquire_read,         *)
(* _release_read, _acquire_write, _release_write), built from two plain    *)
(* threading.Lock objects and a counter:                                   *)
(*                                                                         *)
(*   _read_lock   protects _read_count and is held while the first reader  *)
(*                waits for the writers to leave;                          *)
(*   _write_lock  is held by the one writer, or on behalf of all readers   *)
(*                from the first reader's entry to the last one's exit,    *)
(*                so the thread that releases it need not be the thread    *)
(*                that acquired it.                                        *)
(*                                                                         *)
(* _read_count is only touched under _read_lock, so acquiring that lock    *)
(* and updating the counter are one step here.                             *)
(***************************************************************************)
EXTENDS Naturals, FiniteSets

CONSTANTS
  Threads,   \* the threads that call the MemTable
  Nobody,    \* no thread holds the lock
  Readers    \* the readers as a group hold _write_lock

ASSUME ThreadsAssumption ==
  /\ IsFiniteSet(Threads)
  /\ Nobody \notin Threads
  /\ Readers \notin Threads
  /\ Nobody # Readers

VARIABLES
  readLock,    \* holder of _read_lock
  writeLock,   \* holder of _write_lock: a writer, the readers, or nobody
  readCount,   \* _read_count
  pc           \* where each thread is

vars == <<readLock, writeLock, readCount, pc>>

\* A thread that waits for a lock, and one that holds the MemTable.
Waiting == {"wantRead", "lockOutWriters", "wantWrite"}
Inside  == {"reading", "writing"}

PCs == {"idle", "entering", "lastOut", "leaving"} \cup Waiting \cup Inside

Goto(t, from, to) ==
  /\ pc[t] = from
  /\ pc' = [pc EXCEPT ![t] = to]

-----------------------------------------------------------------------------
(* The readers *)

CallRead(t) ==
  /\ Goto(t, "idle", "wantRead")
  /\ UNCHANGED <<readLock, writeLock, readCount>>

\* _read_lock.acquire(); _read_count += 1; the first reader goes on to lock
\* the writers out while it still holds _read_lock.
BeginAcquireRead(t) ==
  /\ readLock = Nobody
  /\ readLock' = t
  /\ readCount' = readCount + 1
  /\ Goto(t, "wantRead", IF readCount' = 1 THEN "lockOutWriters" ELSE "entering")
  /\ UNCHANGED writeLock

\* Mutant: the first reader does not wait for the lock.
LockOutWritersAtOnce(t) ==
  /\ writeLock' = Readers
  /\ Goto(t, "lockOutWriters", "entering")
  /\ UNCHANGED <<readLock, readCount>>

\* if _read_count == 1: _write_lock.acquire()
LockOutWriters(t) ==
  /\ writeLock = Nobody
  /\ writeLock' = Readers
  /\ Goto(t, "lockOutWriters", "entering")
  /\ UNCHANGED <<readLock, readCount>>

EndAcquireRead(t) ==
  /\ Goto(t, "entering", "reading")
  /\ readLock' = Nobody
  /\ UNCHANGED <<writeLock, readCount>>

\* Mutant: the last reader but one lets the writers in.
BeginReleaseReadEarly(t) ==
  /\ readLock = Nobody
  /\ readLock' = t
  /\ readCount' = readCount - 1
  /\ Goto(t, "reading", IF readCount' <= 1 THEN "lastOut" ELSE "leaving")
  /\ UNCHANGED writeLock

BeginReleaseRead(t) ==
  /\ readLock = Nobody
  /\ readLock' = t
  /\ readCount' = readCount - 1
  /\ Goto(t, "reading", IF readCount' = 0 THEN "lastOut" ELSE "leaving")
  /\ UNCHANGED writeLock

\* Mutant: the last reader keeps the writers out.
AdmitNobody(t) == Goto(t, "lastOut", "leaving") /\ UNCHANGED <<readLock, writeLock, readCount>>

\* if _read_count == 0: _write_lock.release()
AdmitWriters(t) ==
  /\ Goto(t, "lastOut", "leaving")
  /\ writeLock' = Nobody
  /\ UNCHANGED <<readLock, readCount>>

\* Mutant: a reader leaves twice.
EndReleaseReadTwice(t) ==
  /\ Goto(t, "leaving", "idle")
  /\ readLock' = Nobody
  /\ readCount' = readCount - 1
  /\ UNCHANGED writeLock

EndReleaseRead(t) ==
  /\ Goto(t, "leaving", "idle")
  /\ readLock' = Nobody
  /\ UNCHANGED <<writeLock, readCount>>

-----------------------------------------------------------------------------
(* The writers *)

CallWrite(t) ==
  /\ Goto(t, "idle", "wantWrite")
  /\ UNCHANGED <<readLock, writeLock, readCount>>

AcquireWrite(t) ==
  /\ writeLock = Nobody
  /\ writeLock' = t
  /\ Goto(t, "wantWrite", "writing")
  /\ UNCHANGED <<readLock, readCount>>

ReleaseWrite(t) ==
  /\ Goto(t, "writing", "idle")
  /\ writeLock' = Nobody
  /\ UNCHANGED <<readLock, readCount>>

-----------------------------------------------------------------------------

Init ==
  /\ readLock = Nobody
  /\ writeLock = Nobody
  /\ readCount = 0
  /\ pc = [t \in Threads |-> "idle"]

\* The steps a thread takes once it has called; it may never call again.
Progress(t) ==
  \/ BeginAcquireRead(t)
  \/ LockOutWriters(t)
  \/ EndAcquireRead(t)
  \/ BeginReleaseRead(t)
  \/ AdmitWriters(t)
  \/ EndReleaseRead(t)
  \/ AcquireWrite(t)
  \/ ReleaseWrite(t)

Next == \E t \in Threads : CallRead(t) \/ CallWrite(t) \/ Progress(t)

Spec == Init /\ [][Next]_vars

\* A running thread takes its next step unless a lock blocks it. Nothing is
\* assumed about who gets a contended lock: threading.Lock is not fair.
FairSpec == Spec /\ \A t \in Threads : WF_vars(Progress(t))

-----------------------------------------------------------------------------
(* Properties *)

\* Type invariant: every lock has at most one known holder and every thread is
\* at a point of memtable.py's lock methods.
TypeOK ==
  /\ readLock \in Threads \cup {Nobody}
  /\ writeLock \in Threads \cup {Nobody, Readers}
  /\ readCount \in Nat
  /\ pc \in [Threads -> PCs]

\* A writer is alone in the MemTable ("Writes are exclusive (blocks reads and
\* other writes)", MemTable's docstring): every critical section of the other
\* modules is one atomic step because of this.
MutualExclusion ==
  \A t, u \in Threads :
    pc[t] = "writing" /\ u # t => pc[u] \notin Inside

\* The last reader out never gives away a _write_lock that a writer holds,
\* although Python would let it release any thread's lock.
NoStolenWriteLock ==
  [][\A t \in Threads : writeLock = t => writeLock' = t \/ pc[t] # pc'[t]]_vars

\* No deadlock between the two locks: when threads wait, some thread gets in,
\* even if the lock is handed over in the worst order.
SomebodyGetsIn ==
  (\E t \in Threads : pc[t] \in Waiting) ~> (\E t \in Threads : pc[t] \in Inside)
=============================================================================
