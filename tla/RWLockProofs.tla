---------------------------- MODULE RWLockProofs ----------------------------
(* Mutual exclusion of the MemTable's reader-writer lock, for any finite    *)
(* number of threads.                                                       *)
EXTENDS RWLock, FiniteSetTheorems, TLAPS

\* The threads _read_count counts.
Counted == {t \in Threads : pc[t] \in {"lockOutWriters", "entering", "reading"}}

\* The threads on whose behalf the readers hold _write_lock.
Shielded == {"entering", "reading", "lastOut"}

\* The inductive invariant: who holds _read_lock is where its holder stands,
\* _read_count counts the threads that entered and did not leave, the count
\* is exact for the first reader in and the last one out, and _write_lock is
\* held by the writer or for the readers.
IInv ==
  /\ TypeOK
  /\ \A t \in Threads :
       readLock = t <=> pc[t] \in {"lockOutWriters", "entering", "lastOut", "leaving"}
  /\ readCount = Cardinality(Counted)
  /\ \A t \in Threads :
       /\ pc[t] = "lockOutWriters" => readCount = 1
       /\ pc[t] = "lastOut" => readCount = 0
       /\ pc[t] \in Shielded => writeLock = Readers
       /\ pc[t] = "writing" <=> writeLock = t

-----------------------------------------------------------------------------

\* The count is a finite cardinality, so it is zero exactly when no thread is
\* counted and one exactly when a single thread is.
LEMMA CountedFinite ==
  ASSUME TypeOK
  PROVE  /\ IsFiniteSet(Counted)
         /\ Cardinality(Counted) \in Nat
         /\ Cardinality(Counted) = 0 <=> Counted = {}
<1>1. Counted \subseteq Threads
  BY DEF Counted
<1>2. IsFiniteSet(Counted)
  BY <1>1, ThreadsAssumption, FS_Subset
<1> QED
  BY <1>2, FS_CardinalityType, FS_EmptySet

\* A thread that starts to be counted raises the cardinality by one.
LEMMA CountedGrows ==
  ASSUME TypeOK, NEW t \in Threads, t \notin Counted, Counted' = Counted \cup {t}
  PROVE  Cardinality(Counted') = Cardinality(Counted) + 1
BY CountedFinite, FS_AddElement

\* A thread that stops being counted lowers it by one.
LEMMA CountedShrinks ==
  ASSUME TypeOK, NEW t \in Threads, t \in Counted, Counted' = Counted \ {t}
  PROVE  Cardinality(Counted') = Cardinality(Counted) - 1
BY CountedFinite, FS_RemoveElement

-----------------------------------------------------------------------------

\* The lock starts free, with nobody counted.
LEMMA InitIInv == Init => IInv
<1> SUFFICES ASSUME Init PROVE IInv
  OBVIOUS
<1>1. TypeOK
  BY DEF Init, TypeOK, PCs
<1>2. Counted = {}
  BY DEF Init, Counted
<1>3. Cardinality(Counted) = 0
  BY <1>2, FS_EmptySet
<1> QED
  BY <1>1, <1>3, ThreadsAssumption DEF Init, IInv, Shielded

\* Every step of every thread keeps the inductive invariant.
LEMMA NextIInv == IInv /\ [Next]_vars => IInv'
<1> SUFFICES ASSUME IInv, [Next]_vars PROVE IInv'
  OBVIOUS
<1> USE ThreadsAssumption DEF Goto
<1>0. TypeOK /\ readCount = Cardinality(Counted)
  BY DEF IInv
<1>1. ASSUME NEW t \in Threads, CallRead(t) \/ CallWrite(t)
      PROVE  IInv'
  <2>1. TypeOK'
    BY <1>1, <1>0 DEF CallRead, CallWrite, TypeOK, PCs, Waiting
  <2>2. Counted' = Counted
    BY <1>1, <1>0 DEF CallRead, CallWrite, Counted, TypeOK
  <2> QED
    BY <1>1, <2>1, <2>2, <1>0 DEF CallRead, CallWrite, IInv, Shielded, TypeOK
<1>2. ASSUME NEW t \in Threads, BeginAcquireRead(t)
      PROVE  IInv'
  <2>1. TypeOK'
    BY <1>2, <1>0 DEF BeginAcquireRead, TypeOK, PCs, Waiting
  <2>2. Counted' = Counted \cup {t} /\ t \notin Counted
    BY <1>2, <1>0 DEF BeginAcquireRead, Counted, TypeOK
  <2>3. readCount' = Cardinality(Counted')
    BY <1>2, <1>0, <2>2, CountedGrows DEF BeginAcquireRead
  <2>4. ASSUME readCount # 0 PROVE writeLock = Readers
    <3>1. PICK u \in Threads : u \in Counted
      BY <2>4, <1>0, CountedFinite DEF Counted
    <3>2. pc[u] = "reading"
      BY <3>1, <1>2 DEF Counted, BeginAcquireRead, IInv
    <3> QED
      BY <3>2 DEF IInv, Shielded
  <2> QED
    BY <1>2, <2>1, <2>3, <2>4, <1>0 DEF BeginAcquireRead, IInv, Shielded, TypeOK
<1>3. ASSUME NEW t \in Threads, LockOutWriters(t)
      PROVE  IInv'
  <2>1. TypeOK'
    BY <1>3, <1>0 DEF LockOutWriters, TypeOK, PCs
  <2>2. Counted' = Counted
    BY <1>3, <1>0 DEF LockOutWriters, Counted, TypeOK
  <2> QED
    BY <1>3, <2>1, <2>2, <1>0 DEF LockOutWriters, IInv, Shielded, TypeOK
<1>4. ASSUME NEW t \in Threads, EndAcquireRead(t)
      PROVE  IInv'
  <2>1. TypeOK'
    BY <1>4, <1>0 DEF EndAcquireRead, TypeOK, PCs, Inside
  <2>2. Counted' = Counted
    BY <1>4, <1>0 DEF EndAcquireRead, Counted, TypeOK
  <2> QED
    BY <1>4, <2>1, <2>2, <1>0 DEF EndAcquireRead, IInv, Shielded, TypeOK
<1>5. ASSUME NEW t \in Threads, BeginReleaseRead(t)
      PROVE  IInv'
  <2>1. Counted' = Counted \ {t} /\ t \in Counted
    BY <1>5, <1>0 DEF BeginReleaseRead, Counted, TypeOK
  <2>2. readCount' = Cardinality(Counted') /\ readCount' \in Nat
    BY <1>5, <1>0, <2>1, CountedShrinks, CountedFinite DEF BeginReleaseRead
  <2>3. TypeOK'
    BY <1>5, <1>0, <2>2 DEF BeginReleaseRead, TypeOK, PCs
  <2> QED
    BY <1>5, <2>2, <2>3, <1>0 DEF BeginReleaseRead, IInv, Shielded, TypeOK
<1>6. ASSUME NEW t \in Threads, AdmitWriters(t)
      PROVE  IInv'
  <2>1. TypeOK'
    BY <1>6, <1>0 DEF AdmitWriters, TypeOK, PCs
  <2>2. Counted' = Counted
    BY <1>6, <1>0 DEF AdmitWriters, Counted, TypeOK
  <2>3. Counted = {}
    BY <1>6, <1>0, CountedFinite DEF AdmitWriters, IInv
  <2>4. \A u \in Threads : pc'[u] \notin Shielded
    BY <1>6, <2>3, <1>0 DEF AdmitWriters, Counted, Shielded, IInv, TypeOK
  <2>5. \A u \in Threads : pc'[u] = "writing" <=> pc[u] = "writing"
    BY <1>6, <1>0 DEF AdmitWriters, TypeOK
  <2> QED
    BY <1>6, <2>1, <2>2, <2>4, <2>5, <1>0 DEF AdmitWriters, IInv, Shielded, TypeOK
<1>7. ASSUME NEW t \in Threads, EndReleaseRead(t)
      PROVE  IInv'
  <2>1. TypeOK'
    BY <1>7, <1>0 DEF EndReleaseRead, TypeOK, PCs
  <2>2. Counted' = Counted
    BY <1>7, <1>0 DEF EndReleaseRead, Counted, TypeOK
  <2> QED
    BY <1>7, <2>1, <2>2, <1>0 DEF EndReleaseRead, IInv, Shielded, TypeOK
<1>8. ASSUME NEW t \in Threads, AcquireWrite(t)
      PROVE  IInv'
  <2>1. TypeOK'
    BY <1>8, <1>0 DEF AcquireWrite, TypeOK, PCs, Inside
  <2>2. Counted' = Counted
    BY <1>8, <1>0 DEF AcquireWrite, Counted, TypeOK
  <2> QED
    BY <1>8, <2>1, <2>2, <1>0 DEF AcquireWrite, IInv, Shielded, TypeOK
<1>9. ASSUME NEW t \in Threads, ReleaseWrite(t)
      PROVE  IInv'
  <2>1. TypeOK'
    BY <1>9, <1>0 DEF ReleaseWrite, TypeOK, PCs
  <2>2. Counted' = Counted
    BY <1>9, <1>0 DEF ReleaseWrite, Counted, TypeOK
  <2> QED
    BY <1>9, <2>1, <2>2, <1>0 DEF ReleaseWrite, IInv, Shielded, TypeOK
<1>10. CASE UNCHANGED vars
  <2>1. TypeOK' /\ Counted' = Counted
    BY <1>10, <1>0 DEF vars, TypeOK, Counted
  <2> QED
    BY <1>10, <2>1, <1>0 DEF vars, IInv, Shielded
<1> QED
  BY <1>1, <1>2, <1>3, <1>4, <1>5, <1>6, <1>7, <1>8, <1>9, <1>10
  DEF Next, Progress

\* Types of the lock's state, for every set of threads.
THEOREM TypeCorrect == Spec => []TypeOK
<1>1. IInv => TypeOK
  BY DEF IInv
<1> QED
  BY InitIInv, NextIInv, <1>1, PTL DEF Spec

\* _write_lock keeps a writer alone: no reader and no other writer is inside
\* the MemTable with it, for every set of threads.
THEOREM MutualExclusionHolds == Spec => []MutualExclusion
<1>1. IInv => MutualExclusion
  BY ThreadsAssumption DEF IInv, MutualExclusion, Shielded, Inside
<1> QED
  BY InitIInv, NextIInv, <1>1, PTL DEF Spec

\* A writer's lock is released by its own step only, whatever the readers do.
THEOREM WriteLockNotStolen == Spec => NoStolenWriteLock
<1>1. IInv /\ [Next]_vars =>
        [\A t \in Threads : writeLock = t => writeLock' = t \/ pc[t] # pc'[t]]_vars
  <2> SUFFICES ASSUME IInv, Next, NEW t \in Threads, writeLock = t, pc[t] = pc'[t]
               PROVE  writeLock' = t
    BY DEF vars
  <2>1. PICK u \in Threads : CallRead(u) \/ CallWrite(u) \/ Progress(u)
    BY DEF Next
  <2> QED
    BY <2>1, ThreadsAssumption
    DEF IInv, TypeOK, Shielded, Goto, CallRead, CallWrite, Progress, BeginAcquireRead,
        LockOutWriters, EndAcquireRead, BeginReleaseRead, AdmitWriters,
        EndReleaseRead, AcquireWrite, ReleaseWrite
<1> QED
  BY InitIInv, NextIInv, <1>1, PTL DEF Spec, NoStolenWriteLock
=============================================================================
