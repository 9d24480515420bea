---------------------------- MODULE KeyLockProofs ----------------------------
(***************************************************************************)
(* Proofs about KeyLock, for any finite set of threads.                    *)
(*                                                                         *)
(* IInv is inductive.  The heart of it is CountersExact: the code tests    *)
(* counters, the properties speak of threads, and the two agree only as    *)
(* long as every path raises and lowers the counter it should.             *)
(***************************************************************************)
EXTENDS KeyLock, FiniteSetTheorems, TLAPS

(* A thread that moves from place s1 to place s2 of the lock protocol is
   counted at s2 and no longer at s1; no other place changes. *)
LEMMA MoveCounts ==
    ASSUME pc \in [Threads -> PCs], NEW t \in Threads,
           NEW s1 \in PCs, NEW s2 \in PCs, s1 # s2, pc[t] = s1,
           pc' = [pc EXCEPT ![t] = s2]
    PROVE  /\ Cardinality(In(s2))' = Cardinality(In(s2)) + 1
           /\ Cardinality(In(s1))' = Cardinality(In(s1)) - 1
           /\ \A s \in PCs \ {s1, s2} : In(s)' = In(s)
<1> DEFINE InP(s) == {u \in Threads : pc'[u] = s}
<1>1. \A s \in PCs : In(s) \subseteq Threads /\ IsFiniteSet(In(s))
  BY ThreadsAssumption, FS_Subset DEF In
<1>2. InP(s2) = In(s2) \cup {t}
  BY DEF In
<1>3. InP(s1) = In(s1) \ {t}
  BY DEF In
<1>4. \A s \in PCs \ {s1, s2} : InP(s) = In(s)
  BY DEF In
<1>5. t \notin In(s2) /\ t \in In(s1)
  BY DEF In
<1>6. Cardinality(InP(s2)) = Cardinality(In(s2)) + 1
  BY <1>1, <1>2, <1>5, FS_AddElement
<1>7. Cardinality(InP(s1)) = Cardinality(In(s1)) - 1
  BY <1>1, <1>3, <1>5, FS_RemoveElement
<1> QED
  BY <1>4, <1>6, <1>7 DEF In

(* A counter at zero says that no thread is at its place, and a positive one
   that some thread is. *)
LEMMA ZeroMeansEmpty ==
    ASSUME TypeOK, CountersExact
    PROVE  /\ (readers = 0) <=> (In("reading") = {})
           /\ (writers = 0) <=> (In("writing") = {})
           /\ (want_writers = 0) <=> (In("wantWrite") = {})
<1>1. \A s \in PCs : IsFiniteSet(In(s))
  BY ThreadsAssumption, FS_Subset DEF In
<1> QED
  BY <1>1, FS_EmptySet DEF CountersExact, PCs

(* Nobody holds the lock at first, and the counters are zero. *)
LEMMA InitIInv == Init => IInv
<1> SUFFICES ASSUME Init PROVE IInv
  OBVIOUS
<1>1. TypeOK
  BY DEF Init, TypeOK, PCs
<1>2. In("reading") = {} /\ In("writing") = {} /\ In("wantWrite") = {}
  BY DEF Init, In
<1>3. CountersExact
  BY <1>2, FS_EmptySet DEF Init, CountersExact
<1>4. WriterAlone /\ ReaderViewCurrent
  BY DEF Init, WriterAlone, ReaderViewCurrent
<1> QED
  BY <1>1, <1>3, <1>4 DEF IInv

(* A writer comes in: the counters it tested were zero, so it is alone. *)
LEMMA WriterEnters ==
    ASSUME IInv, NEW t \in Threads, pc[t] \in {"idle", "wantWrite"},
           writers = 0, readers = 0,
           pc' = [pc EXCEPT ![t] = "writing"],
           UNCHANGED <<buf, view>>
    PROVE  WriterAlone' /\ ReaderViewCurrent'
<1>1. In("reading") = {} /\ In("writing") = {}
  BY ZeroMeansEmpty DEF IInv
<1>2. {u \in Threads : pc'[u] = "writing"} = {t}
  BY <1>1 DEF In, IInv, TypeOK
<1>3. {u \in Threads : pc'[u] = "reading"} = {}
  BY <1>1 DEF In, IInv, TypeOK
<1> QED
  BY <1>2, <1>3 DEF WriterAlone, ReaderViewCurrent, In

(* LUNA_OQS_WRITEKEY_LOCK, let in at once or announced. *)
LEMMA WriteLockStep ==
    ASSUME IInv, NEW t \in Threads, WriteLock(t)
    PROVE  IInv'
<1> USE DEF IInv
<1>1. CASE writers > 0 \/ readers > 0
  <2>1. /\ pc[t] = "idle" /\ pc' = [pc EXCEPT ![t] = "wantWrite"]
        /\ want_writers' = want_writers + 1
        /\ UNCHANGED <<readers, writers, buf, view>>
    BY <1>1 DEF WriteLock
  <2>2. TypeOK'
    BY <2>1 DEF TypeOK, PCs
  <2>3. CountersExact'
    BY <2>1, MoveCounts DEF CountersExact, TypeOK, PCs
  <2>4. In("writing")' = In("writing") /\ In("reading")' = In("reading")
    BY <2>1, MoveCounts DEF TypeOK, PCs
  <2>5. WriterAlone' /\ ReaderViewCurrent'
    BY <2>1, <2>4 DEF WriterAlone, ReaderViewCurrent, TypeOK
  <2> QED BY <2>2, <2>3, <2>5
<1>2. CASE ~(writers > 0 \/ readers > 0)
  <2>1. /\ pc[t] = "idle" /\ pc' = [pc EXCEPT ![t] = "writing"]
        /\ writers' = writers + 1
        /\ writers = 0 /\ readers = 0
        /\ UNCHANGED <<readers, want_writers, buf, view>>
    BY <1>2 DEF WriteLock, TypeOK
  <2>2. TypeOK'
    BY <2>1 DEF TypeOK, PCs
  <2>3. CountersExact'
    BY <2>1, MoveCounts DEF CountersExact, TypeOK, PCs
  <2> QED BY <2>1, <2>2, <2>3, WriterEnters
<1> QED BY <1>1, <1>2

(* LUNA_OQS_WRITEKEY_LOCK, let in after a sleep. *)
LEMMA WriteRetryStep ==
    ASSUME IInv, NEW t \in Threads, WriteRetry(t)
    PROVE  IInv'
<1> USE DEF IInv
<1>1. /\ pc[t] = "wantWrite" /\ pc' = [pc EXCEPT ![t] = "writing"]
      /\ writers' = writers + 1 /\ want_writers' = want_writers - 1
      /\ writers = 0 /\ readers = 0
      /\ UNCHANGED <<readers, buf, view>>
  BY DEF WriteRetry, TypeOK
<1>2. want_writers # 0
  BY <1>1, ZeroMeansEmpty DEF In
<1>3. TypeOK'
  BY <1>1, <1>2 DEF TypeOK, PCs
<1>4. CountersExact'
  BY <1>1, MoveCounts DEF CountersExact, TypeOK, PCs
<1> QED BY <1>1, <1>3, <1>4, WriterEnters

(* LUNA_OQS_WRITEKEY_UNLOCK. *)
LEMMA WriteUnlockStep ==
    ASSUME IInv, NEW t \in Threads, WriteUnlock(t)
    PROVE  IInv'
<1> USE DEF IInv
<1>1. /\ pc[t] = "writing" /\ pc' = [pc EXCEPT ![t] = "idle"]
      /\ writers' = writers - 1
      /\ UNCHANGED <<readers, want_writers, buf, view>>
  BY DEF WriteUnlock
<1>2. writers # 0
  BY <1>1, ZeroMeansEmpty DEF In
<1>3. TypeOK'
  BY <1>1, <1>2 DEF TypeOK, PCs
<1>4. CountersExact'
  BY <1>1, MoveCounts DEF CountersExact, TypeOK, PCs
<1>5. \A u \in Threads : pc'[u] # "writing"
  BY <1>1 DEF WriterAlone, In, TypeOK
<1>6. WriterAlone' /\ ReaderViewCurrent'
  BY <1>1, <1>5 DEF WriterAlone, ReaderViewCurrent, TypeOK
<1> QED BY <1>3, <1>4, <1>6

(* The writer replaces the key buffer: no reader looks at the old one. *)
LEMMA WriteKeyStep ==
    ASSUME IInv, NEW t \in Threads, WriteKey(t)
    PROVE  IInv'
<1> USE DEF IInv
<1>1. pc[t] = "writing" /\ buf' \in Buffers
      /\ UNCHANGED <<pc, readers, writers, want_writers, view>>
  BY DEF WriteKey
<1>2. TypeOK' /\ CountersExact' /\ WriterAlone'
  BY <1>1 DEF TypeOK, CountersExact, WriterAlone, In
<1>3. \A u \in Threads : pc[u] # "reading"
  BY <1>1 DEF WriterAlone, In
<1>4. ReaderViewCurrent'
  BY <1>1, <1>3 DEF ReaderViewCurrent
<1> QED BY <1>2, <1>4

(* A reader is let in: the counters it tested exclude a writer. *)
LEMMA ReadEnterStep ==
    ASSUME IInv, NEW t \in Threads, pc[t] \in {"idle", "wantRead"}, ReadEnter(t)
    PROVE  IInv'
<1> USE DEF IInv
<1>1. /\ pc' = [pc EXCEPT ![t] = "reading"]
      /\ readers' = readers + 1 /\ writers = 0 /\ want_writers = 0
      /\ view' = [view EXCEPT ![t] = buf]
      /\ UNCHANGED <<writers, want_writers, buf>>
  BY DEF ReadEnter, ReadBlocked, TypeOK
<1>2. TypeOK'
  BY <1>1 DEF TypeOK, PCs
<1>3. CountersExact'
  <2>1. CASE pc[t] = "idle"
    BY <1>1, <2>1, MoveCounts DEF CountersExact, TypeOK, PCs
  <2>2. CASE pc[t] = "wantRead"
    BY <1>1, <2>2, MoveCounts DEF CountersExact, TypeOK, PCs
  <2> QED BY <2>1, <2>2
<1>4. \A u \in Threads : pc'[u] # "writing"
  BY <1>1, ZeroMeansEmpty DEF In, TypeOK
<1>5. WriterAlone' /\ ReaderViewCurrent'
  BY <1>1, <1>4 DEF WriterAlone, ReaderViewCurrent, TypeOK
<1> QED BY <1>2, <1>3, <1>5

(* LUNA_OQS_READKEY_NDX_LOCK, first pass. *)
LEMMA ReadLockStep ==
    ASSUME IInv, NEW t \in Threads, ReadLock(t)
    PROVE  IInv'
<1> USE DEF IInv
<1>1. CASE ReadEnter(t)
  BY <1>1, ReadEnterStep DEF ReadLock
<1>2. CASE ~ReadEnter(t)
  <2>1. /\ pc[t] = "idle" /\ pc' = [pc EXCEPT ![t] = "wantRead"]
        /\ UNCHANGED <<readers, writers, want_writers, buf, view>>
    BY <1>2 DEF ReadLock
  <2>2. TypeOK'
    BY <2>1 DEF TypeOK, PCs
  <2>3. CountersExact'
    BY <2>1, MoveCounts DEF CountersExact, TypeOK, PCs
  <2>4. In("writing")' = In("writing") /\ In("reading")' = In("reading")
    BY <2>1, MoveCounts DEF TypeOK, PCs
  <2>5. WriterAlone' /\ ReaderViewCurrent'
    BY <2>1, <2>4 DEF WriterAlone, ReaderViewCurrent, TypeOK
  <2> QED BY <2>2, <2>3, <2>5
<1> QED BY <1>1, <1>2

(* LUNA_OQS_READKEY_UNLOCK. *)
LEMMA ReadUnlockStep ==
    ASSUME IInv, NEW t \in Threads, ReadUnlock(t)
    PROVE  IInv'
<1> USE DEF IInv
<1>1. /\ pc[t] = "reading" /\ pc' = [pc EXCEPT ![t] = "idle"]
      /\ readers' = readers - 1
      /\ UNCHANGED <<writers, want_writers, buf, view>>
  BY DEF ReadUnlock
<1>2. readers # 0
  BY <1>1, ZeroMeansEmpty DEF In
<1>3. TypeOK'
  BY <1>1, <1>2 DEF TypeOK, PCs
<1>4. CountersExact'
  BY <1>1, MoveCounts DEF CountersExact, TypeOK, PCs
<1>5. \A u \in Threads : pc'[u] # "writing"
  BY <1>1 DEF WriterAlone, In, TypeOK
<1>6. WriterAlone' /\ ReaderViewCurrent'
  BY <1>1, <1>5 DEF WriterAlone, ReaderViewCurrent, TypeOK
<1> QED BY <1>3, <1>4, <1>6

(* Every step of the lock keeps the invariant. *)
LEMMA NextIInv == IInv /\ [Next]_vars => IInv'
<1> SUFFICES ASSUME IInv, [Next]_vars PROVE IInv'
  OBVIOUS
<1>1. CASE UNCHANGED vars
  BY <1>1 DEF vars, IInv, TypeOK, CountersExact, WriterAlone, ReaderViewCurrent, In
<1>2. CASE Next
  <2>1. PICK t \in Threads :
            \/ WriteLock(t) \/ WriteRetry(t) \/ WriteKey(t) \/ WriteUnlock(t)
            \/ ReadLock(t) \/ ReadRetry(t) \/ ReadUnlock(t)
    BY <1>2 DEF Next
  <2>2. CASE ReadRetry(t)
    BY <2>2, ReadEnterStep DEF ReadRetry
  <2> QED
    BY <2>1, <2>2, WriteLockStep, WriteRetryStep, WriteKeyStep, WriteUnlockStep,
       ReadLockStep, ReadUnlockStep
<1> QED BY <1>1, <1>2

(* The inductive invariant of the key lock holds in every reachable state:
   the counters of luna_prov_key_ctx are exact, a writer is alone, and no
   reader's keyinfo points into a replaced buffer. *)
THEOREM LockSafety == Spec => []IInv
BY InitIInv, NextIInv, PTL DEF Spec

(* The counters and places of the key lock keep their types; none of the
   three counters ever becomes negative. *)
THEOREM TypeCorrect == Spec => []TypeOK
<1>1. IInv => TypeOK
  BY DEF IInv
<1> QED BY LockSafety, <1>1, PTL

(* readers, writers and want_writers are exactly the threads that read, write and wait to
   write, whatever they do at the same time: the lock functions decide by the counters. *)
THEOREM CountersAreExact == Spec => []CountersExact
<1>1. IInv => CountersExact
  BY DEF IInv
<1> QED BY LockSafety, <1>1, PTL

(* The LUNA_ASSERTs of WRITEKEY_LOCK and READKEY_NDX_LOCK hold for any number
   of threads. *)
THEOREM WriterIsAlone == Spec => []WriterAlone
<1>1. IInv => WriterAlone
  BY DEF IInv
<1> QED BY LockSafety, <1>1, PTL

(* A reader never holds pointers into a key buffer that was replaced. *)
THEOREM ReadersSeeCurrentKey == Spec => []ReaderViewCurrent
<1>1. IInv => ReaderViewCurrent
  BY DEF IInv
<1> QED BY LockSafety, <1>1, PTL

(* A reader enters only when no writer has announced itself. *)
THEOREM ReadersYield == Spec => NoReaderOvertakes
<1>1. IInv /\ [Next]_vars =>
        [\A t \in Threads :
            pc[t] # "reading" /\ pc'[t] = "reading" => In("wantWrite") = {}]_vars
  <2> SUFFICES ASSUME IInv, Next, NEW t \in Threads,
                      pc[t] # "reading", pc'[t] = "reading"
               PROVE  In("wantWrite") = {}
    BY DEF vars
  <2>1. PICK u \in Threads : ReadLock(u) \/ ReadRetry(u)
    BY DEF Next, WriteLock, WriteRetry, WriteKey, WriteUnlock, ReadUnlock,
           IInv, TypeOK
  <2>2. ReadEnter(u)
    BY <2>1 DEF ReadLock, ReadRetry, IInv, TypeOK
  <2> QED
    BY <2>2, ZeroMeansEmpty DEF ReadEnter, ReadBlocked, IInv, TypeOK
<1> QED
  BY LockSafety, <1>1, PTL DEF Spec, NoReaderOvertakes

(* The lock with counters, announcements and polling implements the lock
   without them: entering is a step of RWLock, sleeping is a stutter. *)
THEOREM Refinement == Spec => ImplementsRWLock
<1> USE DEF Abstract!avars, Abstract!ANext
<1>1. Init => Abstract!AInit
  BY DEF Init, In, Abstract!AInit
<1>2. IInv /\ [Next]_vars => [Abstract!ANext]_(Abstract!avars)
  <2> SUFFICES ASSUME IInv, [Next]_vars
               PROVE  [Abstract!ANext]_(Abstract!avars)
    OBVIOUS
  <2>1. CASE UNCHANGED vars
    BY <2>1 DEF vars, In
  <2>2. ASSUME NEW t \in Threads, WriteLock(t) \/ WriteRetry(t)
        PROVE  [Abstract!ANext]_(Abstract!avars)
    <3>1. CASE pc' = [pc EXCEPT ![t] = "wantWrite"]
      <4>1. UNCHANGED <<buf, view>>
        BY <2>2 DEF WriteLock, WriteRetry
      <4>2. pc[t] \in {"idle", "wantWrite"}
        BY <2>2 DEF WriteLock, WriteRetry
      <4>3. In("reading")' = In("reading") /\ In("writing")' = In("writing")
        BY <3>1, <4>2 DEF In, IInv, TypeOK
      <4> QED BY <4>1, <4>3
    <3>2. CASE pc' # [pc EXCEPT ![t] = "wantWrite"]
      <4>1. writers = 0 /\ readers = 0 /\ pc' = [pc EXCEPT ![t] = "writing"]
            /\ UNCHANGED <<buf, view>>
        BY <2>2, <3>2 DEF WriteLock, WriteRetry, IInv, TypeOK
      <4>2. In("reading") = {} /\ In("writing") = {}
        BY <4>1, ZeroMeansEmpty DEF IInv
      <4>3. In("reading")' = {} /\ In("writing")' = {t}
        BY <4>1, <4>2 DEF In, IInv, TypeOK
      <4>4. Abstract!AWrite(t)
        BY <4>1, <4>2, <4>3 DEF Abstract!AWrite
      <4> QED BY <4>4
    <3> QED BY <3>1, <3>2
  <2>3. ASSUME NEW t \in Threads, WriteKey(t)
        PROVE  Abstract!AStore(t)
    BY <2>3 DEF WriteKey, Abstract!AStore, In
  <2>4. ASSUME NEW t \in Threads, WriteUnlock(t)
        PROVE  Abstract!AWriteDone(t)
    <3>1. pc[t] = "writing" /\ pc' = [pc EXCEPT ![t] = "idle"]
          /\ UNCHANGED <<buf, view>>
      BY <2>4 DEF WriteUnlock
    <3>2. In("writing")' = In("writing") \ {t} /\ In("reading")' = In("reading")
          /\ t \in In("writing")
      BY <3>1 DEF In, IInv, TypeOK
    <3> QED BY <3>1, <3>2 DEF Abstract!AWriteDone
  <2>5. ASSUME NEW t \in Threads, ReadEnter(t), pc[t] \in {"idle", "wantRead"}
        PROVE  Abstract!ARead(t)
    <3>1. pc' = [pc EXCEPT ![t] = "reading"] /\ writers = 0
          /\ view' = [view EXCEPT ![t] = buf] /\ UNCHANGED buf
      BY <2>5 DEF ReadEnter, ReadBlocked, IInv, TypeOK
    <3>2. In("writing") = {}
      BY <3>1, ZeroMeansEmpty DEF IInv
    <3>3. In("reading")' = In("reading") \cup {t} /\ In("writing")' = In("writing")
          /\ t \notin In("reading")
      BY <2>5, <3>1 DEF In, IInv, TypeOK
    <3> QED BY <3>1, <3>2, <3>3 DEF Abstract!ARead
  <2>6. ASSUME NEW t \in Threads, ReadLock(t), ~ReadEnter(t)
        PROVE  UNCHANGED Abstract!avars
    <3>1. pc[t] = "idle" /\ pc' = [pc EXCEPT ![t] = "wantRead"]
          /\ UNCHANGED <<buf, view>>
      BY <2>6 DEF ReadLock
    <3> QED BY <3>1 DEF In, IInv, TypeOK
  <2>7. ASSUME NEW t \in Threads, ReadUnlock(t)
        PROVE  Abstract!AReadDone(t)
    <3>1. pc[t] = "reading" /\ pc' = [pc EXCEPT ![t] = "idle"]
          /\ UNCHANGED <<buf, view>>
      BY <2>7 DEF ReadUnlock
    <3>2. In("reading")' = In("reading") \ {t} /\ In("writing")' = In("writing")
          /\ t \in In("reading")
      BY <3>1 DEF In, IInv, TypeOK
    <3> QED BY <3>1, <3>2 DEF Abstract!AReadDone
  <2>8. ASSUME NEW t \in Threads, ReadLock(t) \/ ReadRetry(t)
        PROVE  [Abstract!ANext]_(Abstract!avars)
    <3>1. CASE ReadEnter(t)
      BY <2>5, <2>8, <3>1 DEF ReadLock, ReadRetry
    <3>2. CASE ~ReadEnter(t)
      BY <2>6, <2>8, <3>2 DEF ReadRetry
    <3> QED BY <3>1, <3>2
  <2> QED
    BY <2>1, <2>2, <2>3, <2>4, <2>7, <2>8 DEF Next
<1> QED
  BY LockSafety, <1>1, <1>2, PTL DEF Spec, ImplementsRWLock, Abstract!ASpec
=============================================================================
