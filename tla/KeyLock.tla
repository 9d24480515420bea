------------------------------- MODULE KeyLock -------------------------------
(***************************************************************************)
(* The read/write lock of a PQC key context (luna_prov_key_ctx):           *)
(* LUNA_OQS_WRITEKEY_LOCK/_UNLOCK and LUNA_OQS_READKEY_NDX_LOCK/_UNLOCK of *)
(* lunaCommon.c.                                                           *)
(*                                                                         *)
(* The three counters are only touched under keyctx->mu, and the code      *)
(* leaves mu only around luna_sleep_milli(10), so one critical section,    *)
(* from the enter to the exit of mu, is one step here.  A thread whose     *)
(* test fails sleeps in "wantWrite" or "wantRead" and polls again.         *)
(*                                                                         *)
(* oqs_provider code holds the write lock while it replaces the key buffer *)
(* and hsm code holds the read lock while it uses the pointers that        *)
(* _LUNA_OQS_READKEY_NDX copied out of it: buf and view stand for those.   *)
(***************************************************************************)
EXTENDS Naturals, FiniteSets

CONSTANTS
    Threads,    \* the threads that share the key
    Buffers     \* the key buffers it may point to

ASSUME ThreadsAssumption == IsFiniteSet(Threads)
ASSUME BuffersAssumption == Buffers # {}

VARIABLES
    pc,             \* where each thread is in the lock protocol
    readers,        \* keyctx->readers
    writers,        \* keyctx->writers
    want_writers,   \* keyctx->want_writers
    buf,            \* the key buffer keyctx->oqsxkey points to
    view            \* view[t]: the buffer the keyinfo of thread t points into

vars == <<pc, readers, writers, want_writers, buf, view>>

PCs == {"idle", "wantWrite", "writing", "wantRead", "reading"}

Init ==
    /\ pc = [t \in Threads |-> "idle"]
    /\ readers = 0
    /\ writers = 0
    /\ want_writers = 0
    /\ buf \in Buffers
    /\ view \in [Threads -> Buffers]

In(state) == {t \in Threads : pc[t] = state}

-----------------------------------------------------------------------------
(* LUNA_OQS_WRITEKEY_LOCK, first pass: announce the writer, then test.  A
   writer let in at once has raised and lowered want_writers in this step. *)
WriteLock(t) ==
    /\ pc[t] = "idle"
    /\ IF writers > 0 \/ readers > 0
         THEN /\ want_writers' = want_writers + 1
              /\ pc' = [pc EXCEPT ![t] = "wantWrite"]
              /\ UNCHANGED writers
         ELSE /\ writers' = writers + 1
              /\ pc' = [pc EXCEPT ![t] = "writing"]
              /\ UNCHANGED want_writers
    /\ UNCHANGED <<readers, buf, view>>

(* Mutant: the loop waits for the writer only. *)
WriteRetry_IgnoresReaders(t) ==
    /\ pc[t] = "wantWrite"
    /\ writers = 0
    /\ writers' = writers + 1
    /\ want_writers' = want_writers - 1
    /\ pc' = [pc EXCEPT ![t] = "writing"]
    /\ UNCHANGED <<readers, buf, view>>

(* Mutant: the announcement is not withdrawn. *)
WriteRetry_KeepsWant(t) ==
    /\ pc[t] = "wantWrite"
    /\ writers = 0 /\ readers = 0
    /\ writers' = writers + 1
    /\ pc' = [pc EXCEPT ![t] = "writing"]
    /\ UNCHANGED <<readers, want_writers, buf, view>>

(* LUNA_OQS_WRITEKEY_LOCK, a pass after the sleep that finds the lock free. *)
WriteRetry(t) ==
    /\ pc[t] = "wantWrite"
    /\ ~(writers > 0 \/ readers > 0)
    /\ writers' = writers + 1
    /\ want_writers' = want_writers - 1
    /\ pc' = [pc EXCEPT ![t] = "writing"]
    /\ UNCHANGED <<readers, buf, view>>

(* What the holder of the write lock is there for: a new key buffer. *)
WriteKey(t) ==
    /\ pc[t] = "writing"
    /\ buf' \in Buffers
    /\ UNCHANGED <<pc, readers, writers, want_writers, view>>

WriteUnlock(t) ==
    /\ pc[t] = "writing"
    /\ writers' = writers - 1
    /\ pc' = [pc EXCEPT ![t] = "idle"]
    /\ UNCHANGED <<readers, want_writers, buf, view>>

(* Mutants: a reader that heeds one of the two counters only. *)
ReadBlocked_IgnoresWaiters == writers > 0
ReadBlocked_IgnoresWriter == want_writers > 0

(* The reader's test: a waiting writer holds new readers back. *)
ReadBlocked == writers > 0 \/ want_writers > 0

(* LUNA_OQS_READKEY_NDX_LOCK, once its test lets the reader in: count it and
   fill its keyinfo from the key buffer. *)
ReadEnter(t) ==
    /\ ~ReadBlocked
    /\ readers' = readers + 1
    /\ view' = [view EXCEPT ![t] = buf]
    /\ pc' = [pc EXCEPT ![t] = "reading"]
    /\ UNCHANGED <<writers, want_writers, buf>>

(* LUNA_OQS_READKEY_NDX_LOCK, first pass. *)
ReadLock(t) ==
    /\ pc[t] = "idle"
    /\ \/ ReadEnter(t)
       \/ /\ ReadBlocked
          /\ pc' = [pc EXCEPT ![t] = "wantRead"]
          /\ UNCHANGED <<readers, writers, want_writers, buf, view>>

(* LUNA_OQS_READKEY_NDX_LOCK, a pass after the sleep that is let in. *)
ReadRetry(t) ==
    /\ pc[t] = "wantRead"
    /\ ReadEnter(t)

(* LUNA_OQS_READKEY_UNLOCK *)
ReadUnlock(t) ==
    /\ pc[t] = "reading"
    /\ readers' = readers - 1
    /\ pc' = [pc EXCEPT ![t] = "idle"]
    /\ UNCHANGED <<writers, want_writers, buf, view>>

Next ==
    \E t \in Threads :
        \/ WriteLock(t) \/ WriteRetry(t) \/ WriteKey(t) \/ WriteUnlock(t)
        \/ ReadLock(t) \/ ReadRetry(t) \/ ReadUnlock(t)

Spec == Init /\ [][Next]_vars

(* A thread that sleeps polls again, and a holder finishes its call: neither
   waits for the application.  Nothing obliges a thread to ask for the lock. *)
Fairness ==
    \A t \in Threads :
        /\ WF_vars(WriteRetry(t))
        /\ WF_vars(ReadRetry(t))
        /\ WF_vars(WriteUnlock(t))
        /\ WF_vars(ReadUnlock(t))

FairSpec == Spec /\ Fairness

-----------------------------------------------------------------------------
TypeOK ==
    /\ pc \in [Threads -> PCs]
    /\ readers \in Nat
    /\ writers \in Nat
    /\ want_writers \in Nat
    /\ buf \in Buffers
    /\ view \in [Threads -> Buffers]

(* The counters are exactly the threads at the places they count. *)
CountersExact ==
    /\ readers = Cardinality(In("reading"))
    /\ writers = Cardinality(In("writing"))
    /\ want_writers = Cardinality(In("wantWrite"))

(* A writer is alone: the LUNA_ASSERTs of both lock functions
   (writers == 1 and readers == 0; writers == 0) never end the process, and
   stay true for as long as the lock is held. *)
WriterAlone ==
    \A t \in Threads : pc[t] = "writing" => In("writing") = {t} /\ In("reading") = {}

(* The pointers in a reader's keyinfo point into the key buffer the context
   has now, until the reader unlocks: no use of a freed buffer. *)
ReaderViewCurrent ==
    \A t \in Threads : pc[t] = "reading" => view[t] = buf

IInv == TypeOK /\ CountersExact /\ WriterAlone /\ ReaderViewCurrent

(* A reader that comes in overtakes no writer that has asked: want_writers
   holds it back even though the writer does not hold the lock yet. *)
NoReaderOvertakes ==
    [][\A t \in Threads :
          pc[t] # "reading" /\ pc'[t] = "reading" => In("wantWrite") = {}]_vars

(* A waiting writer means that some writer gets the lock: the readers inside
   drain and no reader enters meanwhile. *)
WriterProgress == (In("wantWrite") # {}) ~> (In("writing") # {})

(* Readers wait for writers only: once no more writers come, every waiting
   reader is let in. *)
ReaderProgress ==
    <>[](In("wantWrite") = {} /\ In("writing") = {})
        => \A t \in Threads : (pc[t] = "wantRead") ~> (pc[t] = "reading")

(* The lock without its counters. *)
Abstract == INSTANCE RWLock WITH
    reading <- In("reading"),
    writing <- In("writing")

ImplementsRWLock == Abstract!ASpec
=============================================================================
