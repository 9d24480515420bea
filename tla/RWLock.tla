------------------------------- MODULE RWLock -------------------------------
(***************************************************************************)
(* What the read/write lock of a key context promises to the code that     *)
(* takes it, with no counters, no waiting and no polling: a set of readers *)
(* that look at the key buffer, at most one writer that may replace it,    *)
(* and each reader looking at the buffer that was current when it came in. *)
(* KeyLock, the lock the provider really has, implements this.             *)
(***************************************************************************)
CONSTANTS Threads, Buffers

VARIABLES
    reading,    \* the threads between READKEY_LOCK and READKEY_UNLOCK
    writing,    \* the threads between WRITEKEY_LOCK and WRITEKEY_UNLOCK
    buf,        \* the key buffer the key context points to
    view        \* view[t]: the buffer thread t took its pointers from

avars == <<reading, writing, buf, view>>

AInit ==
    /\ reading = {}
    /\ writing = {}
    /\ buf \in Buffers
    /\ view \in [Threads -> Buffers]

(* A reader enters only when nobody writes, and sees the current buffer. *)
ARead(t) ==
    /\ t \notin reading \cup writing
    /\ writing = {}
    /\ reading' = reading \cup {t}
    /\ view' = [view EXCEPT ![t] = buf]
    /\ UNCHANGED <<writing, buf>>

AReadDone(t) ==
    /\ t \in reading
    /\ reading' = reading \ {t}
    /\ UNCHANGED <<writing, buf, view>>

(* A writer enters only when it is alone. *)
AWrite(t) ==
    /\ reading = {}
    /\ writing = {}
    /\ writing' = {t}
    /\ UNCHANGED <<reading, buf, view>>

(* Only the writer replaces the key buffer. *)
AStore(t) ==
    /\ t \in writing
    /\ buf' \in Buffers
    /\ UNCHANGED <<reading, writing, view>>

AWriteDone(t) ==
    /\ t \in writing
    /\ writing' = writing \ {t}
    /\ UNCHANGED <<reading, buf, view>>

ANext ==
    \E t \in Threads :
        ARead(t) \/ AReadDone(t) \/ AWrite(t) \/ AStore(t) \/ AWriteDone(t)

ASpec == AInit /\ [][ANext]_avars
=============================================================================
