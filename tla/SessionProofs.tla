---------------------------- MODULE SessionProofs ----------------------------
(***************************************************************************)
(* Proofs about Session, for any finite set of threads, any set of session *)
(* handles and every setting of the configuration.                         *)
(*                                                                         *)
(* The three safety properties lean on each other.  A finalization is safe *)
(* (SessionsLive) because the counter it tested is exact (ActivityExact)   *)
(* and so no context is open; the counters stay exact because luna_fini_p11*)
(* zeroes them only then; and a session taken from the cache or from the   *)
(* library is in nobody's hands (SessionExclusive) because the cached and  *)
(* the held ones are all sessions of the running library (SessionsLive).   *)
(* To these the invariant adds where the mutex is (PlaceInv), that a       *)
(* process that finalizes after each call has one call at a time           *)
(* (ParentInv), and where login sessions come from (LoginInv).             *)
(***************************************************************************)
EXTENDS Session, FiniteSetTheorems, TLAPS

USE DEF FinalizeEach, SkipInit

(* Where the mutex and the library are while a thread opens, and what became
   of the context it opens or closes. *)
PlaceInv ==
    \A t \in Threads :
        /\ pc[t] \in {"init", "session"} => mutex = t
        /\ pc[t] = "init" => ~have_c_init
        /\ pc[t] = "session" => have_c_init
        /\ pc[t] \in {"enter", "init", "session"} => ctx[<<t, cur[t]>>].st = "closed"
        /\ pc[t] = "drain" => ctx[<<t, cur[t]>>].st = "closing"

(* A process that finalizes after each call serializes its calls. *)
ParentInv ==
    FinalizeEach =>
        /\ \A c \in OpenContexts : mutex = c[1]
        /\ \A c, d \in OpenContexts : c = d
        /\ \A t \in Threads : pc[t] # "drain"
        /\ \A t \in Threads : pc[t] \in {"init", "session"} => OpenContexts = {}
        /\ mutex = NoThread => ~have_c_init

(* Login sessions belong to the library and never to the cache. *)
LoginInv ==
    /\ ~LoginInit => \A s \in Slots : login[s] = NoHandle
    /\ have_c_init => \A s \in Slots :
          login[s] \in live \cup {NoHandle} /\ login[s] \notin Cached

IInv ==
    /\ TypeOK /\ PlaceInv /\ ParentInv /\ LoginInv
    /\ ActivityExact /\ SessionExclusive /\ SessionsLive

-----------------------------------------------------------------------------
(* The set of contexts and each of its parts are finite. *)
LEMMA ContextsFinite ==
    /\ IsFiniteSet(Contexts)
    /\ IsFiniteSet(OpenContexts)
    /\ \A s : IsFiniteSet(OpenOn(s))
<1>1. IsFiniteSet(Kinds)
  <2>1. IsFiniteSet({"op"})
    BY FS_Singleton
  <2>2. Kinds = {"op"} \cup {"store"}
    BY DEF Kinds
  <2> QED
    BY <2>1, <2>2, FS_AddElement
<1>2. IsFiniteSet(Contexts)
  BY <1>1, SessionAssumption, FS_Product DEF Contexts
<1>3. OpenContexts \subseteq Contexts /\ \A s : OpenOn(s) \subseteq Contexts
  BY DEF OpenContexts, OpenOn
<1> QED
  BY <1>2, <1>3, FS_Subset

(* When the count of the process reads zero, no call is inside. *)
LEMMA ZeroActivity ==
    ASSUME ActivityExact, total = 0
    PROVE  OpenContexts = {}
BY ContextsFinite, FS_EmptySet DEF ActivityExact

(* Opening a context counts one call more, in total and on its slot. *)
LEMMA OpenCounts ==
    ASSUME TypeOK, ActivityExact, NEW c \in Contexts, ~Open(c),
           NEW r, r.st = "open", r.slot \in Slots,
           ctx' = [ctx EXCEPT ![c] = r],
           activity' = [activity EXCEPT ![r.slot] = @ + 1],
           total' = total + 1
    PROVE  /\ OpenContexts' = OpenContexts \cup {c}
           /\ ActivityExact'
<1>1. \A d \in Contexts : ctx'[d] = IF d = c THEN r ELSE ctx[d]
  BY DEF TypeOK
<1>2. OpenContexts' = OpenContexts \cup {c} /\ c \notin OpenContexts
  BY <1>1 DEF OpenContexts, Open
<1>3. \A s : OpenOn(s)' = IF s = r.slot THEN OpenOn(s) \cup {c} ELSE OpenOn(s)
  BY <1>1, <1>2 DEF OpenOn, OpenContexts
<1>4. \A s : c \notin OpenOn(s)
  BY <1>2 DEF OpenOn
<1>5. Cardinality(OpenContexts \cup {c}) = Cardinality(OpenContexts) + 1
  BY <1>2, ContextsFinite, FS_AddElement
<1>6. Cardinality(OpenOn(r.slot) \cup {c}) = Cardinality(OpenOn(r.slot)) + 1
  BY <1>4, ContextsFinite, FS_AddElement
<1>7. total' = Cardinality(OpenContexts)'
  BY <1>2, <1>5 DEF ActivityExact
<1>8. ASSUME NEW s \in Slots
      PROVE  activity'[s] = Cardinality(OpenOn(s)')
  <2>1. activity[s] = Cardinality(OpenOn(s))
    BY DEF ActivityExact
  <2> QED
    BY <1>3, <1>6, <2>1 DEF TypeOK
<1> QED
  BY <1>2, <1>7, <1>8 DEF ActivityExact

(* Closing one counts one call less: the tests for a positive counter in
   luna_close_context_w_err never make a difference. *)
LEMMA LeaveCounts ==
    ASSUME TypeOK, ActivityExact, NEW c \in OpenContexts, Leave(c),
           ctx'[c].st # "open",
           \A d \in Contexts \ {c} : ctx'[d] = ctx[d]
    PROVE  /\ OpenContexts' = OpenContexts \ {c}
           /\ ActivityExact'
<1> DEFINE s0 == ctx[c].slot
<1>0. c \in Contexts /\ s0 \in Slots
  BY DEF OpenContexts, TypeOK, Context
<1>2. OpenContexts' = OpenContexts \ {c} /\ c \in OpenContexts
  BY <1>0 DEF OpenContexts, Open
<1>3. \A s : OpenOn(s)' = IF s = s0 THEN OpenOn(s) \ {c} ELSE OpenOn(s)
  BY <1>0, <1>2 DEF OpenOn, OpenContexts
<1>4. c \in OpenOn(s0)
  BY <1>2 DEF OpenOn
<1>5. Cardinality(OpenContexts \ {c}) = Cardinality(OpenContexts) - 1
      /\ Cardinality(OpenContexts) \in Nat /\ Cardinality(OpenContexts) # 0
  BY <1>2, ContextsFinite, FS_RemoveElement, FS_CardinalityType, FS_EmptySet
<1>6. Cardinality(OpenOn(s0) \ {c}) = Cardinality(OpenOn(s0)) - 1
      /\ Cardinality(OpenOn(s0)) \in Nat /\ Cardinality(OpenOn(s0)) # 0
  BY <1>4, ContextsFinite, FS_RemoveElement, FS_CardinalityType, FS_EmptySet
<1>7. total' = Cardinality(OpenContexts)'
  BY <1>2, <1>5 DEF ActivityExact, Leave
<1>8. ASSUME NEW s \in Slots
      PROVE  activity'[s] = Cardinality(OpenOn(s)')
  <2>1. activity[s] = Cardinality(OpenOn(s))
    BY DEF ActivityExact
  <2>2. CASE s = s0
    <3>1. activity[s0] > 0
      BY <1>6, <2>1, <2>2
    <3>2. activity'[s0] = activity[s0] - 1
      BY <1>0, <3>1 DEF TypeOK, Leave
    <3> QED
      BY <1>3, <1>6, <2>1, <2>2, <3>2
  <2>3. CASE s # s0
    <3>1. activity'[s] = activity[s]
      BY <2>3 DEF TypeOK, Leave
    <3> QED
      BY <1>3, <2>1, <2>3, <3>1
  <2> QED
    BY <2>2, <2>3
<1> QED
  BY <1>2, <1>7, <1>8 DEF ActivityExact

(* A step that opens and closes nothing, and leaves the counters alone. *)
LEMMA SameCounts ==
    ASSUME ActivityExact, UNCHANGED <<activity, total>>,
           \A d \in Contexts : ctx'[d].st = "open" => ctx[d].st = "open",
           \A d \in Contexts : ctx[d].st = "open" => ctx'[d] = ctx[d]
    PROVE  OpenContexts' = OpenContexts /\ ActivityExact'
<1>1. OpenContexts' = OpenContexts
  BY DEF OpenContexts, Open
<1>2. \A s : OpenOn(s)' = OpenOn(s)
  BY <1>1 DEF OpenOn, OpenContexts, Open
<1> QED
  BY <1>1, <1>2 DEF ActivityExact

(* luna_fini_p11 zeroes the counters: right when no context stays open. *)
LEMMA ZeroCounts ==
    ASSUME OpenContexts' = {}, total' = 0, activity' = [s \in Slots |-> 0]
    PROVE  ActivityExact'
<1>1. \A s : OpenOn(s)' = {}
  BY DEF OpenOn
<1> QED
  BY <1>1, FS_EmptySet DEF ActivityExact

-----------------------------------------------------------------------------
(* The initial state. *)
LEMMA InitIInv == Init => IInv
<1> SUFFICES ASSUME Init PROVE IInv
  OBVIOUS
<1>1. TypeOK
  <2>1. 0 \in Slots
    BY SessionAssumption DEF Slots
  <2>2. ClosedContext \in Context
    BY <2>1 DEF ClosedContext, Context
  <2>3. ctx \in [Contexts -> Context]
    BY <2>2 DEF Init
  <2>4. count_c_init \in 1 .. CountModulus - 1
    BY SessionAssumption DEF Init
  <2>5. /\ pw \in [Slots -> 0 .. 2] /\ activity \in [Slots -> Nat]
        /\ cache \in [Slots -> SUBSET Handles] /\ login \in LoginSessions
    BY DEF Init, LoginSessions
  <2>6. /\ mutex \in Threads \cup {NoThread}
        /\ pc \in [Threads -> PCs] /\ cur \in [Threads -> Kinds]
    BY DEF Init, PCs, Kinds
  <2> QED
    BY <2>3, <2>4, <2>5, <2>6 DEF Init, TypeOK
<1>2. OpenContexts = {}
  BY DEF Init, OpenContexts, Open, ClosedContext
<1>3. \A s : OpenOn(s) = {}
  BY <1>2 DEF OpenOn
<1>4. ActivityExact
  BY <1>2, <1>3, FS_EmptySet DEF Init, ActivityExact
<1>5. Cached = {}
  BY DEF Init, Cached
<1>6. PlaceInv /\ ParentInv /\ LoginInv
  BY <1>2, SessionAssumption DEF Init, PlaceInv, ParentInv, LoginInv
<1>7. SessionExclusive /\ SessionsLive
  BY <1>2, <1>5 DEF Init, SessionExclusive, SessionsLive
<1> QED
  BY <1>1, <1>4, <1>6, <1>7 DEF IInv

(* The modulus keeps the count of initializations in range. *)
LEMMA NextCountType ==
    ASSUME count_c_init \in 1 .. CountModulus - 1
    PROVE  NextCount(count_c_init) \in 1 .. CountModulus - 1
<1>1. (count_c_init + 1) % CountModulus \in 0 .. CountModulus - 1
  BY SessionAssumption
<1> QED
  BY <1>1, SessionAssumption DEF NextCount

(* Steps that touch neither the library nor the contexts nor the counters. *)
LEMMA QuietStep ==
    ASSUME IInv, config' = config,
           TypeOK', PlaceInv',
           UNCHANGED <<ctx, libvars, poolvars>>,
           FinalizeEach => /\ mutex' = mutex \/ OpenContexts = {}
                           /\ mutex' = NoThread => ~have_c_init
                           /\ \A t \in Threads : pc'[t] # "drain"
                           /\ \A t \in Threads : pc'[t] \in {"init", "session"} => OpenContexts = {}
    PROVE  IInv'
<1>1. OpenContexts' = OpenContexts /\ Cached' = Cached
  BY DEF OpenContexts, Open, Cached, poolvars
<1>2. \A s : OpenOn(s)' = OpenOn(s)
  BY <1>1 DEF OpenOn
<1>3. ActivityExact'
  BY <1>1, <1>2 DEF IInv, ActivityExact, poolvars
<1>4. SessionExclusive' /\ SessionsLive'
  BY <1>1 DEF IInv, SessionExclusive, SessionsLive, SameInit, libvars, poolvars
<1>5. LoginInv'
  BY <1>1 DEF IInv, LoginInv, libvars
<1>6. ParentInv'
  BY <1>1 DEF IInv, ParentInv, libvars
<1> QED
  BY <1>3, <1>4, <1>5, <1>6 DEF IInv

(* A thread asks for a context. *)
LEMMA StartOpenStep ==
    ASSUME IInv, config' = config, NEW t \in Threads, NEW k \in Kinds, StartOpen(t, k)
    PROVE  IInv'
<1>1. TypeOK'
  BY DEF IInv, TypeOK, StartOpen, Goto, PCs, libvars, poolvars
<1>2. PlaceInv'
  BY DEF IInv, TypeOK, PlaceInv, StartOpen, Goto, libvars
<1>3. UNCHANGED <<ctx, libvars, poolvars>>
  BY DEF StartOpen
<1>4. FinalizeEach => /\ mutex' = mutex \/ OpenContexts = {}
                      /\ mutex' = NoThread => ~have_c_init
                      /\ \A u \in Threads : pc'[u] # "drain"
                      /\ \A u \in Threads : pc'[u] \in {"init", "session"} => OpenContexts = {}
  BY DEF IInv, TypeOK, ParentInv, StartOpen, Goto
<1> QED
  BY <1>1, <1>2, <1>3, <1>4, QuietStep

(* A thread gives the control command. *)
LEMMA StartFinalizePendingStep ==
    ASSUME IInv, config' = config, NEW t \in Threads, StartFinalizePending(t)
    PROVE  IInv'
<1>1. TypeOK'
  BY DEF IInv, TypeOK, StartFinalizePending, Goto, PCs, libvars, poolvars
<1>2. PlaceInv'
  BY DEF IInv, TypeOK, PlaceInv, StartFinalizePending, Goto, libvars
<1>3. UNCHANGED <<ctx, libvars, poolvars>>
  BY DEF StartFinalizePending
<1>4. FinalizeEach => /\ mutex' = mutex \/ OpenContexts = {}
                      /\ mutex' = NoThread => ~have_c_init
                      /\ \A u \in Threads : pc'[u] # "drain"
                      /\ \A u \in Threads : pc'[u] \in {"init", "session"} => OpenContexts = {}
  BY DEF IInv, TypeOK, ParentInv, StartFinalizePending, Goto
<1> QED
  BY <1>1, <1>2, <1>3, <1>4, QuietStep

(* An opener enters the mutex. *)
LEMMA EnterOpenStep ==
    ASSUME IInv, config' = config, NEW t \in Threads, EnterOpen(t)
    PROVE  IInv'
<1>1. TypeOK'
  BY DEF IInv, TypeOK, EnterOpen, Goto, PCs, libvars, poolvars
<1>2. PlaceInv'
  BY SessionAssumption DEF IInv, TypeOK, PlaceInv, EnterOpen, Goto, libvars
<1>3. FinalizeEach => OpenContexts = {}
  BY SessionAssumption DEF IInv, ParentInv, EnterOpen, OpenContexts, Contexts
<1>4. FinalizeEach => \A u \in Threads : pc'[u] # "drain"
  BY DEF IInv, TypeOK, ParentInv, EnterOpen, Goto
<1>5. mutex' # NoThread
  BY SessionAssumption DEF EnterOpen
<1> QED
  BY <1>1, <1>2, <1>3, <1>4, <1>5, QuietStep DEF EnterOpen

(* A closer leaves the mutex to sleep. *)
LEMMA DrainSleepStep ==
    ASSUME IInv, config' = config, NEW t \in Threads, DrainSleep(t)
    PROVE  IInv'
<1>1. TypeOK'
  BY DEF IInv, TypeOK, DrainSleep, libvars, poolvars
<1>2. PlaceInv'
  BY DEF IInv, TypeOK, PlaceInv, DrainSleep, libvars
<1>3. ~FinalizeEach
  BY DEF IInv, ParentInv, DrainSleep
<1> QED
  BY <1>1, <1>2, <1>3, QuietStep DEF DrainSleep

-----------------------------------------------------------------------------
(* luna_fini_p11 with no context left open is safe. *)
LEMMA FiniSafe ==
    ASSUME IInv, config' = config, NEW own, Fini(own), OpenContexts' = {}
    PROVE  /\ live' \subseteq Handles /\ cache' \in [Slots -> SUBSET Handles]
           /\ login' \in LoginSessions /\ pw' \in [Slots -> 0 .. 2]
           /\ activity' \in [Slots -> Nat] /\ total' \in Nat
           /\ have_c_init' = FALSE
           /\ count_c_init' = count_c_init
           /\ LoginInv' /\ ActivityExact' /\ SessionExclusive' /\ SessionsLive'
<1>1. live' \subseteq live
  BY DEF Fini, SessionsAfterFini
<1>2. login' \in LoginSessions /\ \A s \in Slots : login'[s] \in {login[s], NoHandle}
  BY DEF IInv, TypeOK, Fini, LoginSessions
<1>3. Cached' = {}
  BY DEF Fini, Cached
<1>4. ActivityExact'
  BY ZeroCounts DEF Fini
<1>5. SessionExclusive'
  BY <1>3 DEF Fini, SessionExclusive, Cached
<1>6. SessionsLive'
  <2>1. ~SkipInit => live' = {}
    BY DEF IInv, SessionsLive, Fini, SessionsAfterFini
  <2> QED
    BY <1>3, <2>1 DEF SessionsLive
<1>7. LoginInv'
  BY <1>2 DEF IInv, LoginInv, Fini
<1> QED
  BY <1>1, <1>2, <1>4, <1>5, <1>6, <1>7 DEF IInv, TypeOK, Fini

(* A thread outside the mutex, or in it, keeps the others from opening. *)
LEMMA MutexExcludes ==
    ASSUME IInv, NEW t \in Threads, mutex \in {t, NoThread},
           NEW u \in Threads, u # t
    PROVE  pc[u] \notin {"init", "session"}
BY SessionAssumption DEF IInv, PlaceInv

(* Over a library that is not initialized no context is open. *)
LEMMA NoLibraryNoContext ==
    ASSUME IInv, ~have_c_init
    PROVE  OpenContexts = {}
BY DEF IInv, SessionsLive, SameInit

(* luna_init_p11_deferred over an empty or inherited library. *)
LEMMA InitP11Step ==
    ASSUME IInv, config' = config, NEW t \in Threads, InitP11(t)
    PROVE  IInv'
<1>1. mutex = t /\ ~have_c_init
  BY DEF IInv, PlaceInv, InitP11
<1>2. OpenContexts = {} /\ OpenContexts' = {}
  BY <1>1, NoLibraryNoContext DEF InitP11, OpenContexts, Open
<1>3. Cached' = {}
  BY DEF InitP11, Cached
<1>4. /\ live' \subseteq Handles /\ pw' = pw /\ login' \in LoginSessions
      /\ \A s \in Slots : login'[s] \in live' \cup {NoHandle}
  <2>1. Inherited \subseteq Handles
    BY DEF Inherited, IInv, TypeOK
  <2>2. CASE LoginInit
    <3>1. PICK f \in [Slots -> Handles \ Inherited] :
             login' = f /\ live' = Inherited \cup {f[s] : s \in Slots}
      BY <2>2 DEF InitP11, LoginOk
    <3> QED
      BY <2>1, <2>2, <3>1 DEF InitP11, LoginOk, LoginSessions
  <2>3. CASE ~LoginInit
    BY <2>1, <2>3 DEF InitP11, LoginOk, IInv, TypeOK, LoginInv
  <2> QED
    BY <2>2, <2>3
<1>5. TypeOK'
  BY <1>4, NextCountType DEF IInv, TypeOK, InitP11, Goto, PCs
<1>6. PlaceInv'
  BY <1>1, MutexExcludes DEF IInv, TypeOK, PlaceInv, InitP11, Goto
<1>7. ParentInv'
  BY <1>1, <1>2, SessionAssumption DEF IInv, TypeOK, ParentInv, InitP11, Goto
<1>8. LoginInv'
  BY <1>3, <1>4 DEF IInv, LoginInv, InitP11, LoginOk
<1>9. ActivityExact'
  BY SameCounts DEF IInv, InitP11
<1>10. SessionExclusive' /\ SessionsLive'
  BY <1>2, <1>3 DEF SessionExclusive, SessionsLive, InitP11, Cached
<1> QED
  BY <1>5, <1>6, <1>7, <1>8, <1>9, <1>10 DEF IInv

(* luna_init_p11_deferred fails in C_Initialize. *)
LEMMA InitFailsStep ==
    ASSUME IInv, config' = config, NEW t \in Threads, InitFails(t)
    PROVE  IInv'
<1>1. mutex = t /\ ~have_c_init
  BY DEF IInv, PlaceInv, InitFails
<1>2. OpenContexts = {} /\ OpenContexts' = {}
  BY <1>1, NoLibraryNoContext DEF InitFails, OpenContexts, Open
<1>3. Cached' = {}
  BY DEF InitFails, Cached
<1>5. TypeOK'
  BY DEF IInv, TypeOK, InitFails, Goto, PCs, libvars
<1>6. PlaceInv'
  BY <1>1, MutexExcludes DEF IInv, TypeOK, PlaceInv, InitFails, Goto, libvars
<1>7. ParentInv'
  BY <1>1, <1>2 DEF IInv, TypeOK, ParentInv, InitFails, Goto, libvars
<1>8. LoginInv'
  BY <1>1 DEF IInv, LoginInv, InitFails, libvars
<1>9. ActivityExact'
  BY SameCounts DEF IInv, InitFails
<1>10. SessionExclusive' /\ SessionsLive'
  BY <1>1, <1>2, <1>3 DEF IInv, SessionExclusive, SessionsLive, InitFails, Cached, libvars
<1> QED
  BY <1>5, <1>6, <1>7, <1>8, <1>9, <1>10 DEF IInv

(* A login that stops half-way gives each slot a new session, no session or
   the one it had. *)
LEMMA LoginStops ==
    ASSUME TypeOK, NEW base \in SUBSET Handles, NEW k \in Slots,
           NEW f \in LoginSessions, LoginStopsAt(base, k, f)
    PROVE  /\ LoginInit
           /\ login' = f
           /\ pw' \in [Slots -> 0 .. 2]
           /\ \A s \in 0 .. k - 1 : f[s] \in Handles \ base
           /\ \A s \in Slots : s >= k => f[s] \in {login[s], NoHandle}
<1>1. \A s \in Slots : s >= k => s = k \/ s > k
  BY SessionAssumption DEF Slots
<1>2. pw' \in [Slots -> 0 .. 2]
  BY DEF TypeOK, LoginStopsAt
<1> QED
  BY <1>1, <1>2 DEF LoginStopsAt

(* luna_init_p11_deferred fails after C_Initialize. *)
LEMMA InitLateFailsStep ==
    ASSUME IInv, config' = config, NEW t \in Threads, InitLateFails(t)
    PROVE  IInv'
<1>1. mutex = t /\ ~have_c_init
  BY DEF IInv, PlaceInv, InitLateFails
<1>2. OpenContexts = {} /\ OpenContexts' = {}
  BY <1>1, NoLibraryNoContext DEF InitLateFails, OpenContexts, Open
<1>3. Cached' = {}
  BY DEF InitLateFails, Cached
<1>4. /\ live' \subseteq Handles /\ login' \in LoginSessions /\ pw' \in [Slots -> 0 .. 2]
      /\ ~SkipInit => live' = {}
      /\ ~LoginInit => login' = login
  <2>1. Inherited \in SUBSET Handles
    BY DEF Inherited, IInv, TypeOK
  <2>2. CASE UNCHANGED <<login, pw>> /\ live' = Inherited
    BY <2>1, <2>2 DEF Inherited, IInv, TypeOK
  <2>3. ASSUME NEW k \in Slots, NEW f \in LoginSessions, LoginStopsAt(Inherited, k, f),
               live' = IF SkipInit THEN live \cup {f[s] : s \in 0 .. k - 1} ELSE {}
        PROVE  /\ live' \subseteq Handles /\ login' \in LoginSessions
               /\ pw' \in [Slots -> 0 .. 2]
               /\ ~SkipInit => live' = {}
               /\ LoginInit
    <3>1. /\ LoginInit /\ login' = f /\ pw' \in [Slots -> 0 .. 2]
          /\ \A s \in 0 .. k - 1 : f[s] \in Handles \ Inherited
      BY <2>1, <2>3, LoginStops DEF IInv
    <3>2. live' \subseteq Handles
      BY <2>3, <3>1 DEF IInv, TypeOK
    <3> QED
      BY <2>3, <3>1, <3>2
  <2> QED
    BY <2>2, <2>3 DEF InitLateFails
<1>5. TypeOK'
  BY <1>4, NextCountType DEF IInv, TypeOK, InitLateFails, Goto, PCs
<1>6. PlaceInv'
  BY <1>1, MutexExcludes DEF IInv, TypeOK, PlaceInv, InitLateFails, Goto
<1>7. ParentInv'
  BY <1>1, <1>2 DEF IInv, TypeOK, ParentInv, InitLateFails, Goto
<1>8. LoginInv'
  BY <1>4 DEF IInv, LoginInv, InitLateFails
<1>9. ActivityExact'
  BY SameCounts DEF IInv, InitLateFails
<1>10. SessionExclusive' /\ SessionsLive'
  BY <1>2, <1>3, <1>4 DEF SessionExclusive, SessionsLive, InitLateFails, Cached
<1> QED
  BY <1>5, <1>6, <1>7, <1>8, <1>9, <1>10 DEF IInv

-----------------------------------------------------------------------------
(* A call gets a session, from the cache or new. *)
LEMMA GetSessionStep ==
    ASSUME IInv, config' = config, NEW t \in Threads, NEW s \in Slots, NEW h \in Handles, GetSession(t, s, h)
    PROVE  IInv'
<1> DEFINE c == <<t, cur[t]>>
           r == [st |-> "open", h |-> h, slot |-> s, gen |-> count_c_init, rv |-> "ok"]
<1>1. mutex = t /\ have_c_init /\ have_c_init'
  BY DEF IInv, PlaceInv, GetSession
<1>2. c \in Contexts /\ ctx[c].st = "closed"
  BY DEF IInv, TypeOK, PlaceInv, GetSession, Contexts
<1>3. ctx' = [ctx EXCEPT ![c] = r] /\ r \in Context
  BY DEF IInv, TypeOK, GetSession, Context
<1>4. /\ \A d \in Contexts : ctx'[d] = IF d = c THEN r ELSE ctx[d]
      /\ ctx' \in [Contexts -> Context]
  BY <1>3 DEF IInv, TypeOK
<1>5. OpenContexts' = OpenContexts \cup {c} /\ ActivityExact'
  <2>1. r.st = "open" /\ r.slot = s
    OBVIOUS
  <2>2. activity' = [activity EXCEPT ![r.slot] = @ + 1] /\ total' = total + 1
    BY <2>1 DEF GetSession
  <2>3. ~Open(c)
    BY <1>2 DEF Open
  <2>4. TypeOK /\ ActivityExact
    BY DEF IInv
  <2> HIDE DEF c, r
  <2> QED
    BY <1>2, <1>3, <2>1, <2>2, <2>3, <2>4, OpenCounts
<1>6. /\ live' = live \cup {h}
      /\ Cached' \subseteq Cached /\ h \notin Cached'
      /\ cache' \in [Slots -> SUBSET Handles]
      /\ \A z \in Slots : cache'[z] \subseteq cache[z]
  <2>1. CASE cache[s] # {}
    <3>1. h \in cache[s] /\ h \in live /\ live' = live
      BY <2>1 DEF IInv, SessionsLive, Cached, GetSession
    <3>2. /\ cache' \in [Slots -> SUBSET Handles]
          /\ \A z \in Slots : cache'[z] = IF z = s THEN cache[z] \ {h} ELSE cache[z]
      BY <2>1 DEF IInv, TypeOK, GetSession
    <3>3. \A z \in Slots : h \notin cache'[z]
      BY <3>1, <3>2 DEF IInv, SessionExclusive
    <3> QED
      BY <3>1, <3>2, <3>3 DEF Cached
  <2>2. CASE cache[s] = {}
    BY <2>2 DEF IInv, TypeOK, SessionsLive, Cached, GetSession
  <2> QED
    BY <2>1, <2>2
<1>7. \A d \in OpenContexts : ctx[d].h # h
  BY DEF IInv, SessionExclusive, SessionsLive, GetSession, Cached
<1>8. \A z \in Slots : login[z] # h
  BY <1>1, SessionAssumption DEF IInv, LoginInv, GetSession, Cached
<1>9. TypeOK'
  <2>1. activity' \in [Slots -> Nat] /\ total' \in Nat
    BY DEF IInv, TypeOK, GetSession
  <2>2. pc' \in [Threads -> PCs] /\ mutex' \in Threads \cup {NoThread}
    BY DEF IInv, TypeOK, GetSession, Goto, PCs
  <2>3. live' \subseteq Handles
    BY <1>6 DEF IInv, TypeOK
  <2> QED
    BY <1>4, <1>6, <2>1, <2>2, <2>3 DEF IInv, TypeOK, GetSession
<1>10. PlaceInv'
  <2>1. \A u \in Threads : u # t => <<u, cur[u]>> # c
    OBVIOUS
  <2>2. \A u \in Threads : u # t => ctx'[<<u, cur[u]>>] = ctx[<<u, cur[u]>>]
    BY <1>4, <2>1 DEF IInv, TypeOK, Contexts
  <2>3. \A u \in Threads : u # t => pc[u] \notin {"init", "session"}
    BY <1>1, MutexExcludes
  <2> QED
    BY <2>2, <2>3 DEF IInv, TypeOK, PlaceInv, GetSession, Goto
<1>11. ParentInv'
  <2>1. FinalizeEach => OpenContexts' = {c} /\ mutex' = t
    BY <1>5 DEF IInv, ParentInv, GetSession, HoldsMutex
  <2>2. FinalizeEach => \A u \in Threads : pc'[u] \notin {"init", "session", "drain"}
    BY <1>1, MutexExcludes DEF IInv, TypeOK, ParentInv, GetSession, Goto
  <2> QED
    BY <2>1, <2>2, SessionAssumption DEF ParentInv
<1>12. LoginInv'
  BY <1>6 DEF IInv, LoginInv, GetSession
<1>13. SessionExclusive'
  <2>1. \A d \in OpenContexts' : ctx'[d].h = IF d = c THEN h ELSE ctx[d].h
    BY <1>4, <1>5 DEF OpenContexts
  <2>2. c \notin OpenContexts
    BY <1>2 DEF OpenContexts, Open
  <2>3. \A d, e \in OpenContexts' : ctx'[d].h = ctx'[e].h => d = e
    BY <1>5, <1>7, <2>1, <2>2 DEF IInv, SessionExclusive
  <2>4. \A d \in OpenContexts' : /\ ctx'[d].h \notin Cached'
                                /\ \A z \in Slots : login[z] # ctx'[d].h
    BY <1>1, <1>5, <1>6, <1>8, <2>1, <2>2 DEF IInv, SessionExclusive
  <2>5. \A z1, z2 \in Slots : z1 # z2 => cache'[z1] \cap cache'[z2] = {}
    BY <1>6 DEF IInv, SessionExclusive
  <2> QED
    BY <2>3, <2>4, <2>5 DEF SessionExclusive, GetSession
<1>14. SessionsLive'
  <2>1. \A d \in OpenContexts' : SameInit(d)' /\ ctx'[d].h \in live'
    BY <1>1, <1>4, <1>5, <1>6 DEF IInv, SessionsLive, SameInit, GetSession, OpenContexts
  <2> QED
    BY <1>1, <1>6, <2>1 DEF IInv, SessionsLive
<1> QED
  BY <1>5, <1>9, <1>10, <1>11, <1>12, <1>13, <1>14 DEF IInv

(* A call gets no session. *)
LEMMA GetSessionFailsStep ==
    ASSUME IInv, config' = config, NEW t \in Threads, NEW s \in Slots, GetSessionFails(t, s)
    PROVE  IInv'
<1>1. mutex = t /\ mutex' = NoThread /\ ctx' = ctx /\ cur' = cur
  BY DEF IInv, PlaceInv, GetSessionFails
<1>2. \A u \in Threads : u # t => pc[u] \notin {"init", "session"}
  BY <1>1, MutexExcludes
<1>3. /\ pc' \in [Threads -> PCs]
      /\ \A u \in Threads : pc'[u] = IF u = t THEN "idle" ELSE pc[u]
  BY DEF IInv, TypeOK, GetSessionFails, Goto, PCs
<1>4. PlaceInv'
  BY <1>1, <1>2, <1>3 DEF IInv, PlaceInv
<1>5. CASE FinalizeEach
  <2>1. OpenContexts = {} /\ OpenContexts' = {}
    BY <1>1, <1>5 DEF IInv, ParentInv, GetSessionFails, OpenContexts, Open
  <2>2. Fini({})
    BY <1>5 DEF GetSessionFails
  <2>3. TypeOK'
    BY <1>1, <1>3, <2>1, <2>2, FiniSafe DEF IInv, TypeOK, GetSessionFails
  <2>4. ParentInv'
    BY <1>3, <2>1, <2>2 DEF IInv, ParentInv, Fini
  <2> QED
    BY <1>4, <2>1, <2>2, <2>3, <2>4, FiniSafe DEF IInv
<1>6. CASE ~FinalizeEach
  <2>1. UNCHANGED <<ctx, libvars, poolvars>>
    BY <1>6 DEF GetSessionFails
  <2>2. TypeOK'
    BY <1>1, <1>3, <2>1 DEF IInv, TypeOK, GetSessionFails, libvars, poolvars
  <2> QED
    BY <1>4, <1>6, <2>1, <2>2, QuietStep
<1> QED
  BY <1>5, <1>6

(* The context closed by luna_close_context_w_err. *)
LEMMA ClosingContext ==
    ASSUME IInv, NEW t \in Threads, NEW k \in Kinds, CloseEnabled(t, k)
    PROVE  /\ <<t, k>> \in OpenContexts /\ <<t, k>> \in Contexts
           /\ mutex \in {t, NoThread} /\ pc[t] = "idle"
           /\ have_c_init /\ SameInit(<<t, k>>)
           /\ ctx[<<t, k>>].h \in live /\ ctx[<<t, k>>].slot \in Slots
           /\ ctx[<<t, k>>].h \notin Cached
           /\ \A s \in Slots : login[s] # ctx[<<t, k>>].h
<1>1. <<t, k>> \in Contexts
  BY DEF Contexts
<1>2. <<t, k>> \in OpenContexts
  BY <1>1 DEF OpenContexts, CloseEnabled
<1>3. SameInit(<<t, k>>) /\ ctx[<<t, k>>].h \in live
  BY <1>2 DEF IInv, SessionsLive
<1>4. have_c_init
  BY <1>3 DEF SameInit
<1>5. ctx[<<t, k>>].slot \in Slots
  BY <1>1 DEF IInv, TypeOK, Context
<1>6. ctx[<<t, k>>].h \notin Cached /\ \A s \in Slots : login[s] # ctx[<<t, k>>].h
  BY <1>2, <1>4 DEF IInv, SessionExclusive
<1> QED
  BY <1>1, <1>2, <1>3, <1>4, <1>5, <1>6 DEF CloseEnabled

(* What is left once one context is closed and its session given up or
   cached: shared by the two ways a call ends without finalization. *)
LEMMA OthersStay ==
    ASSUME IInv, config' = config, NEW c \in OpenContexts,
           OpenContexts' = OpenContexts \ {c},
           \A d \in Contexts \ {c} : ctx'[d] = ctx[d],
           have_c_init' = have_c_init, count_c_init' = count_c_init, login' = login,
           live \ {ctx[c].h} \subseteq live', live' \subseteq live,
           Cached' \subseteq Cached \cup {ctx[c].h}, Cached' \subseteq live',
           \A z1, z2 \in Slots : z1 # z2 => cache'[z1] \cap cache'[z2] = {}
    PROVE  SessionExclusive' /\ SessionsLive' /\ LoginInv'
<1>1. have_c_init /\ c \in Contexts
  BY DEF IInv, SessionsLive, SameInit, OpenContexts
<1>2. \A d \in OpenContexts' : d \in OpenContexts /\ ctx'[d] = ctx[d] /\ ctx[d].h # ctx[c].h
  BY DEF IInv, SessionExclusive, OpenContexts
<1>3. \A s \in Slots : login[s] # ctx[c].h
  BY <1>1 DEF IInv, SessionExclusive
<1>4. SessionExclusive'
  <2>1. \A d, e \in OpenContexts' : ctx'[d].h = ctx'[e].h => d = e
    BY <1>2 DEF IInv, SessionExclusive
  <2>2. \A d \in OpenContexts' : /\ ctx'[d].h \notin Cached'
                                /\ \A s \in Slots : login'[s] # ctx'[d].h
    BY <1>1, <1>2 DEF IInv, SessionExclusive
  <2> QED
    BY <2>1, <2>2 DEF SessionExclusive
<1>5. SessionsLive'
  BY <1>1, <1>2 DEF IInv, SessionsLive, SameInit
<1>6. LoginInv'
  BY <1>1, <1>3 DEF IInv, LoginInv
<1> QED
  BY <1>4, <1>5, <1>6

(* A call ends with no need for recovery. *)
LEMMA CloseStep ==
    ASSUME IInv, config' = config, NEW t \in Threads, NEW k \in Kinds, NEW rv \in Results, Close(t, k, rv)
    PROVE  IInv'
<1> DEFINE c == <<t, k>>
<1>1. /\ c \in OpenContexts /\ c \in Contexts /\ mutex \in {t, NoThread} /\ pc[t] = "idle"
      /\ have_c_init /\ ctx[c].h \in live /\ ctx[c].slot \in Slots /\ ctx[c].h \notin Cached
  BY ClosingContext DEF Close
<1>2. /\ \A d \in Contexts \ {c} : ctx'[d] = ctx[d]
      /\ ctx'[c] = ClosedContext
      /\ ctx' \in [Contexts -> Context]
  <2>1. 0 \in Slots
    BY SessionAssumption DEF Slots
  <2>2. ClosedContext \in Context
    BY <2>1 DEF ClosedContext, Context
  <2> QED
    BY <1>1, <2>2 DEF IInv, TypeOK, Close
<1>3. OpenContexts' = OpenContexts \ {c} /\ ActivityExact'
  <2>1. TypeOK /\ ActivityExact /\ Leave(c) /\ ctx'[c].st # "open"
    BY <1>2 DEF IInv, Close, ClosedContext
  <2> HIDE DEF c
  <2> QED
    BY <1>1, <1>2, <2>1, LeaveCounts
<1>4. /\ live' \subseteq live /\ live \ {ctx[c].h} \subseteq live'
      /\ cache' \in [Slots -> SUBSET Handles]
      /\ Cached' \subseteq Cached \cup {ctx[c].h} /\ Cached' \subseteq live'
      /\ \A z1, z2 \in Slots : z1 # z2 => cache'[z1] \cap cache'[z2] = {}
  <2>1. CASE rv = "ok" /\ SessionCache
    <3>1. /\ live' = live
          /\ cache' \in [Slots -> SUBSET Handles]
          /\ \A z \in Slots : cache'[z] = IF z = ctx[c].slot THEN cache[z] \cup {ctx[c].h}
                                                            ELSE cache[z]
      BY <1>1, <2>1 DEF IInv, TypeOK, Close
    <3>2. \A z \in Slots : ctx[c].h \notin cache[z]
      BY <1>1 DEF Cached
    <3>3. \A z1, z2 \in Slots : z1 # z2 => cache[z1] \cap cache[z2] = {}
      BY DEF IInv, SessionExclusive
    <3>4. \A z1, z2 \in Slots : z1 # z2 => cache'[z1] \cap cache'[z2] = {}
      BY <3>1, <3>2, <3>3
    <3>5. Cached' \subseteq Cached \cup {ctx[c].h}
      BY <3>1 DEF Cached
    <3> QED
      BY <1>1, <3>1, <3>4, <3>5 DEF IInv, SessionsLive
  <2>2. CASE ~(rv = "ok" /\ SessionCache)
    <3>1. live' = live \ {ctx[c].h} /\ cache' = cache
      BY <2>2 DEF Close
    <3>2. Cached' = Cached
      BY <3>1 DEF Cached
    <3> QED
      BY <1>1, <3>1, <3>2 DEF IInv, TypeOK, SessionsLive, SessionExclusive
  <2> QED
    BY <2>1, <2>2
<1>5. SessionExclusive' /\ SessionsLive' /\ LoginInv'
  <2>1. have_c_init' = have_c_init /\ count_c_init' = count_c_init /\ login' = login
    BY DEF Close
  <2> HIDE DEF c
  <2> QED
    BY <1>1, <1>2, <1>3, <1>4, <2>1, OthersStay
<1>6. TypeOK'
  <2>1. activity' \in [Slots -> Nat] /\ total' \in Nat
    BY <1>1 DEF IInv, TypeOK, Close, Leave
  <2>3. mutex' = NoThread
    BY DEF Close
  <2>4. live' \subseteq Handles
    BY <1>4 DEF IInv, TypeOK
  <2> QED
    BY <1>2, <1>4, <2>1, <2>3, <2>4 DEF IInv, TypeOK, Close
<1>7. PlaceInv'
  <2>1. \A u \in Threads : pc[u] \notin {"init", "session"}
    BY <1>1, MutexExcludes
  <2>2. \A u \in Threads : u # t => <<u, cur[u]>> \in Contexts \ {c}
    BY DEF IInv, TypeOK, Contexts
  <2> QED
    BY <1>1, <1>2, <2>1, <2>2 DEF IInv, PlaceInv, Close
<1>8. ParentInv'
  BY DEF ParentInv, Close
<1> QED
  BY <1>3, <1>5, <1>6, <1>7, <1>8 DEF IInv

(* A call ends and starts a recovery. *)
LEMMA CloseRecoverStep ==
    ASSUME IInv, config' = config, NEW t \in Threads, NEW k \in Kinds, NEW rv \in Results, CloseRecover(t, k, rv)
    PROVE  IInv'
<1> DEFINE c == <<t, k>>
<1>1. /\ c \in OpenContexts /\ c \in Contexts /\ mutex \in {t, NoThread} /\ pc[t] = "idle"
      /\ have_c_init /\ SameInit(c) /\ ctx[c].h \in live /\ ctx[c].slot \in Slots
  BY ClosingContext DEF CloseRecover
<1>2. /\ \A d \in Contexts \ {c} : ctx'[d] = ctx[d]
      /\ ctx'[c].st = "closing"
      /\ ctx' \in [Contexts -> Context]
  <2>1. ctx[c] \in Context /\ rv \in {"ok", "error", "session", "device"}
    BY <1>1, SessionAssumption DEF IInv, TypeOK
  <2>2. [ctx[c] EXCEPT !.st = "closing", !.rv = rv] \in Context
    BY <2>1 DEF Context
  <2>3. [ctx[c] EXCEPT !.st = "closing", !.rv = rv].st = "closing"
    BY <2>1 DEF Context
  <2>4. ctx' = [ctx EXCEPT ![c] = [ctx[c] EXCEPT !.st = "closing", !.rv = rv]]
    BY DEF CloseRecover
  <2> QED
    BY <1>1, <2>2, <2>3, <2>4 DEF IInv, TypeOK
<1>3. OpenContexts' = OpenContexts \ {c} /\ ActivityExact'
  <2>1. TypeOK /\ ActivityExact /\ Leave(c) /\ ctx'[c].st # "open"
    BY <1>2 DEF IInv, CloseRecover
  <2> HIDE DEF c
  <2> QED
    BY <1>1, <1>2, <2>1, LeaveCounts
<1>4. /\ live' = live \ {ctx[c].h}
      /\ Cached' = {}
      /\ cache' = [s \in Slots |-> {}]
  BY <1>1 DEF CloseRecover, Cached
<1>5. SessionExclusive' /\ SessionsLive' /\ LoginInv'
  <2>1. have_c_init' = have_c_init /\ count_c_init' = count_c_init /\ login' = login
    BY DEF CloseRecover
  <2>2. \A z1, z2 \in Slots : cache'[z1] \cap cache'[z2] = {}
    BY <1>4
  <2> HIDE DEF c
  <2> QED
    BY <1>1, <1>2, <1>3, <1>4, <2>1, <2>2, OthersStay
<1>6. TypeOK'
  <2>1. activity' \in [Slots -> Nat] /\ total' \in Nat
    BY <1>1 DEF IInv, TypeOK, CloseRecover, Leave
  <2>2. live' \subseteq Handles
    BY <1>4 DEF IInv, TypeOK, CloseRecover
  <2>3. cache' \in [Slots -> SUBSET Handles]
    BY <1>4
  <2>4. pc' \in [Threads -> PCs] /\ cur' \in [Threads -> Kinds]
    BY DEF IInv, TypeOK, CloseRecover, Goto, PCs
  <2> QED
    BY <1>2, <2>1, <2>2, <2>3, <2>4 DEF IInv, TypeOK, CloseRecover
<1>7. PlaceInv'
  <2>1. \A u \in Threads : pc[u] \notin {"init", "session"}
    BY <1>1, MutexExcludes
  <2>2. \A u \in Threads : /\ pc'[u] = IF u = t THEN "drain" ELSE pc[u]
                          /\ cur'[u] = IF u = t THEN k ELSE cur[u]
    BY DEF IInv, TypeOK, CloseRecover, Goto
  <2>3. \A u \in Threads : u # t => <<u, cur[u]>> \in Contexts \ {c}
    BY DEF IInv, TypeOK, Contexts
  <2> QED
    BY <1>2, <2>1, <2>2, <2>3 DEF IInv, PlaceInv
<1>8. ParentInv'
  BY DEF ParentInv, CloseRecover
<1> QED
  BY <1>3, <1>5, <1>6, <1>7, <1>8 DEF IInv

(* One thread returns to "idle" out of the mutex, leaving no context open. *)
LEMMA ReturnStep ==
    ASSUME IInv, config' = config, NEW t \in Threads, mutex \in {t, NoThread}, mutex' = NoThread,
           pc' = [pc EXCEPT ![t] = "idle"], cur' = cur,
           NEW c \in Contexts, c[1] = t,
           ctx' = [ctx EXCEPT ![c] = ClosedContext] \/ ctx' = ctx,
           OpenContexts' = {},
           FinalizeEach => ~have_c_init'
    PROVE  /\ pc' \in [Threads -> PCs] /\ ctx' \in [Contexts -> Context]
           /\ PlaceInv' /\ ParentInv'
<1>1. ClosedContext \in Context
  <2>1. 0 \in Slots
    BY SessionAssumption DEF Slots
  <2> QED
    BY <2>1 DEF ClosedContext, Context
<1>2. /\ pc' \in [Threads -> PCs]
      /\ \A u \in Threads : pc'[u] = IF u = t THEN "idle" ELSE pc[u]
  BY DEF IInv, TypeOK, PCs
<1>3. /\ ctx' \in [Contexts -> Context]
      /\ \A d \in Contexts \ {c} : ctx'[d] = ctx[d]
  BY <1>1 DEF IInv, TypeOK
<1>4. \A u \in Threads : u # t => <<u, cur[u]>> \in Contexts \ {c}
  BY DEF IInv, TypeOK, Contexts
<1>5. \A u \in Threads : pc'[u] \notin {"init", "session"}
  BY <1>2, MutexExcludes
<1>6. PlaceInv'
  BY <1>2, <1>3, <1>4, <1>5 DEF IInv, PlaceInv
<1>7. ParentInv'
  BY <1>2, <1>5 DEF IInv, ParentInv
<1> QED
  BY <1>2, <1>3, <1>6, <1>7

(* A call of a parent process ends. *)
LEMMA CloseFinalizeStep ==
    ASSUME IInv, config' = config, NEW t \in Threads, NEW k \in Kinds, CloseFinalize(t, k)
    PROVE  IInv'
<1> DEFINE c == <<t, k>>
<1>1. /\ c \in OpenContexts /\ c \in Contexts /\ mutex \in {t, NoThread}
  BY ClosingContext DEF CloseFinalize
<1>2. OpenContexts = {c}
  BY <1>1 DEF IInv, ParentInv, CloseFinalize
<1>3. OpenContexts' = {}
  BY <1>1, <1>2 DEF IInv, TypeOK, CloseFinalize, OpenContexts, Open, ClosedContext
<1>4. Fini({ctx[c].h})
  BY DEF CloseFinalize
<1>5. /\ pc' \in [Threads -> PCs] /\ ctx' \in [Contexts -> Context]
      /\ PlaceInv' /\ ParentInv'
  <2>1. /\ mutex' = NoThread /\ cur' = cur /\ c[1] = t
        /\ ctx' = [ctx EXCEPT ![c] = ClosedContext]
        /\ pc' = [pc EXCEPT ![t] = "idle"]
    BY DEF CloseFinalize, CloseEnabled, IInv, TypeOK
  <2>2. ~have_c_init'
    BY <1>4 DEF Fini
  <2> HIDE DEF c
  <2> QED
    BY <1>1, <1>3, <2>1, <2>2, ReturnStep
<1>6. TypeOK'
  BY <1>3, <1>4, <1>5, FiniSafe DEF IInv, TypeOK, CloseFinalize
<1> QED
  BY <1>3, <1>4, <1>5, <1>6, FiniSafe DEF IInv

(* The control command finalizes: no call is inside. *)
LEMMA SetFinalizePendingStep ==
    ASSUME IInv, config' = config, NEW t \in Threads, SetFinalizePending(t)
    PROVE  IInv'
<1>1. OpenContexts = {} /\ OpenContexts' = {}
  BY ZeroActivity DEF IInv, SetFinalizePending, OpenContexts, Open
<1>2. Fini({})
  BY DEF SetFinalizePending
<1>3. /\ pc' \in [Threads -> PCs] /\ ctx' \in [Contexts -> Context]
      /\ PlaceInv' /\ ParentInv'
  <2>1. <<t, "op">> \in Contexts
    BY DEF Contexts, Kinds
  <2>2. <<t, "op">>[1] = t
    OBVIOUS
  <2>3. /\ mutex = NoThread /\ mutex' = NoThread /\ cur' = cur /\ ctx' = ctx
        /\ pc' = [pc EXCEPT ![t] = "idle"]
    BY DEF SetFinalizePending, Goto
  <2>4. ~have_c_init'
    BY <1>2 DEF Fini
  <2> QED
    BY <1>1, <2>1, <2>2, <2>3, <2>4, ReturnStep
<1>4. TypeOK'
  BY <1>1, <1>2, <1>3, FiniSafe DEF IInv, TypeOK, SetFinalizePending
<1> QED
  BY <1>1, <1>2, <1>3, <1>4, FiniSafe DEF IInv

(* The end of a recovery: it begins with no context open. *)
LEMMA DrainedSafe ==
    ASSUME IInv, config' = config, NEW t \in Threads, Drained(t)
    PROVE  /\ ~FinalizeEach /\ OpenContexts = {} /\ OpenContexts' = {}
           /\ mutex' = NoThread /\ cur' = cur /\ flag_recovery' = FALSE
           /\ pc' \in [Threads -> PCs] /\ ctx' \in [Contexts -> Context]
           /\ PlaceInv' /\ ParentInv'
<1> DEFINE c == <<t, cur[t]>>
<1>1. ~FinalizeEach
  BY DEF IInv, ParentInv, Drained
<1>2. OpenContexts = {}
  BY ZeroActivity DEF IInv, Drained
<1>3. c \in Contexts /\ c[1] = t
  BY DEF IInv, TypeOK, Contexts
<1>4. /\ mutex \in {t, NoThread} /\ mutex' = NoThread /\ cur' = cur /\ flag_recovery' = FALSE
      /\ ctx' = [ctx EXCEPT ![c] = ClosedContext]
      /\ pc' = [pc EXCEPT ![t] = "idle"]
  BY DEF Drained, Goto
<1>5. OpenContexts' = {}
  BY <1>2, <1>3, <1>4 DEF IInv, TypeOK, OpenContexts, Open, ClosedContext
<1> HIDE DEF c
<1> QED
  BY <1>1, <1>2, <1>3, <1>4, <1>5, ReturnStep

(* A recovery that leaves the library initialized, or not, as it was. *)
LEMMA RecoveredSafe ==
    ASSUME IInv, config' = config, NEW t \in Threads, Drained(t),
           UNCHANGED <<have_c_init, count_c_init, poolvars>>,
           live \subseteq live', live' \subseteq Handles,
           login' \in LoginSessions, pw' \in [Slots -> 0 .. 2],
           ~have_c_init \/ ~LoginInit => live' = live /\ login' = login,
           \A s \in Slots : login'[s] \in (live' \ live) \cup {login[s], NoHandle}
    PROVE  IInv'
<1>1. /\ OpenContexts = {} /\ OpenContexts' = {}
      /\ mutex' = NoThread /\ cur' = cur /\ flag_recovery' = FALSE
      /\ pc' \in [Threads -> PCs] /\ ctx' \in [Contexts -> Context]
      /\ PlaceInv' /\ ParentInv'
  BY DrainedSafe
<1>2. TypeOK'
  BY <1>1 DEF IInv, TypeOK, poolvars
<1>3. Cached' = Cached /\ cache' = cache
  BY DEF Cached, poolvars
<1>4. ActivityExact'
  <2>1. \A s : OpenOn(s) = {} /\ OpenOn(s)' = {}
    BY <1>1 DEF OpenOn
  <2> QED
    BY <1>1, <2>1 DEF IInv, ActivityExact, poolvars
<1>5. SessionExclusive' /\ SessionsLive'
  BY <1>1, <1>3 DEF IInv, SessionExclusive, SessionsLive
<1>6. LoginInv'
  <2>1. ~LoginInit => \A s \in Slots : login'[s] = NoHandle
    BY DEF IInv, LoginInv
  <2>2. Cached \subseteq live
    BY DEF IInv, SessionsLive
  <2>3. ASSUME have_c_init, NEW s \in Slots
        PROVE  login'[s] \in live' \cup {NoHandle} /\ login'[s] \notin Cached
    <3>1. login[s] \in live \cup {NoHandle} /\ login[s] \notin Cached
      BY <2>3 DEF IInv, LoginInv
    <3>2. NoHandle \notin Cached
      BY <2>2, SessionAssumption DEF IInv, TypeOK
    <3> QED
      BY <2>2, <3>1, <3>2
  <2> QED
    BY <1>3, <2>1, <2>3 DEF LoginInv
<1> QED
  BY <1>1, <1>2, <1>4, <1>5, <1>6 DEF IInv

(* Recovery is switched off. *)
LEMMA RecoverNotStep ==
    ASSUME IInv, config' = config, NEW t \in Threads, RecoverNot(t)
    PROVE  IInv'
<1>1. /\ live' = live /\ login' = login /\ pw' = pw
      /\ UNCHANGED <<have_c_init, count_c_init, poolvars>> /\ Drained(t)
  BY DEF RecoverNot, libvars
<1>2. live' \subseteq Handles /\ login' \in LoginSessions /\ pw' \in [Slots -> 0 .. 2]
  BY <1>1 DEF IInv, TypeOK
<1> QED
  BY <1>1, <1>2, RecoveredSafe

(* Recovery by a new login. *)
LEMMA RecoverLoginStep ==
    ASSUME IInv, config' = config, NEW t \in Threads, RecoverLogin(t)
    PROVE  IInv'
<1>1. /\ Drained(t) /\ have_c_init /\ LoginOk(live) /\ pw' = pw
      /\ UNCHANGED <<have_c_init, count_c_init, poolvars>>
  BY DEF RecoverLogin, LoginOk
<1>2. /\ live \subseteq live' /\ live' \subseteq Handles
      /\ login' \in LoginSessions /\ pw' \in [Slots -> 0 .. 2]
      /\ ~LoginInit => live' = live /\ login' = login
      /\ \A s \in Slots : login'[s] \in (live' \ live) \cup {login[s], NoHandle}
  <2>1. CASE LoginInit
    <3>1. PICK f \in [Slots -> Handles \ live] :
             login' = f /\ live' = live \cup {f[s] : s \in Slots}
      BY <1>1, <2>1 DEF LoginOk
    <3> QED
      BY <1>1, <2>1, <3>1 DEF IInv, TypeOK, LoginSessions
  <2>2. CASE ~LoginInit
    BY <1>1, <2>2 DEF IInv, TypeOK, LoginOk
  <2> QED
    BY <2>1, <2>2
<1> QED
  BY <1>1, <1>2, RecoveredSafe

(* Recovery whose login fails. *)
LEMMA RecoverGivesUpStep ==
    ASSUME IInv, config' = config, NEW t \in Threads, RecoverGivesUp(t)
    PROVE  IInv'
<1>1. /\ Drained(t)
      /\ UNCHANGED <<have_c_init, count_c_init, poolvars>>
  BY DEF RecoverGivesUp
<1>2. CASE ~have_c_init /\ UNCHANGED <<live, login, pw>>
  <2>1. live' \subseteq Handles /\ login' \in LoginSessions /\ pw' \in [Slots -> 0 .. 2]
    BY <1>2 DEF IInv, TypeOK
  <2> QED
    BY <1>1, <1>2, <2>1, RecoveredSafe
<1>3. ASSUME have_c_init, NEW k \in Slots, NEW f \in LoginSessions, LoginStopsAt(live, k, f),
             live' = live \cup {f[s] : s \in 0 .. k - 1}
      PROVE  IInv'
  <2>1. live \in SUBSET Handles /\ TypeOK
    BY DEF IInv, TypeOK
  <2>2. /\ LoginInit /\ login' = f /\ pw' \in [Slots -> 0 .. 2]
        /\ \A s \in 0 .. k - 1 : f[s] \in Handles \ live
        /\ \A s \in Slots : s >= k => f[s] \in {login[s], NoHandle}
    <3>1. k \in Slots /\ f \in LoginSessions /\ LoginStopsAt(live, k, f)
      BY <1>3
    <3>2. LoginInit /\ login' = f /\ pw' \in [Slots -> 0 .. 2]
      BY <2>1, <3>1, LoginStops
    <3>3. \A s \in 0 .. k - 1 : f[s] \in Handles \ live
      BY <2>1, <3>1, LoginStops
    <3>4. \A s \in Slots : s >= k => f[s] \in {login[s], NoHandle}
      BY <2>1, <3>1, LoginStops
    <3> QED
      BY <3>2, <3>3, <3>4
  <2>3. live \subseteq live' /\ live' \subseteq Handles
    BY <1>3, <2>1, <2>2
  <2>4. \A s \in Slots : s >= k \/ s \in 0 .. k - 1
    BY SessionAssumption DEF Slots
  <2>5. \A s \in Slots : login'[s] \in (live' \ live) \cup {login[s], NoHandle}
    BY <1>3, <2>2, <2>4
  <2> QED
    BY <1>1, <1>3, <2>2, <2>3, <2>5, RecoveredSafe
<1> QED
  BY <1>2, <1>3 DEF RecoverGivesUp

(* Recovery by C_Finalize. *)
LEMMA RecoverFinalizeStep ==
    ASSUME IInv, config' = config, NEW t \in Threads, RecoverFinalize(t)
    PROVE  IInv'
<1>1. /\ OpenContexts = {} /\ OpenContexts' = {}
      /\ mutex' = NoThread /\ cur' = cur /\ flag_recovery' = FALSE
      /\ pc' \in [Threads -> PCs] /\ ctx' \in [Contexts -> Context]
      /\ PlaceInv' /\ ParentInv'
  BY DrainedSafe DEF RecoverFinalize
<1>2. /\ live' \subseteq live /\ login' \in LoginSessions /\ pw' \in [Slots -> 0 .. 2]
      /\ ~SkipInit => live' = {}
      /\ \A s \in Slots : login'[s] \in {login[s], NoHandle}
  <2>1. CASE ~have_c_init /\ UNCHANGED <<live, login, pw>>
    BY <2>1 DEF IInv, TypeOK, SessionsLive
  <2>2. ASSUME NEW k \in Slots,
               pw' = pw \/ (pw[k] = 1 /\ pw' = [pw EXCEPT ![k] = 2]),
               SessionsAfterFini({login[s] : s \in {z \in Slots : z >= k /\ pw'[z] = 1}}),
               login' = [s \in Slots |-> IF pw[s] = 1 THEN NoHandle ELSE login[s]]
        PROVE  /\ live' \subseteq live /\ login' \in LoginSessions /\ pw' \in [Slots -> 0 .. 2]
               /\ ~SkipInit => live' = {}
               /\ \A s \in Slots : login'[s] \in {login[s], NoHandle}
    <3>1. live' \subseteq live /\ (~SkipInit => live' = {})
      BY <2>2 DEF SessionsAfterFini
    <3>2. pw' \in [Slots -> 0 .. 2]
      BY <2>2 DEF IInv, TypeOK
    <3>3. login' \in LoginSessions /\ \A s \in Slots : login'[s] \in {login[s], NoHandle}
      BY <2>2 DEF IInv, TypeOK, LoginSessions
    <3> QED
      BY <3>1, <3>2, <3>3
  <2> QED
    BY <2>1, <2>2 DEF RecoverFinalize
<1>3. Cached' = {}
  BY DEF RecoverFinalize, Cached
<1>4. TypeOK'
  <2>1. /\ cache' \in [Slots -> SUBSET Handles] /\ activity' \in [Slots -> Nat]
        /\ total' \in Nat
        /\ have_c_init' \in BOOLEAN /\ count_c_init' = count_c_init
    BY DEF RecoverFinalize
  <2> QED
    BY <1>1, <1>2, <2>1 DEF IInv, TypeOK
<1>5. ActivityExact'
  BY <1>1, ZeroCounts DEF RecoverFinalize
<1>6. SessionExclusive' /\ SessionsLive'
  BY <1>1, <1>2, <1>3 DEF SessionExclusive, SessionsLive, RecoverFinalize
<1>7. LoginInv'
  BY <1>2 DEF IInv, LoginInv, RecoverFinalize
<1> QED
  BY <1>1, <1>4, <1>5, <1>6, <1>7 DEF IInv

-----------------------------------------------------------------------------
(* Every step of every thread preserves the invariant. *)
LEMMA NextIInv == IInv /\ [Next]_vars => IInv'
<1> SUFFICES ASSUME IInv, [Next]_vars PROVE IInv'
  OBVIOUS
<1>1. ASSUME NEW t \in Threads, Asking(t) PROVE IInv'
  BY <1>1, StartOpenStep, StartFinalizePendingStep, SetFinalizePendingStep DEF Asking
<1>2. ASSUME NEW t \in Threads, Opening(t) PROVE IInv'
  BY <1>2, EnterOpenStep, InitP11Step, InitFailsStep, InitLateFailsStep,
     GetSessionStep, GetSessionFailsStep DEF Opening
<1>3. ASSUME NEW t \in Threads, Closing(t) PROVE IInv'
  BY <1>3, CloseStep, CloseRecoverStep, CloseFinalizeStep DEF Closing
<1>4. ASSUME NEW t \in Threads, Recovering(t) PROVE IInv'
  BY <1>4, DrainSleepStep, RecoverNotStep, RecoverLoginStep, RecoverGivesUpStep,
     RecoverFinalizeStep DEF Recovering
<1>6. CASE UNCHANGED vars
  <2>1. config' = config /\ UNCHANGED <<mutex, pc, cur, ctx, libvars, poolvars, flag_recovery>>
    BY <1>6 DEF vars
  <2>2. TypeOK' /\ PlaceInv'
    BY <2>1 DEF IInv, TypeOK, PlaceInv, libvars, poolvars
  <2>3. FinalizeEach => /\ mutex' = NoThread => ~have_c_init
                        /\ \A u \in Threads : pc'[u] # "drain"
                        /\ \A u \in Threads : pc'[u] \in {"init", "session"} => OpenContexts = {}
    BY <2>1 DEF IInv, ParentInv
  <2> QED
    BY <2>1, <2>2, <2>3, QuietStep
<1> QED
  BY <1>1, <1>2, <1>3, <1>4, <1>6 DEF Next

(* The invariant holds of every run: whatever the threads do, in whatever
   order, with any number of sessions and any configuration. *)
THEOREM SessionSafety == Spec => []IInv
<1>1. Init => IInv
  BY InitIInv
<1>2. IInv /\ [Next]_vars => IInv'
  BY NextIInv
<1> QED
  BY <1>1, <1>2, PTL DEF Spec

(* Every variable of the session layer keeps its type; count_c_init never
   becomes zero, however often the library is initialized again. *)
THEOREM TypeCorrect == Spec => []TypeOK
<1>1. IInv => TypeOK
  BY DEF IInv
<1> QED
  BY <1>1, SessionSafety, PTL

(* The counters that luna_close_context_w_err and SET_FINALIZE_PENDING test
   are exactly the contexts that are open. *)
THEOREM CountersAreExact == Spec => []ActivityExact
<1>1. IInv => ActivityExact
  BY DEF IInv
<1> QED
  BY <1>1, SessionSafety, PTL

(* luna_open_context_ndx never gives a session to two calls. *)
THEOREM SessionsAreExclusive == Spec => []SessionExclusive
<1>1. IInv => SessionExclusive
  BY DEF IInv
<1> QED
  BY <1>1, SessionSafety, PTL

(* No recovery and no control command finalizes the library under a call, and
   no session of a finalized library waits in the cache. *)
THEOREM SessionsAreLive == Spec => []SessionsLive
<1>1. IInv => SessionsLive
  BY DEF IInv
<1> QED
  BY <1>1, SessionSafety, PTL

(* A parent process has no connection to the token between its calls, so a
   child it forks inherits none. *)
THEOREM ParentForksClean == Spec => []ParentKeepsNothing
<1>1. IInv => ParentKeepsNothing
  BY DEF IInv, ParentInv, SessionsLive, ParentKeepsNothing
<1> QED
  BY <1>1, SessionSafety, PTL

-----------------------------------------------------------------------------
(* When C_Initialize and C_Finalize are this code's own, a finalized library has no
   session that could be lost. *)
LEMMA FinalizedLosesNothing ==
    ASSUME IInv, ~SkipInit, NEW own, Fini(own)
    PROVE  Lost' = {}
<1>1. live' = {}
  BY DEF Fini, SessionsAfterFini, IInv, SessionsLive
<1> QED
  BY <1>1 DEF Lost

(* A finalization with no call inside loses no session of a call. *)
LEMMA FiniKeeps ==
    ASSUME IInv, NEW own, Fini(own), Held \cap live' = {}
    PROVE  /\ Held \cap Lost' = {}
           /\ \/ Lost' \subseteq Lost
              \/ SkipInit /\ ~StaysInitialized
<1>1. ~StaysInitialized
  BY DEF Fini, StaysInitialized
<1> QED
  BY <1>1, FinalizedLosesNothing DEF Lost

(* Initializing the library loses none, whether it succeeds or not: it starts without
   sessions and those it opens are the login sessions. *)
LEMMA InitLosesNothing ==
    ASSUME IInv, ~SkipInit, NEW t \in Threads, InitP11(t) \/ InitFails(t) \/ InitLateFails(t)
    PROVE  Lost' = {}
<1>1. live = {}
  BY DEF IInv, PlaceInv, SessionsLive, InitP11, InitFails, InitLateFails
<1>2. CASE InitP11(t)
  <2>1. live' \subseteq {login'[s] : s \in Slots}
    <3>1. CASE LoginInit
      <4>1. PICK f \in [Slots -> Handles \ Inherited] :
                login' = f /\ live' = Inherited \cup {f[s] : s \in Slots}
        BY <1>2, <3>1 DEF InitP11, LoginOk
      <4> QED
        BY <4>1 DEF Inherited
    <3>2. CASE ~LoginInit
      BY <1>2, <3>2 DEF InitP11, LoginOk, Inherited
    <3> QED
      BY <3>1, <3>2
  <2> QED
    BY <2>1 DEF Lost
<1>3. CASE InitFails(t)
  BY <1>1, <1>3 DEF InitFails, Lost, libvars
<1>4. CASE InitLateFails(t)
  BY <1>4 DEF InitLateFails, Inherited, Lost
<1> QED
  BY <1>2, <1>3, <1>4

(* A call that gets its session holds it. *)
LEMMA GetSessionKeeps ==
    ASSUME IInv, NEW t \in Threads, NEW s \in Slots, NEW h \in Handles, GetSession(t, s, h)
    PROVE  Lost' \subseteq Lost
<1> DEFINE c == <<t, cur[t]>>
           r == [st |-> "open", h |-> h, slot |-> s, gen |-> count_c_init, rv |-> "ok"]
<1>1. c \in Contexts /\ ctx[c].st = "closed"
  BY DEF IInv, TypeOK, PlaceInv, GetSession, Contexts
<1>2. \A d \in Contexts : ctx'[d] = IF d = c THEN r ELSE ctx[d]
  BY DEF IInv, TypeOK, GetSession
<1>3. c \in OpenContexts' /\ \A d \in OpenContexts : d \in OpenContexts' /\ ctx'[d] = ctx[d]
  BY <1>1, <1>2 DEF OpenContexts, Open
<1>4. Held \cup {h} \subseteq Held'
  BY <1>1, <1>2, <1>3 DEF Held
<1>5. Cached \subseteq Cached' \cup {h} /\ live' \subseteq live \cup {h} /\ login' = login
  <2>1. \A z \in Slots : cache[z] \subseteq cache'[z] \cup {h}
    BY DEF IInv, TypeOK, GetSession
  <2> QED
    BY <2>1 DEF Cached, GetSession
<1> QED
  BY <1>4, <1>5 DEF Lost

(* A call that ends without a recovery gives its session to the cache or closes it. *)
LEMMA CloseKeeps ==
    ASSUME IInv, NEW t \in Threads, NEW k \in Kinds, NEW rv \in Results, Close(t, k, rv)
    PROVE  Lost' \subseteq Lost
<1> DEFINE c == <<t, k>>
<1>1. c \in Contexts /\ ctx[c].slot \in Slots
  BY ClosingContext DEF Close
<1>2. ctx' = [ctx EXCEPT ![c] = ClosedContext] /\ login' = login
  BY DEF Close
<1>3. \A d \in Contexts : d # c => ctx'[d] = ctx[d]
  BY <1>2 DEF IInv, TypeOK
<1>4. Held \subseteq Held' \cup {ctx[c].h}
  BY <1>3 DEF Held, OpenContexts, Open
<1>5. /\ Cached \subseteq Cached' /\ live' \subseteq live
      /\ ctx[c].h \in Cached' \/ ctx[c].h \notin live'
  <2>1. CASE rv = "ok" /\ SessionCache
    <3>1. live' = live /\ \A z \in Slots : cache'[z] = IF z = ctx[c].slot
                                                    THEN cache[z] \cup {ctx[c].h} ELSE cache[z]
      BY <2>1 DEF IInv, TypeOK, Close
    <3>2. \A z \in Slots : cache[z] \subseteq cache'[z]
      BY <3>1
    <3>3. ctx[c].h \in cache'[ctx[c].slot]
      BY <1>1, <3>1
    <3>4. Cached \subseteq Cached'
      BY <3>2 DEF Cached
    <3>5. ctx[c].h \in Cached'
      BY <1>1, <3>3 DEF Cached
    <3> QED
      BY <3>1, <3>4, <3>5
  <2>2. CASE ~(rv = "ok" /\ SessionCache)
    <3>1. live' = live \ {ctx[c].h} /\ cache' = cache
      BY <2>2 DEF Close
    <3> QED
      BY <3>1 DEF Cached
  <2> QED
    BY <2>1, <2>2
<1> QED
  BY <1>2, <1>4, <1>5 DEF Lost

(* The call that starts a recovery closes its session; the other calls keep theirs. *)
LEMMA RecoverKeepsHeld ==
    ASSUME IInv, NEW t \in Threads, NEW k \in Kinds, NEW rv \in Results, CloseRecover(t, k, rv)
    PROVE  Held \cap Lost' = {} /\ Draining' # Draining
<1> DEFINE c == <<t, k>>
<1>1. c \in OpenContexts /\ SameInit(c)
  BY ClosingContext DEF CloseRecover
<1>2. live' = live \ {ctx[c].h} /\ \A d \in Contexts : d # c => ctx'[d] = ctx[d]
  BY <1>1 DEF CloseRecover, IInv, TypeOK
<1>3. Held \subseteq Held' \cup {ctx[c].h}
  BY <1>2 DEF Held, OpenContexts, Open
<1>4. pc[t] = "idle" /\ pc' = [pc EXCEPT ![t] = "drain"]
  BY DEF CloseRecover, CloseEnabled, Goto
<1>5. t \notin Draining /\ t \in Draining'
  BY <1>4 DEF Draining, IInv, TypeOK
<1> QED
  BY <1>2, <1>3, <1>5 DEF Lost

(* The call of a parent process ends with its session closed. *)
LEMMA ParentHoldsOne ==
    ASSUME IInv, NEW t \in Threads, NEW k \in Kinds, CloseFinalize(t, k)
    PROVE  Held \cap live' = {}
<1> DEFINE c == <<t, k>>
<1>1. OpenContexts = {c} /\ have_c_init
  BY ClosingContext DEF IInv, ParentInv, CloseFinalize
<1>2. Held = {ctx[c].h}
  BY <1>1 DEF Held
<1>3. ctx[c].h \notin live'
  BY <1>1 DEF CloseFinalize, Fini, SessionsAfterFini
<1> QED
  BY <1>2, <1>3

(* No step loses a session that a call holds, whatever fails and whoever owns the library.
   Any other session that is open in the library stays in the cache or a login session
   except at the start and end of a recovery and, where the application owns C_Initialize
   and C_Finalize, when this code initializes or finalizes. *)
THEOREM SessionsAreKept == Spec => SessionsKept
<1> DEFINE Kept == /\ Held \cap Lost' = {}
                   /\ \/ Lost' \subseteq Lost
                      \/ Draining' # Draining
                      \/ SkipInit /\ ~StaysInitialized
<1>1. IInv /\ [Next]_vars => [Kept]_vars
  <2> SUFFICES ASSUME IInv, Next
               PROVE  Kept
    OBVIOUS
  <2>1. PICK t \in Threads : Asking(t) \/ Opening(t) \/ Closing(t) \/ Recovering(t)
    BY DEF Next
  <2>2. Lost' \subseteq Lost => Kept
    BY DEF Lost
  <2>3. ASSUME UNCHANGED <<ctx, libvars, poolvars>>
        PROVE  Kept
    BY <2>2, <2>3 DEF Lost, Held, Cached, OpenContexts, Open, libvars, poolvars
  <2>4. OpenContexts = {} => Held = {}
    BY DEF Held
  <2>5. CASE Asking(t)
    <3>1. CASE (\E k \in Kinds : StartOpen(t, k)) \/ StartFinalizePending(t)
      BY <2>3, <3>1 DEF StartOpen, StartFinalizePending
    <3>2. CASE SetFinalizePending(t)
      BY <2>4, <3>2, ZeroActivity, FiniKeeps DEF SetFinalizePending, IInv
    <3> QED
      BY <2>5, <3>1, <3>2 DEF Asking
  <2>6. CASE Opening(t)
    <3>1. CASE EnterOpen(t)
      BY <2>3, <3>1 DEF EnterOpen
    <3>2. CASE InitP11(t) \/ InitFails(t) \/ InitLateFails(t)
      <4>1. ~have_c_init
        BY <3>2 DEF IInv, PlaceInv, InitP11, InitFails, InitLateFails
      <4>2. Held = {} /\ ~StaysInitialized
        BY <2>4, <4>1, NoLibraryNoContext DEF StaysInitialized
      <4> QED
        BY <2>2, <3>2, <4>2, InitLosesNothing
    <3>3. CASE \E s \in Slots, h \in Handles : GetSession(t, s, h)
      BY <2>2, <3>3, GetSessionKeeps
    <3>4. ASSUME NEW s \in Slots, GetSessionFails(t, s)
          PROVE  Kept
      <4>1. CASE FinalizeEach
        <5>1. OpenContexts = {} /\ Fini({})
          BY <3>4, <4>1 DEF IInv, ParentInv, GetSessionFails
        <5> QED
          BY <2>4, <5>1, FiniKeeps
      <4>2. CASE ~FinalizeEach
        BY <2>3, <3>4, <4>2 DEF GetSessionFails
      <4> QED
        BY <4>1, <4>2
    <3> QED
      BY <2>6, <3>1, <3>2, <3>3, <3>4 DEF Opening
  <2>7. CASE Closing(t)
    <3>1. ASSUME NEW k \in Kinds, CloseFinalize(t, k)
          PROVE  Kept
      BY <3>1, ParentHoldsOne, FiniKeeps DEF CloseFinalize
    <3> QED
      BY <2>2, <2>7, <3>1, RecoverKeepsHeld, CloseKeeps DEF Closing
  <2>8. CASE Recovering(t)
    <3>1. ASSUME Drained(t)
          PROVE  Kept
      <4>1. Held = {}
        BY <2>4, <3>1, ZeroActivity DEF Drained, IInv
      <4>2. t \in Draining /\ t \notin Draining'
        BY <3>1 DEF Drained, Goto, Draining, IInv, TypeOK
      <4> QED
        BY <4>1, <4>2
    <3>2. CASE DrainSleep(t)
      BY <2>3, <3>2 DEF DrainSleep
    <3> QED
      BY <2>8, <3>1, <3>2
         DEF Recovering, RecoverNot, RecoverLogin, RecoverGivesUp, RecoverFinalize
  <2> QED
    BY <2>1, <2>5, <2>6, <2>7, <2>8
<1> QED
  BY SessionSafety, <1>1, PTL DEF Spec, SessionsKept
=============================================================================
