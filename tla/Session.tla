------------------------------- MODULE Session -------------------------------
(***************************************************************************)
(* The session layer of e_gem.c: deferred C_Initialize, the login session  *)
(* and the session cache of each slot, luna_open_context_ndx,              *)
(* luna_close_context_w_err with its recovery, luna_fini_p11 and the       *)
(* control command SET_FINALIZE_PENDING, in one process whose threads run  *)
(* calls concurrently.                                                     *)
(*                                                                         *)
(* Everything here happens under luna_mutex_enter/exit, so a step is a     *)
(* piece of a critical section; mutex says who holds it between two steps. *)
(* The code releases it in the middle of a call in two places only, the    *)
(* sleep of an opener during a recovery and the sleep of a closer that     *)
(* waits for the other threads to leave.                                   *)
(*                                                                         *)
(* A thread uses up to two session contexts at a time: the one of the      *)
(* operation it performs ("op") and, around several operations, the one a  *)
(* store iterator keeps (LUNA_FIND_CTX_new/_free, "store").                *)
(***************************************************************************)
EXTENDS Naturals, FiniteSets

CONSTANTS
    Threads,
    Handles,          \* the session handles the library can give out
    NumSlots,         \* 1, or 2 when Engine2Init is set (LUNA_MAX_SLOT)
    CountModulus,     \* luna_count_c_init is unsigned: 2^32
    Configs,          \* the settings to look at: a set of Config
    MultiThread,      \* DisableMultiThread = 0
    SessionCache,     \* DisableSessionCache = 0
    LoginInit,        \* EnableLoginInit
    RecoveryLevel,    \* RecoveryLevel of the configuration
    UseStore,         \* the application opens pkcs11: stores
    Results,          \* what a call on the token may return
    NoThread, NoHandle

Slots == 0 .. NumSlots - 1
Kinds == {"op", "store"}

(* How C_Finalize is used: finalizeEach is flagFinalizePending, a parent process with
   DisableCheckFinalize = 0, which finalizes after each call; skipInit is
   skip_c_initialize, the application does C_Initialize and C_Finalize itself. *)
Config == [finalizeEach : BOOLEAN, skipInit : BOOLEAN]

ASSUME SessionAssumption ==
    /\ IsFiniteSet(Threads)
    /\ NumSlots \in {1, 2}
    /\ CountModulus \in Nat /\ CountModulus > 1
    /\ {MultiThread, SessionCache, LoginInit, UseStore} \subseteq BOOLEAN
    /\ Configs \subseteq Config
    /\ RecoveryLevel \in 0 .. 2
    /\ Results \subseteq {"ok", "error", "session", "device"}
    /\ NoThread \notin Threads
    /\ NoHandle \notin Handles

VARIABLES
    config,           \* the settings, read once and never changed
    mutex,            \* the thread inside luna_mutex_enter/exit, between steps
    pc,               \* where each thread is
    cur,              \* the context it is opening or closing
    ctx,              \* ctx[<<t, k>>]: luna_context_t k of thread t
    have_c_init,      \* luna_have_c_init
    count_c_init,     \* luna_count_c_init
    live,             \* the sessions open inside the cryptoki library
    cache,            \* luna_ckses, one per slot
    login,            \* g_pw_per_slot[].hSession
    pw,               \* g_pw_per_slot[].boolInit
    activity,         \* g_luna_per_slot[].g_count_activity
    total,            \* g_count_activity
    flag_recovery     \* luna_flag_recovery

Contexts == Threads \X Kinds

Context ==
    [st : {"closed", "open", "closing"}, h : Handles \cup {NoHandle},
     slot : Slots, gen : Nat, rv : {"ok", "error", "session", "device"}]

ClosedContext == [st |-> "closed", h |-> NoHandle, slot |-> 0, gen |-> 0, rv |-> "ok"]

libvars == <<have_c_init, count_c_init, live, login, pw>>
poolvars == <<cache, activity, total>>
vars == <<config, mutex, pc, cur, ctx, libvars, poolvars, flag_recovery>>

FinalizeEach == config.finalizeEach
SkipInit == config.skipInit

Init ==
    /\ config \in Configs
    /\ mutex = NoThread
    /\ pc = [t \in Threads |-> "idle"]
    /\ cur = [t \in Threads |-> "op"]
    /\ ctx = [c \in Contexts |-> ClosedContext]
    /\ have_c_init = FALSE
    /\ count_c_init = 1
    /\ live = {}
    /\ cache = [s \in Slots |-> {}]
    /\ login = [s \in Slots |-> NoHandle]
    /\ pw = [s \in Slots |-> IF LoginInit THEN 1 ELSE 0]
    /\ activity = [s \in Slots |-> 0]
    /\ total = 0
    /\ flag_recovery = FALSE

Open(c) == ctx[c].st = "open"
OpenContexts == {c \in Contexts : Open(c)}
OpenOn(s) == {c \in OpenContexts : ctx[c].slot = s}
Held == {ctx[c].h : c \in OpenContexts}
Cached == UNION {cache[s] : s \in Slots}

(* luna_rv_severity: which results make the session layer recover. *)
Severity(rv) == CASE rv = "device" -> 2 [] rv = "session" -> 1 [] OTHER -> 0

(* A thread keeps the mutex from open to close in these two modes. *)
HoldsMutex == FinalizeEach \/ ~MultiThread

(* Mutant: the count wraps through zero. *)
NextCount_ThroughZero(n) == (n + 1) % CountModulus

(* luna_count_c_init++; "the count is never equal to zero". *)
NextCount(n) == IF (n + 1) % CountModulus = 0 THEN 1 ELSE (n + 1) % CountModulus

Goto(t, p) == pc' = [pc EXCEPT ![t] = p]

-----------------------------------------------------------------------------
(* The library and its sessions *)

LoginSessions == [Slots -> Handles \cup {NoHandle}]

(* luna_callback_close_session over the cache of each slot.  It takes the 1
   that luna_close_session returns for an error, so one session is closed,
   first[s], and the others are dropped. *)
ClosesFirst(first) ==
    \A s \in Slots : IF cache[s] = {} THEN first[s] = NoHandle ELSE first[s] \in cache[s]

(* The sessions left in the library once luna_fini_p11 has closed those of
   gone itself: C_Finalize closes the rest, if this code may call it. *)
SessionsAfterFini(gone) ==
    IF SkipInit
      THEN \E first \in LoginSessions :
              ClosesFirst(first) /\ live' = live \ (gone \cup {first[s] : s \in Slots})
      ELSE live' = {}

(* luna_fini_p11: log out, close cached sessions, C_Finalize, zero counts.  Its caller
   has just closed the sessions in own. *)
Fini(own) ==
    LET loggedIn == {s \in Slots : LoginInit /\ pw[s] = 1} IN
    /\ have_c_init' = FALSE
    /\ IF have_c_init
         THEN /\ SessionsAfterFini(own \cup {login[s] : s \in loggedIn})
              /\ login' = [s \in Slots |-> IF s \in loggedIn THEN NoHandle ELSE login[s]]
         ELSE UNCHANGED <<live, login>>
    /\ cache' = [s \in Slots |-> {}]
    /\ activity' = [s \in Slots |-> 0]
    /\ total' = 0
    /\ UNCHANGED <<count_c_init, pw>>

(* luna_do_deferred_login, over a library with the sessions in base: a session
   per slot that stays open and logged in. *)
LoginOk(base) ==
    IF LoginInit
      THEN /\ \A s \in Slots : pw[s] = 1
           /\ \E f \in [Slots -> Handles \ base] :
                /\ \A s1, s2 \in Slots : f[s1] = f[s2] => s1 = s2
                /\ login' = f
                /\ live' = base \cup {f[s] : s \in Slots}
           /\ UNCHANGED pw
      ELSE /\ live' = base
           /\ UNCHANGED <<login, pw>>

(* It stops at the first slot k it cannot serve: no usable password, no
   session, or a login that fails and is never tried again (boolInit = 2).
   The slots before k have the new sessions in f. *)
LoginStopsAt(base, k, f) ==
    /\ LoginInit
    /\ \A s \in 0 .. k - 1 : pw[s] = 1 /\ f[s] \in Handles \ base
    /\ \A s1, s2 \in 0 .. k - 1 : f[s1] = f[s2] => s1 = s2
    /\ \A s \in Slots : s > k => f[s] = login[s]
    /\ \/ pw' = pw /\ f[k] = login[k]
       \/ pw[k] = 1 /\ pw' = [pw EXCEPT ![k] = 2] /\ f[k] = NoHandle
    /\ login' = f

(* The sessions a library has that this code has just initialized. *)
Inherited == IF SkipInit THEN live ELSE {}

-----------------------------------------------------------------------------
(* luna_open_context_ndx *)

StartOpen(t, k) ==
    /\ pc[t] = "idle"
    /\ ctx[<<t, k>>].st = "closed"
    /\ ctx[<<t, "op">>].st = "closed"
    /\ k = "store" => UseStore
    /\ Goto(t, "enter")
    /\ cur' = [cur EXCEPT ![t] = k]
    /\ UNCHANGED <<mutex, ctx, libvars, poolvars, flag_recovery>>

(* Enter the mutex; an opener that finds a recovery under way sleeps. *)
EnterOpen(t) ==
    /\ pc[t] = "enter"
    /\ mutex = NoThread
    /\ ~flag_recovery
    /\ mutex' = t
    /\ Goto(t, IF have_c_init THEN "session" ELSE "init")
    /\ UNCHANGED <<cur, ctx, libvars, poolvars, flag_recovery>>

(* luna_init_p11_deferred succeeds. *)
InitP11(t) ==
    /\ pc[t] = "init"
    /\ cache' = [s \in Slots |-> {}]
    /\ count_c_init' = NextCount(count_c_init)
    /\ have_c_init' = TRUE
    /\ LoginOk(Inherited)
    /\ Goto(t, "session")
    /\ UNCHANGED <<mutex, cur, ctx, activity, total, flag_recovery>>

(* luna_init_p11_deferred fails in C_Initialize, and the open with it. *)
InitFails(t) ==
    /\ pc[t] = "init"
    /\ cache' = [s \in Slots |-> {}]
    /\ Goto(t, "idle")
    /\ mutex' = NoThread
    /\ UNCHANGED <<cur, ctx, libvars, activity, total, flag_recovery>>

(* It fails later, setting the application id or logging in: the library is
   finalized again but its initialization has been counted. *)
InitLateFails(t) ==
    /\ pc[t] = "init"
    /\ cache' = [s \in Slots |-> {}]
    /\ count_c_init' = NextCount(count_c_init)
    /\ have_c_init' = FALSE
    /\ \/ UNCHANGED <<login, pw>> /\ live' = Inherited
       \/ \E k \in Slots, f \in LoginSessions :
             /\ LoginStopsAt(Inherited, k, f)
             /\ live' = IF SkipInit THEN live \cup {f[s] : s \in 0 .. k - 1} ELSE {}
    /\ Goto(t, "idle")
    /\ mutex' = NoThread
    /\ UNCHANGED <<cur, ctx, activity, total, flag_recovery>>

(* The slot of a new context: slot 0 if the caller says so (key generation),
   else the shortest waiting line. *)
PicksSlot(s) ==
    \/ s = 0
    \/ NumSlots = 2 /\ s = (IF activity[0] <= activity[1] THEN 0 ELSE 1)

(* Mutant: the cached session is used but stays in the cache. *)
GetSession_KeepsCached(t, s, h) ==
    /\ pc[t] = "session"
    /\ PicksSlot(s)
    /\ IF cache[s] # {}
         THEN h \in cache[s] /\ UNCHANGED live
         ELSE h \in Handles \ live /\ live' = live \cup {h}
    /\ ctx' = [ctx EXCEPT ![<<t, cur[t]>>] =
                 [st |-> "open", h |-> h, slot |-> s, gen |-> count_c_init, rv |-> "ok"]]
    /\ activity' = [activity EXCEPT ![s] = @ + 1]
    /\ total' = total + 1
    /\ mutex' = IF HoldsMutex THEN t ELSE NoThread
    /\ Goto(t, "idle")
    /\ UNCHANGED <<cur, cache, have_c_init, count_c_init, login, pw, flag_recovery>>

(* A session from the cache if there is one, else a new one; the caller leaves
   the mutex unless it keeps it until the close. *)
GetSession(t, s, h) ==
    /\ pc[t] = "session"
    /\ PicksSlot(s)
    /\ IF cache[s] # {}
         THEN /\ h \in cache[s]
              /\ cache' = [cache EXCEPT ![s] = @ \ {h}]
              /\ UNCHANGED live
         ELSE /\ h \in Handles \ live
              /\ live' = live \cup {h}
              /\ UNCHANGED cache
    /\ ctx' = [ctx EXCEPT ![<<t, cur[t]>>] =
                 [st |-> "open", h |-> h, slot |-> s, gen |-> count_c_init, rv |-> "ok"]]
    /\ activity' = [activity EXCEPT ![s] = @ + 1]
    /\ total' = total + 1
    /\ mutex' = IF HoldsMutex THEN t ELSE NoThread
    /\ Goto(t, "idle")
    /\ UNCHANGED <<cur, have_c_init, count_c_init, login, pw, flag_recovery>>

(* Mutant: the error path leaves the library initialized. *)
GetSessionFails_NoFini(t, s) ==
    /\ pc[t] = "session"
    /\ PicksSlot(s)
    /\ cache[s] = {}
    /\ mutex' = NoThread
    /\ Goto(t, "idle")
    /\ UNCHANGED <<cur, ctx, libvars, poolvars, flag_recovery>>

(* C_OpenSession fails: a process that finalizes after each call does so. *)
GetSessionFails(t, s) ==
    /\ pc[t] = "session"
    /\ PicksSlot(s)
    /\ cache[s] = {}
    /\ IF FinalizeEach THEN Fini({})
         ELSE UNCHANGED <<libvars, poolvars>>
    /\ mutex' = NoThread
    /\ Goto(t, "idle")
    /\ UNCHANGED <<cur, ctx, flag_recovery>>

-----------------------------------------------------------------------------
(* luna_close_context_w_err *)

CloseEnabled(t, k) ==
    /\ pc[t] = "idle"
    /\ Open(<<t, k>>)
    /\ k = "store" => ctx[<<t, "op">>].st = "closed"
    /\ mutex = (IF HoldsMutex THEN t ELSE NoThread)

(* The session is of this initialization of the library. *)
SameInit(c) == have_c_init /\ ctx[c].gen = count_c_init

(* Mutant: the wrong slot is lowered. *)
Leave_FirstSlot(c) ==
    /\ activity' = [activity EXCEPT ![0] = IF @ > 0 THEN @ - 1 ELSE @]
    /\ total' = IF total > 0 THEN total - 1 ELSE total

(* The call is no longer counted. *)
Leave(c) ==
    /\ activity' = [activity EXCEPT ![ctx[c].slot] = IF @ > 0 THEN @ - 1 ELSE @]
    /\ total' = IF total > 0 THEN total - 1 ELSE total

(* Mutant: a failed call forgets its session without closing it. *)
Close_DropsSession(t, k, rv) ==
    LET c == <<t, k>> IN
    /\ CloseEnabled(t, k)
    /\ ~FinalizeEach
    /\ SameInit(c) /\ Severity(rv) = 0
    /\ Leave(c)
    /\ cache' = IF rv = "ok" /\ SessionCache
                  THEN [cache EXCEPT ![ctx[c].slot] = @ \cup {ctx[c].h}]
                  ELSE cache
    /\ ctx' = [ctx EXCEPT ![c] = ClosedContext]
    /\ mutex' = NoThread
    /\ UNCHANGED <<pc, cur, live, have_c_init, count_c_init, login, pw, flag_recovery>>

(* A call that ends with no need for recovery: its session goes to the cache,
   or back to the library if the call failed or nothing is cached. *)
Close(t, k, rv) ==
    LET c == <<t, k>> IN
    /\ CloseEnabled(t, k)
    /\ ~FinalizeEach
    /\ SameInit(c) /\ Severity(rv) = 0
    /\ Leave(c)
    /\ IF rv = "ok" /\ SessionCache
         THEN /\ cache' = [cache EXCEPT ![ctx[c].slot] = @ \cup {ctx[c].h}]
              /\ UNCHANGED live
         ELSE /\ live' = live \ {ctx[c].h}
              /\ UNCHANGED cache
    /\ ctx' = [ctx EXCEPT ![c] = ClosedContext]
    /\ mutex' = NoThread
    /\ UNCHANGED <<pc, cur, have_c_init, count_c_init, login, pw, flag_recovery>>

(* In a process that finalizes after each call: the session is closed, or is the
   first of the cache, which luna_fini_p11 closes. *)
CloseFinalize(t, k) ==
    /\ CloseEnabled(t, k)
    /\ FinalizeEach
    /\ Fini({ctx[<<t, k>>].h})
    /\ ctx' = [ctx EXCEPT ![<<t, k>>] = ClosedContext]
    /\ mutex' = NoThread
    /\ UNCHANGED <<pc, cur, flag_recovery>>

(* A call that found the device or its session gone, or the library
   initialized again under it: close the session, drop the cached ones without
   closing them, and hold new calls back. *)
CloseRecover(t, k, rv) ==
    LET c == <<t, k>> IN
    /\ CloseEnabled(t, k)
    /\ ~FinalizeEach
    /\ ~(SameInit(c) /\ Severity(rv) = 0)
    /\ Leave(c)
    /\ live' = IF SameInit(c) THEN live \ {ctx[c].h} ELSE live
    /\ cache' = [s \in Slots |-> {}]
    /\ flag_recovery' = TRUE
    /\ ctx' = [ctx EXCEPT ![c].st = "closing", ![c].rv = rv]
    /\ cur' = [cur EXCEPT ![t] = k]
    /\ Goto(t, "drain")
    /\ mutex' = t
    /\ UNCHANGED <<have_c_init, count_c_init, login, pw>>

(* The closer leaves the mutex and sleeps while other calls are inside. *)
DrainSleep(t) ==
    /\ pc[t] = "drain"
    /\ mutex = t
    /\ total > 0
    /\ mutex' = NoThread
    /\ UNCHANGED <<pc, cur, ctx, libvars, poolvars, flag_recovery>>

(* Mutant: recovery does not wait for the calls inside. *)
Drained_NoWait(t) ==
    /\ pc[t] = "drain"
    /\ mutex \in {t, NoThread}
    /\ flag_recovery' = FALSE
    /\ ctx' = [ctx EXCEPT ![<<t, cur[t]>>] = ClosedContext]
    /\ mutex' = NoThread
    /\ Goto(t, "idle")
    /\ UNCHANGED cur

(* Mutant: nobody lowers the flag. *)
Drained_KeepsFlag(t) ==
    /\ pc[t] = "drain"
    /\ mutex \in {t, NoThread}
    /\ total = 0
    /\ ctx' = [ctx EXCEPT ![<<t, cur[t]>>] = ClosedContext]
    /\ mutex' = NoThread
    /\ Goto(t, "idle")
    /\ UNCHANGED <<cur, flag_recovery>>

(* No call is inside: recover, let new calls in, and return. *)
Drained(t) ==
    /\ pc[t] = "drain"
    /\ mutex \in {t, NoThread}
    /\ total = 0
    /\ flag_recovery' = FALSE
    /\ ctx' = [ctx EXCEPT ![<<t, cur[t]>>] = ClosedContext]
    /\ mutex' = NoThread
    /\ Goto(t, "idle")
    /\ UNCHANGED cur

(* Recovery is switched off. *)
RecoverNot(t) ==
    /\ Drained(t)
    /\ RecoveryLevel = 0
    /\ UNCHANGED <<libvars, poolvars>>

RecoverLogin(t) ==
    /\ Drained(t)
    /\ RecoveryLevel >= 1
    /\ have_c_init
    /\ LoginOk(live)
    /\ UNCHANGED <<have_c_init, count_c_init, poolvars>>

(* After a failed login, a device error leads to C_Finalize at level 2. *)
Finalizes(t) == RecoveryLevel = 2 /\ Severity(ctx[<<t, cur[t]>>].rv) = 2

RecoverGivesUp(t) ==
    /\ Drained(t)
    /\ RecoveryLevel >= 1 /\ ~Finalizes(t)
    /\ \/ /\ have_c_init
          /\ \E k \in Slots, f \in LoginSessions :
                /\ LoginStopsAt(live, k, f)
                /\ live' = live \cup {f[s] : s \in 0 .. k - 1}
       \/ ~have_c_init /\ UNCHANGED <<live, login, pw>>
    /\ UNCHANGED <<have_c_init, count_c_init, poolvars>>

(* luna_do_deferred_login fails, then luna_fini_p11: what the login opened is
   closed again, the password it gave up on stays given up. *)
RecoverFinalize(t) ==
    /\ Drained(t)
    /\ Finalizes(t)
    /\ have_c_init' = FALSE
    /\ \/ /\ have_c_init /\ LoginInit
          /\ \E k \in Slots :
                /\ \A s \in 0 .. k - 1 : pw[s] = 1
                /\ pw' = pw \/ (pw[k] = 1 /\ pw' = [pw EXCEPT ![k] = 2])
                /\ SessionsAfterFini({login[s] : s \in {z \in Slots : z >= k /\ pw'[z] = 1}})
          /\ login' = [s \in Slots |-> IF pw[s] = 1 THEN NoHandle ELSE login[s]]
       \/ ~have_c_init /\ UNCHANGED <<live, login, pw>>
    /\ cache' = [s \in Slots |-> {}]
    /\ activity' = [s \in Slots |-> 0]
    /\ total' = 0
    /\ UNCHANGED count_c_init

-----------------------------------------------------------------------------
(* The control command SET_FINALIZE_PENDING: wait until no call is inside,
   then finalize.  It does not hold new calls back. *)
StartFinalizePending(t) ==
    /\ pc[t] = "idle"
    /\ \A k \in Kinds : ctx[<<t, k>>].st = "closed"
    /\ Goto(t, "control")
    /\ UNCHANGED <<mutex, cur, ctx, libvars, poolvars, flag_recovery>>

SetFinalizePending(t) ==
    /\ pc[t] = "control"
    /\ mutex = NoThread
    /\ total = 0
    /\ Fini({})
    /\ Goto(t, "idle")
    /\ UNCHANGED <<mutex, cur, ctx, flag_recovery>>

-----------------------------------------------------------------------------
Opening(t) ==
    /\ \/ EnterOpen(t) \/ InitP11(t) \/ InitFails(t) \/ InitLateFails(t)
       \/ \E s \in Slots, h \in Handles : GetSession(t, s, h)
       \/ \E s \in Slots : GetSessionFails(t, s)
    /\ UNCHANGED config

Closing(t) ==
    /\ \/ \E k \in Kinds, rv \in Results : Close(t, k, rv) \/ CloseRecover(t, k, rv)
       \/ \E k \in Kinds : CloseFinalize(t, k)
    /\ UNCHANGED config

Recovering(t) ==
    /\ \/ DrainSleep(t) \/ RecoverNot(t) \/ RecoverLogin(t)
       \/ RecoverGivesUp(t) \/ RecoverFinalize(t)
    /\ UNCHANGED config

Asking(t) ==
    /\ \/ \E k \in Kinds : StartOpen(t, k)
       \/ StartFinalizePending(t) \/ SetFinalizePending(t)
    /\ UNCHANGED config

Next == \E t \in Threads : Asking(t) \/ Opening(t) \/ Closing(t) \/ Recovering(t)

Spec == Init /\ [][Next]_vars

(* A thread inside a call goes on: the token answers, the caller closes its
   context, and a sleeping closer polls again. *)
Fairness ==
    \A t \in Threads :
        /\ WF_vars(Opening(t))
        /\ WF_vars(Closing(t))
        /\ WF_vars(Recovering(t))

FairSpec == Spec /\ Fairness

-----------------------------------------------------------------------------
PCs == {"idle", "enter", "init", "session", "drain", "control"}

TypeOK ==
    /\ config \in Configs
    /\ mutex \in Threads \cup {NoThread}
    /\ pc \in [Threads -> PCs]
    /\ cur \in [Threads -> Kinds]
    /\ ctx \in [Contexts -> Context]
    /\ have_c_init \in BOOLEAN
    /\ count_c_init \in 1 .. CountModulus - 1
    /\ live \subseteq Handles
    /\ cache \in [Slots -> SUBSET Handles]
    /\ login \in LoginSessions
    /\ pw \in [Slots -> 0 .. 2]
    /\ activity \in [Slots -> Nat]
    /\ total \in Nat
    /\ flag_recovery \in BOOLEAN

(* The activity counters are exactly the calls that hold a context.  Both the
   recovery and SET_FINALIZE_PENDING finalize the library because a counter
   reads zero. *)
ActivityExact ==
    /\ total = Cardinality(OpenContexts)
    /\ \A s \in Slots : activity[s] = Cardinality(OpenOn(s))

(* A session serves one call at a time: no two open contexts share one, and
   none in use is also in the cache or is a login session. *)
SessionExclusive ==
    /\ \A c, d \in OpenContexts : ctx[c].h = ctx[d].h => c = d
    /\ \A c \in OpenContexts :
          /\ ctx[c].h \notin Cached
          /\ have_c_init => \A s \in Slots : login[s] # ctx[c].h
    /\ \A s1, s2 \in Slots : s1 # s2 => cache[s1] \cap cache[s2] = {}

(* No call runs, and no session waits in the cache, over a library that was
   finalized or initialized again since the session was opened. *)
SessionsLive ==
    /\ \A c \in OpenContexts : SameInit(c) /\ ctx[c].h \in live
    /\ Cached \subseteq live
    /\ ~have_c_init /\ ~SkipInit => live = {}

(* A process that may fork keeps no connection between calls: once the mutex
   is free the library is finalized. *)
ParentKeepsNothing ==
    FinalizeEach /\ ~SkipInit /\ mutex = NoThread => ~have_c_init /\ live = {}

(* A session of the library that no call holds, no cache keeps and no slot is logged in
   with is lost.  No step loses a session that a call holds.  Others are lost only by the
   step that starts a recovery or the one that ends it, and, where the application owns
   C_Initialize and C_Finalize, when this code initializes or finalizes. *)
Lost == live \ (Held \cup Cached \cup {login[s] : s \in Slots})
Draining == {t \in Threads : pc[t] = "drain"}
StaysInitialized == have_c_init /\ have_c_init'
SessionsKept ==
    [][/\ Held \cap Lost' = {}
       /\ \/ Lost' \subseteq Lost
          \/ Draining' # Draining
          \/ SkipInit /\ ~StaysInitialized]_vars

(* "C_Finalize; close cached sessions otherwise, token session leak": once luna_fini_p11
   has finalized the library none of the sessions that were cached is open. *)
FiniClosesCached == [][have_c_init /\ ~have_c_init' => Cached \cap live' = {}]_vars

(* A recovery that holds new calls back lets them in again. *)
RecoveryEnds == flag_recovery ~> ~flag_recovery
=============================================================================
