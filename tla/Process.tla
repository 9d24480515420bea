------------------------------ MODULE Process ------------------------------
(* Processes that load the provider, make calls and fork: the life of the engine
   (luna_bind_engine, luna_init_engine, luna_destroy_engine in engine/e_gem.c,
   luna_prov_engine_init and _fini in lunaCommon.c, luna_provider_init and
   luna_teardown in lunaProvider.c) together with the process identifiers that
   luna_open_context_ndx compares.

   A process is its memory image, a record; fork copies the image. The memory of
   p is mem[p]; an operator on an image m returns the image, or the set of images,
   that a function of the code leaves. One call is open at a time in a process (the
   interleaving of threads is the subject of Session), and a process forks between
   calls. The second slot repeats what is modelled for the first. *)
EXTENDS Integers, FiniteSets

CONSTANTS
    Procs,                  \* processes
    Root,                   \* the one that is started from outside
    Ctxs,                   \* library contexts that load the provider
    NoProc,                 \* identifier zero
    IntermediateProcesses,  \* configuration IntermediateProcesses
    CheckFinalize,          \* DisableCheckFinalize = 0
    LoginInit,              \* EnableLoginInit
    Commands,               \* which processes give the commands after initialization:
                            \* those that may fork ("forks"), those that may not ("keeps")
    MaxInits,               \* bound on the initializations along a line of processes
    MaxRunning              \* bound on the processes that run at the same time

ASSUME ProcsAssumption == Root \in Procs /\ NoProc \notin Procs
ASSUME ConfigAssumption ==
    /\ {IntermediateProcesses, MaxInits, MaxRunning} \subseteq Nat
    /\ {CheckFinalize, LoginInit} \subseteq BOOLEAN /\ Commands \subseteq {"forks", "keeps"}

VARIABLES mem, status, depth
vars == <<mem, status, depth>>

(* What luna_bind_engine sets up, in its order; methods are those of RSA, DSA and
   EC and their tables, each of which is made if it is missing. *)
Parts == {"mutex", "prop", "methods", "strings"}

NoConn == <<NoProc, 0>>

Image == [ctxs : [Ctxs -> {"none", "live"}],
          refs : 0..Cardinality(Ctxs),           \* e_init_count; 0: e_init = NULL
          have : SUBSET Parts,                   \* luna_have_..._init
          dso : {"none", "open", "bound"},       \* luna_dso, luna_have_c_funclist
          init : BOOLEAN, count : 0..MaxInits,   \* luna_have_c_init, luna_count_c_init
          command : BOOLEAN,                     \* the library was initialized for a command
          pidBind : Procs \cup {NoProc}, pidInit : Procs \cup {NoProc},
          pidInter : Procs \cup {NoProc}, interCount : 0..Cardinality(Procs),
          inChild : BOOLEAN, pw : {"unread", "read", "refused"}, exiting : BOOLEAN,
          call : {"none", "kept", "pending"},    \* the open context and its flagFinalizePending
          key : [count : 0..MaxInits, conn : (Procs \cup {NoProc}) \X (0..MaxInits)]]

(* Global data before anything was called. *)
Blank == [ctxs |-> [c \in Ctxs |-> "none"], refs |-> 0, have |-> {}, dso |-> "none",
          init |-> FALSE, count |-> 1, command |-> FALSE, pidBind |-> NoProc, pidInit |-> NoProc,
          pidInter |-> NoProc, interCount |-> 0, inChild |-> FALSE, pw |-> "unread",
          exiting |-> FALSE, call |-> "none", key |-> [count |-> 0, conn |-> NoConn]]

Init ==
    /\ mem = [p \in Procs |-> Blank]
    /\ status = [p \in Procs |-> IF p = Root THEN "running" ELSE "unborn"]
    /\ depth = [p \in Procs |-> 0]

(* The connection of an image: who called C_Initialize, and which time. *)
Conn(m) == IF m.init THEN <<m.pidInit, m.count>> ELSE NoConn

-----------------------------------------------------------------------------
(* Cryptoki: loading, initialization and finalization. *)

(* luna_load_p11: the library does not load, has not the functions, or is bound. *)
LoadP11(m) ==
    IF m.dso = "bound" THEN {m} ELSE {[m EXCEPT !.dso = d] : d \in {m.dso, "open", "bound"}}

(* luna_fini_p11: it asks whether the library is initialized, not by whom. *)
FiniP11(m) == [m EXCEPT !.init = FALSE, !.command = FALSE]

(* Mutant: the initialization is not counted. *)
InitDone_NotCounted(m, p) ==
    {[m EXCEPT !.pidInit = p]} \cup {[m EXCEPT !.pidInit = p, !.init = TRUE]}

(* C_Initialize and what follows it fail or succeed; a password that the token
   refuses is never used again. *)
InitDone(m, p) ==
    LET started == [m EXCEPT !.pidInit = p]
        counted == [started EXCEPT !.count = @ + 1]
        logins == IF LoginInit THEN {counted, [counted EXCEPT !.pw = IF @ = "read" THEN "refused" ELSE @]}
                  ELSE {counted}
    IN {started} \cup logins
       \cup (IF LoginInit /\ m.pw # "read" THEN {} ELSE {[counted EXCEPT !.init = TRUE]})

InitP11Deferred(m, p) ==
    UNION {IF n.dso = "bound" THEN InitDone(n, p) ELSE {n} : n \in LoadP11(m)}

InitP11Conditional(m, p) == IF m.init THEN {m} ELSE InitP11Deferred(m, p)

-----------------------------------------------------------------------------
(* Contexts. *)

(* Mutant: the process is counted at every call. *)
CountIntermediate_Always(m, p) == [m EXCEPT !.interCount = @ + 1, !.pidInter = p]

(* A process other than the one that bound the engine is counted once; the count
   is inherited, so it is the number of processes on the way that used the engine. *)
CountIntermediate(m, p) ==
    IF m.pidInter = p THEN m ELSE [m EXCEPT !.interCount = @ + 1, !.pidInter = p]

(* Mutant: the child goes on with the connection of its parent. *)
FinalizeInherited_Never(m, p) == m

(* A child that inherits an initialized library finalizes it first. *)
FinalizeInherited(m, p) == IF CheckFinalize /\ m.pidInit # p THEN FiniP11(m) ELSE m

(* Mutant: an intermediate process keeps its connection. *)
ChooseRole_AtLeast(m, p) ==
    IF p = m.pidBind THEN [m EXCEPT !.inChild = FALSE]
    ELSE LET n == CountIntermediate(m, p)
         IN [n EXCEPT !.inChild = n.interCount >= IntermediateProcesses]

(* Whether this process keeps the connection after the call. *)
ChooseRole(m, p) ==
    IF ~CheckFinalize THEN [m EXCEPT !.inChild = TRUE]
    ELSE IF p = m.pidBind THEN [m EXCEPT !.inChild = FALSE]
    ELSE LET n == CountIntermediate(m, p)
         IN [n EXCEPT !.inChild = n.interCount > IntermediateProcesses]

OpenSession(m) ==
    IF m.inChild THEN {m, [m EXCEPT !.call = "kept"]}
    ELSE {FiniP11(m), [m EXCEPT !.call = "pending"]}

(* luna_open_context_ndx: the images it may leave, with and without a context. *)
OpenContext(m, p) ==
    UNION {IF n.init THEN OpenSession(ChooseRole(n, p)) ELSE {n}
             : n \in InitP11Conditional(FinalizeInherited(m, p), p)}

(* luna_close_context_w_err: the pending finalization, or nothing. *)
CloseContext(m) ==
    LET closed == [m EXCEPT !.call = "none"]
    IN IF m.call = "pending" THEN FiniP11(closed) ELSE closed

-----------------------------------------------------------------------------
(* The engine. *)

(* Undo everything: luna_destroy_engine. The password goes in a child only. *)
DestroyEngine(m) ==
    LET unloaded == IF m.exiting THEN m ELSE [FiniP11(m) EXCEPT !.dso = "none"]
    IN [unloaded EXCEPT !.pw = IF m.inChild /\ LoginInit THEN "unread" ELSE @, !.have = {}]

(* luna_bind_engine stops before the mutex, the properties or a method, or when
   the engine cannot be set up: then freeing it may destroy it. *)
BindFails(m) ==
    LET made(parts) == [m EXCEPT !.have = @ \cup parts]
        unset == made({"mutex", "prop", "methods"})
    IN {n \in {m, made({"mutex"}), made({"mutex", "prop"}), unset} : n.have # Parts}
       \cup {DestroyEngine(unset)}

BindStarted(m, p) == [m EXCEPT !.pidBind = IF @ = NoProc THEN p ELSE @]

BindOk(m) == [m EXCEPT !.have = Parts]

(* luna_init_engine: counts the process, reads the password once, and tries a
   context, which is closed again whatever happens. *)
InitEngine(m, p) ==
    LET counted == IF p = m.pidBind THEN m ELSE CountIntermediate(m, p)
        prompted == IF LoginInit /\ m.pw = "unread" THEN {counted, [counted EXCEPT !.pw = "read"]}
                    ELSE {counted}
    IN UNION {{CloseContext(n) : n \in OpenContext(k, p)} : k \in prompted}

-----------------------------------------------------------------------------
(* The provider. *)

Step(p, images) ==
    /\ \E m \in images : mem' = [mem EXCEPT ![p] = m]
    /\ UNCHANGED <<status, depth>>
Running(p) == status[p] = "running"
Quiet(p) == Running(p) /\ mem[p].call = "none"
MayInit(p) == mem[p].count < MaxInits

(* An exiting process loads nothing any more. *)
Loads(p, c) == Quiet(p) /\ ~mem[p].exiting /\ mem[p].ctxs[c] = "none"

(* luna_prov_engine_init fails and nothing is loaded. (The code then frees the library
   context of the provider twice, which is not modelled.) *)
ProviderBindFails(p, c) ==
    /\ Loads(p, c) /\ mem[p].refs = 0
    /\ \E m \in BindFails(BindStarted(mem[p], p)) : mem' = [mem EXCEPT ![p] = m]
    /\ UNCHANGED <<status, depth>>

(* The first provider context binds and initializes the engine, others count. *)
ProviderInit(p, c) ==
    /\ Loads(p, c)
    /\ mem[p].refs = 0 => MayInit(p)
    /\ Step(p, {[m EXCEPT !.ctxs[c] = "live", !.refs = @ + 1]
                  : m \in IF mem[p].refs > 0 THEN {mem[p]}
                          ELSE InitEngine(BindOk(BindStarted(mem[p], p)), p)})

(* Mutant: every teardown destroys the engine. *)
EngineFini_First(m) == IF m.exiting THEN m ELSE [DestroyEngine(m) EXCEPT !.refs = @ - 1]

(* luna_prov_engine_fini does nothing in an exiting process. *)
EngineFini(m) ==
    IF m.exiting THEN m
    ELSE IF m.refs > 1 THEN [m EXCEPT !.refs = @ - 1]
    ELSE [DestroyEngine(m) EXCEPT !.refs = 0]

Teardown(p, c) ==
    /\ Quiet(p) /\ mem[p].ctxs[c] = "live"
    /\ Step(p, {[EngineFini(mem[p]) EXCEPT !.ctxs[c] = "none"]})

-----------------------------------------------------------------------------
(* Calls and commands of a process that uses the provider. *)

InUse(p) == ~mem[p].exiting /\ \E c \in Ctxs : mem[p].ctxs[c] = "live"

Open(p) ==
    /\ Quiet(p) /\ InUse(p) /\ MayInit(p)
    /\ Step(p, OpenContext(mem[p], p))

(* A call uses the handle it cached if its count is the current one, and finds the
   object again if not. *)
UseKey(p) ==
    /\ Running(p) /\ mem[p].call # "none" /\ mem[p].key.count # mem[p].count
    /\ Step(p, {[mem[p] EXCEPT !.key = [count |-> mem[p].count, conn |-> Conn(mem[p])]]})

(* After a device error the recovery finalizes in a process that keeps its
   connection. *)
Close(p) ==
    /\ Running(p) /\ mem[p].call # "none"
    /\ Step(p, {CloseContext(mem[p]), FiniP11(CloseContext(mem[p]))})

(* A process that keeps its connection must not fork: the configuration tells how
   many processes lie between the root and the ones that work. *)
MayFork(p) == CheckFinalize => depth[p] <= IntermediateProcesses

(* The commands that come after initialization (GET_HA_STATE, the logins and
   sessions by string) initialize the library when needed and leave it so. *)
Command(p) ==
    /\ (IF MayFork(p) THEN "forks" ELSE "keeps") \in Commands
    /\ Quiet(p) /\ InUse(p) /\ MayInit(p)
    /\ Step(p, {[m EXCEPT !.command = m.init /\ (@ \/ ~mem[p].init)] : m \in InitP11Conditional(mem[p], p)})

SetFinalizePending(p) ==
    /\ Quiet(p) /\ InUse(p)
    /\ Step(p, {FiniP11(mem[p])})

-----------------------------------------------------------------------------
(* Processes. *)

Fork(p, c) ==
    /\ Quiet(p) /\ ~mem[p].exiting /\ MayFork(p) /\ status[c] = "unborn"
    /\ Cardinality({q \in Procs : Running(q)}) < MaxRunning
    /\ mem' = [mem EXCEPT ![c] = mem[p]]
    /\ status' = [status EXCEPT ![c] = "running"]
    /\ depth' = [depth EXCEPT ![c] = depth[p] + 1]

(* luna_atexit_handler runs before OpenSSL tears the providers down. *)
ExitBegins(p) ==
    /\ Quiet(p) /\ ~mem[p].exiting
    /\ Step(p, {[mem[p] EXCEPT !.exiting = TRUE]})

(* The process ends, by exit or otherwise, and its connection with it. *)
ProcessEnds(p) ==
    /\ Running(p)
    /\ status' = [status EXCEPT ![p] = "gone"]
    /\ mem' = [mem EXCEPT ![p] = Blank]
    /\ UNCHANGED depth

Next ==
    \/ \E p \in Procs :
         \/ \E c \in Ctxs : \/ ProviderBindFails(p, c) \/ ProviderInit(p, c)
                           \/ Teardown(p, c)
         \/ Open(p) \/ UseKey(p) \/ Close(p)
         \/ Command(p) \/ SetFinalizePending(p)
         \/ ExitBegins(p) \/ ProcessEnds(p)
    \/ \E p, c \in Procs : Fork(p, c)

Spec == Init /\ [][Next]_vars
-----------------------------------------------------------------------------
(* The state keeps its types. *)
TypeOK ==
    /\ mem \in [Procs -> Image]
    /\ status \in [Procs -> {"unborn", "running", "gone"}]
    /\ depth \in [Procs -> 0..Cardinality(Procs)]

(* Parent and child have different connections: a call runs on a connection that
   its own process made. *)
OwnConnection ==
    \A p \in Procs : mem[p].call # "none" => mem[p].init /\ mem[p].pidInit = p

(* A call that takes its cached handle for current has found it on the connection
   it runs on, also when the cache was inherited from another process. *)
HandleOfThisConnection ==
    \A p \in Procs : mem[p].call # "none" /\ mem[p].key.count = mem[p].count
                       => mem[p].key.conn = Conn(mem[p])

(* A step of p finalizes a connection that q has made and still takes for
   initialized: the sessions of q are closed behind its back. *)
Cuts(p, q) ==
    /\ p # q /\ Running(q) /\ mem[q].init /\ mem[q].pidInit = q /\ Conn(mem[p]) = Conn(mem[q])
    /\ Conn(mem'[p]) # Conn(mem[p]) /\ status'[p] = "running"

(* No process finalizes a connection that another one has made for its calls: a
   process that forks keeps none after a call, and one that keeps it does not fork. *)
CallsKeepConnection == [][\A p, q \in Procs : Cuts(p, q) => mem[q].command]_vars

(* The reference count is the number of provider contexts; with the first one
   everything is set up and with the last one everything of cryptoki is gone. *)
EngineFollowsProviders ==
    \A p \in Procs : LET m == mem[p] IN ~m.exiting =>
        /\ m.refs = Cardinality({c \in Ctxs : m.ctxs[c] = "live"})
        /\ m.refs > 0 => m.have = Parts
        /\ m.refs = 0 => ~m.init /\ m.dso = "none"
=============================================================================
