---------------------------- MODULE ProcessProofs ----------------------------
(* Theorems about the process identifiers of Process: for any set of processes and
   library contexts, any number of intermediate processes and of initializations. *)
EXTENDS Process, FiniteSetTheorems, TLAPS

(* What the argument needs of an image: the bounds of Image that only limit the model
   are left away. *)
AnyImage ==
    [ctxs : [Ctxs -> {"none", "live"}], refs : Int, have : SUBSET Parts,
     dso : {"none", "open", "bound"}, init : BOOLEAN, count : Nat, command : BOOLEAN,
     pidBind : Procs \cup {NoProc}, pidInit : Procs \cup {NoProc},
     pidInter : Procs \cup {NoProc}, interCount : Int, inChild : BOOLEAN,
     pw : {"unread", "read", "refused"}, exiting : BOOLEAN,
     call : {"none", "kept", "pending"},
     key : [count : Nat, conn : (Procs \cup {NoProc}) \X Nat]]

(* A key never remembers a later initialization than the last one, and one that
   remembers the current one has its handle from the current connection. *)
KeyInv(m) ==
    /\ m.key.count <= m.count
    /\ m.init /\ m.key.count = m.count => m.key.conn = <<m.pidInit, m.count>>

Good(m) == m \in AnyImage /\ KeyInv(m)

(* An image of process p without an open context, and one that may have one. *)
Closed(m) == Good(m) /\ m.call = "none"
Own(m, p) == Good(m) /\ (m.call # "none" => m.init /\ m.pidInit = p)

IInv ==
    /\ mem \in [Procs -> AnyImage]
    /\ \A p \in Procs : KeyInv(mem[p])
    /\ \A p \in Procs : mem[p].call # "none" => mem[p].init /\ mem[p].pidInit = p

-----------------------------------------------------------------------------
(* Finalization keeps what is known of an image. *)
LEMMA FiniGood ==
    ASSUME NEW m, Good(m)
    PROVE  Good(FiniP11(m)) /\ FiniP11(m).call = m.call /\ ~FiniP11(m).init
  BY DEF Good, KeyInv, FiniP11, AnyImage

(* Loading the library touches neither identifiers nor counts. *)
LEMMA LoadGood ==
    ASSUME NEW m, Closed(m), NEW n \in LoadP11(m)
    PROVE  Closed(n) /\ n.init = m.init
  BY DEF Closed, Good, KeyInv, LoadP11, AnyImage

(* An initialization takes place in an image without library: a new count makes what
   keys remember old. *)
LEMMA InitDoneGood ==
    ASSUME NEW p \in Procs, NEW m, Closed(m), ~m.init, NEW n \in InitDone(m, p)
    PROVE  Closed(n) /\ (n.init => n.pidInit = p)
<1> DEFINE started == [m EXCEPT !.pidInit = p]
           counted == [started EXCEPT !.count = @ + 1]
           refused == [counted EXCEPT !.pw = IF @ = "read" THEN "refused" ELSE @]
           done == [counted EXCEPT !.init = TRUE]
<1>1. Closed(started) /\ ~started.init /\ started.pidInit = p
  BY DEF Closed, Good, KeyInv, AnyImage
<1>2. Closed(counted) /\ ~counted.init /\ counted.key.count < counted.count
      /\ counted.pidInit = p
  <2> HIDE DEF started
  <2>1. started \in AnyImage /\ started.count + 1 \in Nat
    BY <1>1 DEF Closed, Good, AnyImage
  <2>2. counted \in AnyImage /\ counted.count = started.count + 1
        /\ counted.key = started.key /\ counted.init = started.init
        /\ counted.call = started.call /\ counted.pidInit = started.pidInit
    BY <2>1 DEF AnyImage
  <2>3. started.key.count \in Nat /\ started.key.count <= started.count
    BY <1>1 DEF Closed, Good, KeyInv, AnyImage
  <2> HIDE DEF counted
  <2> QED
    BY <1>1, <2>1, <2>2, <2>3 DEF Closed, Good, KeyInv, AnyImage
<1>3. Closed(refused) /\ ~refused.init
  <2>1. refused.pw \in {"unread", "read", "refused"}
    BY <1>2 DEF Closed, Good, AnyImage
  <2> QED
    BY <1>2, <2>1 DEF Closed, Good, KeyInv, AnyImage
<1>4. Closed(done) /\ done.pidInit = p
  <2> HIDE DEF counted
  <2>1. done \in AnyImage /\ done.count = counted.count /\ done.key = counted.key
        /\ done.call = counted.call /\ done.pidInit = counted.pidInit
    BY <1>2 DEF Closed, Good, AnyImage
  <2>2. counted.key.count \in Nat /\ counted.count \in Nat
    BY <1>2 DEF Closed, Good, AnyImage
  <2> HIDE DEF done
  <2> QED
    BY <1>2, <2>1, <2>2 DEF Closed, Good, KeyInv
<1>5. n \in {started, counted, refused, done}
  <2> HIDE DEF started, counted, refused, done
  <2>1. InitDone(m, p) = {started} \cup (IF LoginInit THEN {counted, refused} ELSE {counted})
                         \cup (IF LoginInit /\ m.pw # "read" THEN {} ELSE {done})
    BY DEF InitDone, started, counted, refused, done
  <2> QED
    BY <2>1
<1> QED
  <2> HIDE DEF started, counted, refused, done
  <2> QED
    BY <1>1, <1>2, <1>3, <1>4, <1>5

(* The deferred initialization leaves a library of process p, or none. *)
LEMMA DeferredGood ==
    ASSUME NEW p \in Procs, NEW m, Closed(m), ~m.init, NEW n \in InitP11Deferred(m, p)
    PROVE  Closed(n) /\ (n.init => n.pidInit = p)
<1>1. PICK k \in LoadP11(m) : n \in IF k.dso = "bound" THEN InitDone(k, p) ELSE {k}
  BY DEF InitP11Deferred
<1>2. Closed(k) /\ ~k.init
  BY <1>1, LoadGood
<1> QED
  BY <1>1, <1>2, InitDoneGood

(* The choice of the role changes neither the connection nor the context. *)
LEMMA RoleGood ==
    ASSUME NEW p \in Procs, NEW m, Closed(m)
    PROVE  /\ Closed(ChooseRole(m, p)) /\ ChooseRole(m, p).init = m.init
           /\ ChooseRole(m, p).pidInit = m.pidInit
<1> DEFINE n == CountIntermediate(m, p)
<1>1. Closed(n) /\ n.init = m.init /\ n.pidInit = m.pidInit
  <2> DEFINE k == [m EXCEPT !.interCount = @ + 1, !.pidInter = p]
  <2>1. m \in AnyImage /\ m.interCount + 1 \in Int
    BY DEF Closed, Good, AnyImage
  <2>2. k \in AnyImage /\ k.init = m.init /\ k.pidInit = m.pidInit /\ k.key = m.key
        /\ k.count = m.count /\ k.call = m.call
    BY <2>1 DEF AnyImage
  <2> HIDE DEF k
  <2>3. Closed(k)
    BY <2>2 DEF Closed, Good, KeyInv
  <2> QED
    BY <2>2, <2>3 DEF CountIntermediate, k
<1>2. \A b \in BOOLEAN : LET k == [n EXCEPT !.inChild = b]
                         IN Closed(k) /\ k.init = m.init /\ k.pidInit = m.pidInit
  <2> HIDE DEF n
  <2> QED
    BY <1>1 DEF Closed, Good, KeyInv, AnyImage
<1>3. (n.interCount > IntermediateProcesses) \in BOOLEAN
  OBVIOUS
<1>4. \A b \in BOOLEAN : LET k == [m EXCEPT !.inChild = b]
                         IN Closed(k) /\ k.init = m.init /\ k.pidInit = m.pidInit
  BY DEF Closed, Good, KeyInv, AnyImage
<1> HIDE DEF n
<1> QED
  BY <1>2, <1>3, <1>4 DEF ChooseRole, n

(* A session is opened on the connection there is, or nothing is opened. *)
LEMMA OpenSessionGood ==
    ASSUME NEW p \in Procs, NEW m, Closed(m), m.init, m.pidInit = p, NEW n \in OpenSession(m)
    PROVE  Own(n, p)
<1>1. \A c \in {"kept", "pending"} : Own([m EXCEPT !.call = c], p)
  BY DEF Closed, Own, Good, KeyInv, AnyImage
<1>2. Own(m, p) /\ Own(FiniP11(m), p)
  BY FiniGood DEF Closed, Own
<1> QED
  BY <1>1, <1>2 DEF OpenSession

(* The check of the identifier makes an inherited library a finalized one: what a
   context is opened on was made by the process itself. *)
LEMMA OpenGood ==
    ASSUME CheckFinalize, NEW p \in Procs, NEW m, Closed(m), NEW n \in OpenContext(m, p)
    PROVE  Own(n, p)
<1> DEFINE f == FinalizeInherited(m, p)
<1>1. Closed(f) /\ (f.init => f.pidInit = p)
  BY FiniGood DEF Closed, FinalizeInherited
<1>2. PICK k \in InitP11Conditional(f, p) :
          n \in IF k.init THEN OpenSession(ChooseRole(k, p)) ELSE {k}
  BY DEF OpenContext
<1>3. Closed(k) /\ (k.init => k.pidInit = p)
  <2> HIDE DEF f
  <2> QED
    BY <1>1, <1>2, DeferredGood DEF InitP11Conditional, Closed, Good, AnyImage
<1> QED
  BY <1>2, <1>3, RoleGood, OpenSessionGood DEF Own, Closed

(* After a close no context is open. *)
LEMMA CloseGood ==
    ASSUME NEW m, Good(m)
    PROVE  Closed(CloseContext(m))
<1>1. Closed([m EXCEPT !.call = "none"])
  BY DEF Closed, Good, KeyInv, AnyImage
<1> QED
  BY <1>1, FiniGood DEF CloseContext, Closed

(* Destroying the engine closes nothing that was open, for nothing was. *)
LEMMA DestroyGood ==
    ASSUME NEW m, Closed(m)
    PROVE  Closed(DestroyEngine(m))
<1> DEFINE u == IF m.exiting THEN m ELSE [FiniP11(m) EXCEPT !.dso = "none"]
           pw == IF u.inChild /\ LoginInit THEN "unread" ELSE u.pw
<1>1. Closed(u)
  <2>1. Closed(FiniP11(m))
    BY FiniGood DEF Closed
  <2>2. Closed([FiniP11(m) EXCEPT !.dso = "none"])
    BY <2>1 DEF Closed, Good, KeyInv, AnyImage
  <2> QED
    BY <2>2
<1>2. DestroyEngine(m).key = u.key /\ DestroyEngine(m).call = u.call
      /\ DestroyEngine(m).count = u.count /\ DestroyEngine(m).init = u.init
      /\ DestroyEngine(m).pidInit = u.pidInit
  <2> HIDE DEF u
  <2>1. u \in AnyImage
    BY <1>1 DEF Closed, Good
  <2>2. \A x, y : LET k == [u EXCEPT !.pw = x, !.have = y]
                  IN k.key = u.key /\ k.call = u.call /\ k.count = u.count /\ k.init = u.init
                     /\ k.pidInit = u.pidInit
    BY <2>1 DEF AnyImage
  <2> QED
    BY <2>2 DEF DestroyEngine, u
<1>3. DestroyEngine(m) \in AnyImage
  <2> HIDE DEF u
  <2>1. u \in AnyImage
    BY <1>1 DEF Closed, Good
  <2>2. \A x \in {"unread", "read", "refused"} : [u EXCEPT !.pw = x, !.have = {}] \in AnyImage
    BY <2>1 DEF AnyImage
  <2>3. (IF m.inChild /\ LoginInit THEN "unread" ELSE u.pw) \in {"unread", "read", "refused"}
    BY <2>1 DEF AnyImage
  <2> QED
    BY <2>2, <2>3 DEF DestroyEngine, u
<1> QED
  BY <1>1, <1>2, <1>3 DEF Closed, Good, KeyInv

(* What was not set up can be changed freely. *)
LEMMA SetUpGood ==
    ASSUME NEW p \in Procs, NEW m, Closed(m)
    PROVE  /\ Closed(BindStarted(m, p)) /\ Closed(BindOk(m))
           /\ \A n \in BindFails(m) : Closed(n)
<1>1. \A parts \in SUBSET Parts : Closed([m EXCEPT !.have = @ \cup parts])
  BY DEF Closed, Good, KeyInv, AnyImage
<1>2. Closed(BindOk(m))
  BY DEF Closed, Good, KeyInv, AnyImage, BindOk
<1>3. Closed(BindStarted(m, p))
  <2>1. \A q \in Procs \cup {NoProc} : Closed([m EXCEPT !.pidBind = q])
    BY DEF Closed, Good, KeyInv, AnyImage
  <2>2. m.pidBind \in Procs \cup {NoProc}
    BY DEF Closed, Good, AnyImage
  <2> QED
    BY <2>1, <2>2 DEF BindStarted
<1>4. \A n \in BindFails(m) : Closed(n)
  <2> DEFINE made(parts) == [m EXCEPT !.have = @ \cup parts]
             unset == made({"mutex", "prop", "methods"})
  <2>1. /\ Closed(made({"mutex"})) /\ Closed(made({"mutex", "prop"})) /\ Closed(unset)
    BY <1>1 DEF Parts
  <2>2. Closed(DestroyEngine(unset))
    BY <2>1, DestroyGood
  <2> QED
    BY <2>1, <2>2 DEF BindFails
<1> QED
  BY <1>2, <1>3, <1>4

(* The first context, tried and closed while the engine is initialized. *)
LEMMA InitEngineGood ==
    ASSUME CheckFinalize, NEW p \in Procs, NEW m, Closed(m), NEW n \in InitEngine(m, p)
    PROVE  Closed(n)
<1> DEFINE counted == IF p = m.pidBind THEN m ELSE CountIntermediate(m, p)
           read == [counted EXCEPT !.pw = "read"]
<1>1. Closed(counted)
  <2> DEFINE k == [m EXCEPT !.interCount = @ + 1, !.pidInter = p]
  <2>1. m \in AnyImage /\ m.interCount + 1 \in Int
    BY DEF Closed, Good, AnyImage
  <2>2. k \in AnyImage /\ k.init = m.init /\ k.pidInit = m.pidInit /\ k.key = m.key
        /\ k.count = m.count /\ k.call = m.call
    BY <2>1 DEF AnyImage
  <2> HIDE DEF k
  <2>3. Closed(k)
    BY <2>2 DEF Closed, Good, KeyInv
  <2> QED
    BY <2>3 DEF CountIntermediate, k
<1>2. Closed(read)
  <2> HIDE DEF counted
  <2> QED
    BY <1>1 DEF Closed, Good, KeyInv, AnyImage
<1> HIDE DEF counted, read
<1>3. PICK k \in {counted, read} : n \in {CloseContext(j) : j \in OpenContext(k, p)}
  BY DEF InitEngine, counted, read
<1>4. PICK j \in OpenContext(k, p) : n = CloseContext(j)
  BY <1>3
<1> QED
  BY <1>1, <1>2, <1>3, <1>4, OpenGood, CloseGood DEF Own

-----------------------------------------------------------------------------
(* The invariant, image by image. *)
LEMMA InvByImage == IInv <=> /\ mem \in [Procs -> AnyImage]
                             /\ \A p \in Procs : Own(mem[p], p)
  BY DEF IInv, Own, Good

(* A step of one process that leaves a good image keeps the invariant. *)
LEMMA StepInv ==
    ASSUME IInv, NEW p \in Procs, NEW m, Own(m, p), mem' = [mem EXCEPT ![p] = m]
    PROVE  IInv'
  BY DEF IInv, Own, Good

(* The first image: no library, no context, no key. *)
LEMMA BlankGood == Closed(Blank)
  BY DEF Closed, Good, KeyInv, AnyImage, Blank, NoConn

LEMMA InitInv == Init => IInv
<1> SUFFICES ASSUME Init PROVE IInv
  OBVIOUS
<1> QED
  BY BlankGood DEF Init, IInv, Closed, Good, Blank

(* Each step keeps the invariant. *)
LEMMA NextInv ==
    ASSUME CheckFinalize, IInv, [Next]_vars
    PROVE  IInv'
<1>1. \A p \in Procs : Own(mem[p], p)
  BY InvByImage
<1>2. \A p \in Procs : Quiet(p) => Closed(mem[p])
  BY <1>1 DEF Quiet, Own, Closed
<1>3. ASSUME NEW p \in Procs, NEW c \in Ctxs, ProviderBindFails(p, c)
      PROVE  IInv'
  <2>1. Closed(BindStarted(mem[p], p))
    BY <1>2, <1>3, SetUpGood DEF ProviderBindFails, Loads
  <2>2. PICK m \in BindFails(BindStarted(mem[p], p)) : mem' = [mem EXCEPT ![p] = m]
    BY <1>3 DEF ProviderBindFails
  <2>3. Own(m, p)
    BY <2>1, <2>2, SetUpGood DEF Closed, Own
  <2> QED
    BY <2>2, <2>3, StepInv
<1>4. ASSUME NEW p \in Procs, NEW c \in Ctxs, ProviderInit(p, c)
      PROVE  IInv'
  <2> DEFINE ready == IF mem[p].refs > 0 THEN {mem[p]}
                      ELSE InitEngine(BindOk(BindStarted(mem[p], p)), p)
  <2>1. \A m \in ready : Closed(m)
    BY <1>2, <1>4, SetUpGood, InitEngineGood DEF ProviderInit, Loads
  <2>2. PICK m \in ready : mem' = [mem EXCEPT ![p] = [m EXCEPT !.ctxs[c] = "live", !.refs = @ + 1]]
    BY <1>4 DEF ProviderInit, Step
  <2> HIDE DEF ready
  <2>3. m \in AnyImage /\ m.refs + 1 \in Int /\ [m.ctxs EXCEPT ![c] = "live"] \in [Ctxs -> {"none", "live"}]
    BY <2>1, <2>2 DEF Closed, Good, AnyImage
  <2> DEFINE k == [m EXCEPT !.ctxs[c] = "live", !.refs = @ + 1]
  <2>4. k \in AnyImage /\ k.init = m.init /\ k.pidInit = m.pidInit /\ k.key = m.key
        /\ k.count = m.count /\ k.call = m.call
    BY <2>3 DEF AnyImage
  <2> HIDE DEF k
  <2>5. Own(k, p)
    BY <2>1, <2>4 DEF Closed, Own, Good, KeyInv
  <2> QED
    BY <2>2, <2>5, StepInv DEF k
<1>5. ASSUME NEW p \in Procs, NEW c \in Ctxs, Teardown(p, c)
      PROVE  IInv'
  <2> DEFINE m == EngineFini(mem[p])
             k == [m EXCEPT !.ctxs[c] = "none"]
  <2>1. Closed(mem[p])
    BY <1>2, <1>5 DEF Teardown
  <2>2. \A i \in Int : \A j : Closed(j) => Closed([j EXCEPT !.refs = i])
    BY DEF Closed, Good, KeyInv, AnyImage
  <2>3. mem[p].refs - 1 \in Int
    BY <2>1 DEF Closed, Good, AnyImage
  <2>4. Closed(m)
    BY <2>1, <2>2, <2>3, DestroyGood DEF EngineFini
  <2>5. mem' = [mem EXCEPT ![p] = k]
    BY <1>5 DEF Teardown, Step
  <2> HIDE DEF m
  <2>6. Own(k, p)
    BY <2>4 DEF Closed, Own, Good, KeyInv, AnyImage
  <2> HIDE DEF k
  <2> QED
    BY <2>5, <2>6, StepInv
<1>6. ASSUME NEW p \in Procs, Open(p)
      PROVE  IInv'
  <2>1. PICK m \in OpenContext(mem[p], p) : mem' = [mem EXCEPT ![p] = m]
    BY <1>6 DEF Open, Step
  <2> QED
    BY <1>2, <1>6, <2>1, OpenGood, StepInv DEF Open
<1>7. ASSUME NEW p \in Procs, UseKey(p)
      PROVE  IInv'
  <2> DEFINE key == [count |-> mem[p].count, conn |-> Conn(mem[p])]
             m == [mem[p] EXCEPT !.key = key]
  <2>1. Own(mem[p], p) /\ mem[p].init
    BY <1>1, <1>7 DEF UseKey, Own
  <2>2. key.conn = <<mem[p].pidInit, mem[p].count>> /\ key.count = mem[p].count
        /\ key \in [count : Nat, conn : (Procs \cup {NoProc}) \X Nat]
    BY <2>1 DEF Conn, Own, Good, AnyImage
  <2>3. mem' = [mem EXCEPT ![p] = m]
    BY <1>7 DEF UseKey, Step
  <2> HIDE DEF key
  <2>4. Own(m, p)
    BY <2>1, <2>2 DEF Own, Good, KeyInv, AnyImage
  <2> HIDE DEF m
  <2> QED
    BY <2>3, <2>4, StepInv
<1>8. ASSUME NEW p \in Procs, Close(p)
      PROVE  IInv'
  <2>1. Closed(CloseContext(mem[p]))
    BY <1>1, CloseGood DEF Own
  <2>2. Closed(FiniP11(CloseContext(mem[p])))
    BY <2>1, FiniGood DEF Closed
  <2>3. PICK m \in {CloseContext(mem[p]), FiniP11(CloseContext(mem[p]))} : mem' = [mem EXCEPT ![p] = m]
    BY <1>8 DEF Close, Step
  <2> QED
    BY <2>1, <2>2, <2>3, StepInv DEF Closed, Own
<1>9. ASSUME NEW p \in Procs, Command(p)
      PROVE  IInv'
  <2>1. PICK m \in InitP11Conditional(mem[p], p) :
            mem' = [mem EXCEPT ![p] = [m EXCEPT !.command = m.init /\ (@ \/ ~mem[p].init)]]
    BY <1>9 DEF Command, Step
  <2>2. Closed(mem[p]) /\ mem[p].init \in BOOLEAN
    BY <1>2, <1>9 DEF Command, Closed, Good, AnyImage
  <2>3. Closed(m)
    BY <2>1, <2>2, DeferredGood DEF InitP11Conditional
  <2>4. \A b \in BOOLEAN : Own([m EXCEPT !.command = b], p)
    BY <2>3 DEF Closed, Own, Good, KeyInv, AnyImage
  <2>5. (m.init /\ (m.command \/ ~mem[p].init)) \in BOOLEAN
    BY <2>2, <2>3 DEF Closed, Good, AnyImage
  <2> QED
    BY <2>1, <2>4, <2>5, StepInv
<1>10. ASSUME NEW p \in Procs, SetFinalizePending(p)
       PROVE  IInv'
  <2>1. Own(FiniP11(mem[p]), p)
    BY <1>2, <1>10, FiniGood DEF SetFinalizePending, Closed, Own
  <2> QED
    BY <1>10, <2>1, StepInv DEF SetFinalizePending, Step
<1>11. ASSUME NEW p \in Procs, ExitBegins(p)
       PROVE  IInv'
  <2>1. \A j : Closed(j) => Own([j EXCEPT !.exiting = TRUE], p)
    BY DEF Closed, Own, Good, KeyInv, AnyImage
  <2> QED
    BY <1>2, <1>11, <2>1, StepInv DEF ExitBegins, Step
<1>12. ASSUME NEW p \in Procs, ProcessEnds(p)
       PROVE  IInv'
  BY <1>12, BlankGood, StepInv DEF ProcessEnds, Closed, Own
<1>13. ASSUME NEW p \in Procs, NEW c \in Procs, Fork(p, c)
       PROVE  IInv'
  BY <1>2, <1>13, StepInv DEF Fork, Closed, Own
<1>14. ASSUME UNCHANGED vars
       PROVE  IInv'
  BY <1>14 DEF IInv, vars, KeyInv
<1> QED
  BY <1>3, <1>4, <1>5, <1>6, <1>7, <1>8, <1>9, <1>10, <1>11, <1>12, <1>13, <1>14 DEF Next

-----------------------------------------------------------------------------
(* When the identifiers are checked (DisableCheckFinalize = 0), the invariant holds for
   every tree of processes. *)
THEOREM ProcessSafety ==
    ASSUME CheckFinalize
    PROVE  Spec => []IInv
<1>1. IInv /\ [Next]_vars => IInv'
  BY NextInv
<1> QED
  BY InitInv, <1>1, PTL DEF Spec

(* Parent and child have different connections: a call of a process never runs on a
   library that its parent initialized. *)
THEOREM ConnectionsAreOwn ==
    ASSUME CheckFinalize
    PROVE  Spec => []OwnConnection
<1>1. IInv => OwnConnection
  BY DEF IInv, OwnConnection
<1> QED
  BY <1>1, ProcessSafety, PTL

(* A handle that a process inherited is found again before it is used: the count of
   initializations tells it from a current one, although parent and child count on
   from the same number. *)
THEOREM HandlesAreOfThisConnection ==
    ASSUME CheckFinalize
    PROVE  Spec => []HandleOfThisConnection
<1>1. IInv => HandleOfThisConnection
  BY DEF IInv, KeyInv, HandleOfThisConnection, Conn
<1> QED
  BY <1>1, ProcessSafety, PTL

-----------------------------------------------------------------------------
(* The engine and its providers. What contexts and initializations leave alone: *)
Keeps(n, m) ==
    /\ n \in AnyImage
    /\ n.ctxs = m.ctxs /\ n.refs = m.refs /\ n.have = m.have /\ n.exiting = m.exiting
    /\ n.pidBind = m.pidBind

LEMMA KeepsTrans == \A k, m, n : Keeps(n, m) /\ Keeps(m, k) => Keeps(n, k)
  BY DEF Keeps

LEMMA FiniKeeps ==
    ASSUME NEW m \in AnyImage
    PROVE  Keeps(FiniP11(m), m) /\ FiniP11(m).dso = m.dso /\ ~FiniP11(m).init
  BY DEF Keeps, FiniP11, AnyImage

LEMMA CountKeeps ==
    ASSUME NEW p \in Procs, NEW m \in AnyImage
    PROVE  Keeps(CountIntermediate(m, p), m)
<1>1. \A i \in Int : Keeps([m EXCEPT !.interCount = i, !.pidInter = p], m)
  BY DEF Keeps, AnyImage
<1>2. m.interCount + 1 \in Int
  BY DEF AnyImage
<1> QED
  BY <1>1, <1>2 DEF CountIntermediate, Keeps

LEMMA InitDoneKeeps ==
    ASSUME NEW p \in Procs, NEW m \in AnyImage, NEW n \in InitDone(m, p)
    PROVE  Keeps(n, m)
<1> DEFINE started == [m EXCEPT !.pidInit = p]
           counted == [started EXCEPT !.count = @ + 1]
           refused == [counted EXCEPT !.pw = IF @ = "read" THEN "refused" ELSE @]
           done == [counted EXCEPT !.init = TRUE]
<1>1. Keeps(started, m)
  BY DEF Keeps, AnyImage
<1>2. Keeps(counted, m)
  <2> HIDE DEF started
  <2>1. started.count + 1 \in Nat
    BY <1>1 DEF Keeps, AnyImage
  <2> QED
    BY <1>1, <2>1 DEF Keeps, AnyImage
<1>3. Keeps(refused, m) /\ Keeps(done, m)
  <2> HIDE DEF counted
  <2>1. (IF counted.pw = "read" THEN "refused" ELSE counted.pw) \in {"unread", "read", "refused"}
    BY <1>2 DEF Keeps, AnyImage
  <2>2. \A x \in {"unread", "read", "refused"} : Keeps([counted EXCEPT !.pw = x], m)
    BY <1>2 DEF Keeps, AnyImage
  <2>3. Keeps(done, m)
    BY <1>2 DEF Keeps, AnyImage
  <2> QED
    BY <2>1, <2>2, <2>3
<1> HIDE DEF started, counted, refused, done
<1>4. InitDone(m, p) = {started} \cup (IF LoginInit THEN {counted, refused} ELSE {counted})
                       \cup (IF LoginInit /\ m.pw # "read" THEN {} ELSE {done})
  BY DEF InitDone, started, counted, refused, done
<1> QED
  BY <1>1, <1>2, <1>3, <1>4

LEMMA ConditionalKeeps ==
    ASSUME NEW p \in Procs, NEW m \in AnyImage, NEW n \in InitP11Conditional(m, p)
    PROVE  Keeps(n, m)
<1>1. \A k \in LoadP11(m) : Keeps(k, m)
  BY DEF LoadP11, Keeps, AnyImage
<1>2. Keeps(m, m)
  BY DEF Keeps
<1>3. CASE m.init
  BY <1>2, <1>3 DEF InitP11Conditional
<1>4. CASE ~m.init
  <2>1. PICK k \in LoadP11(m) : n \in IF k.dso = "bound" THEN InitDone(k, p) ELSE {k}
    BY <1>4 DEF InitP11Conditional, InitP11Deferred
  <2>2. k \in AnyImage
    BY <1>1 DEF Keeps
  <2>3. Keeps(n, k)
    BY <2>1, <2>2, InitDoneKeeps DEF Keeps
  <2> QED
    BY <1>1, <2>3, KeepsTrans
<1> QED
  BY <1>3, <1>4

LEMMA RoleKeeps ==
    ASSUME NEW p \in Procs, NEW m \in AnyImage
    PROVE  Keeps(ChooseRole(m, p), m)
<1>1. \A k \in AnyImage, b \in BOOLEAN : Keeps([k EXCEPT !.inChild = b], k)
  BY DEF Keeps, AnyImage
<1>2. Keeps(CountIntermediate(m, p), m)
  BY CountKeeps
<1>3. CountIntermediate(m, p) \in AnyImage
  BY <1>2 DEF Keeps
<1>4. (CountIntermediate(m, p).interCount > IntermediateProcesses) \in BOOLEAN
  OBVIOUS
<1>5. Keeps([CountIntermediate(m, p) EXCEPT
               !.inChild = CountIntermediate(m, p).interCount > IntermediateProcesses], m)
  BY <1>1, <1>2, <1>3, <1>4, KeepsTrans
<1> QED
  BY <1>1, <1>5 DEF ChooseRole

LEMMA OpenSessionKeeps ==
    ASSUME NEW m \in AnyImage, NEW n \in OpenSession(m)
    PROVE  Keeps(n, m)
<1>1. \A c \in {"kept", "pending"} : Keeps([m EXCEPT !.call = c], m)
  BY DEF Keeps, AnyImage
<1> QED
  BY <1>1, FiniKeeps DEF OpenSession, Keeps

LEMMA OpenKeeps ==
    ASSUME NEW p \in Procs, NEW m \in AnyImage, NEW n \in OpenContext(m, p)
    PROVE  Keeps(n, m)
<1> DEFINE f == FinalizeInherited(m, p)
<1>1. Keeps(f, m)
  BY FiniKeeps DEF FinalizeInherited, Keeps
<1>2. PICK k \in InitP11Conditional(f, p) :
          n \in IF k.init THEN OpenSession(ChooseRole(k, p)) ELSE {k}
  BY DEF OpenContext
<1> HIDE DEF f
<1>3. f \in AnyImage
  BY <1>1 DEF Keeps
<1>4. Keeps(k, f)
  BY <1>2, <1>3, ConditionalKeeps
<1>5. k \in AnyImage
  BY <1>4 DEF Keeps
<1>6. Keeps(ChooseRole(k, p), k) /\ ChooseRole(k, p) \in AnyImage
  BY <1>5, RoleKeeps DEF Keeps
<1>7. Keeps(n, k)
  <2>1. CASE k.init
    <3>1. Keeps(n, ChooseRole(k, p))
      BY <1>2, <1>6, <2>1, OpenSessionKeeps
    <3> QED
      BY <1>6, <3>1, KeepsTrans
  <2>2. CASE ~k.init
    BY <1>2, <1>5, <2>2 DEF Keeps
  <2> QED
    BY <2>1, <2>2
<1> QED
  BY <1>1, <1>4, <1>7, KeepsTrans

LEMMA CloseKeeps ==
    ASSUME NEW m \in AnyImage
    PROVE  Keeps(CloseContext(m), m)
<1>1. Keeps([m EXCEPT !.call = "none"], m) /\ [m EXCEPT !.call = "none"] \in AnyImage
  BY DEF Keeps, AnyImage
<1>2. Keeps(FiniP11([m EXCEPT !.call = "none"]), m)
  BY <1>1, FiniKeeps, KeepsTrans
<1> QED
  BY <1>1, <1>2 DEF CloseContext

LEMMA InitEngineKeeps ==
    ASSUME NEW p \in Procs, NEW m \in AnyImage, NEW n \in InitEngine(m, p)
    PROVE  Keeps(n, m)
<1> DEFINE counted == IF p = m.pidBind THEN m ELSE CountIntermediate(m, p)
           read == [counted EXCEPT !.pw = "read"]
<1>1. Keeps(counted, m)
  BY CountKeeps DEF Keeps
<1>2. Keeps(read, m)
  <2> HIDE DEF counted
  <2> QED
    BY <1>1 DEF Keeps, AnyImage
<1> HIDE DEF counted, read
<1>3. PICK k \in {counted, read} : n \in {CloseContext(j) : j \in OpenContext(k, p)}
  BY DEF InitEngine, counted, read
<1>4. PICK j \in OpenContext(k, p) : n = CloseContext(j)
  BY <1>3
<1>5. Keeps(k, m) /\ k \in AnyImage
  BY <1>1, <1>2, <1>3 DEF Keeps
<1>6. Keeps(j, k) /\ j \in AnyImage
  BY <1>4, <1>5, OpenKeeps DEF Keeps
<1> QED
  BY <1>4, <1>5, <1>6, CloseKeeps, KeepsTrans

LEMMA BlankTyped == Blank \in AnyImage
  BY BlankGood DEF Closed, Good

(* An image follows its provider contexts: the reference count is their number, all of
   the engine is set up with the first, and cryptoki is gone with the last. *)
Live(m) == {c \in Ctxs : m.ctxs[c] = "live"}
Follows(m) ==
    ~m.exiting => /\ m.refs = Cardinality(Live(m))
                  /\ m.refs > 0 => m.have = Parts
                  /\ m.refs = 0 => ~m.init /\ m.dso = "none"
EngineInv == mem \in [Procs -> AnyImage] /\ \A p \in Procs : Follows(mem[p])

LEMMA EngineStep ==
    ASSUME EngineInv, NEW p \in Procs, NEW m \in AnyImage, Follows(m),
           mem' = [mem EXCEPT ![p] = m]
    PROVE  EngineInv'
  BY DEF EngineInv

(* A provider context that is live counts. *)
LEMMA LiveCounts ==
    ASSUME IsFiniteSet(Ctxs), NEW m, Follows(m), ~m.exiting, NEW c \in Ctxs, m.ctxs[c] = "live"
    PROVE  m.refs \in Nat /\ m.refs > 0
<1>1. c \in Live(m) /\ IsFiniteSet(Live(m))
  BY FS_Subset DEF Live
<1>2. Cardinality(Live(m)) \in Nat /\ Cardinality(Live(m)) # 0
  BY <1>1, FS_CardinalityType, FS_EmptySet
<1> QED
  BY <1>2 DEF Follows

(* What keeps the counted things of an engine in use keeps it following. *)
LEMMA KeepsFollows ==
    ASSUME NEW m, NEW n, Keeps(n, m), Follows(m), m.refs > 0
    PROVE  Follows(n)
  BY DEF Keeps, Follows, Live

(* So does what keeps them and neither loads nor initializes the library. *)
LEMMA QuietFollows ==
    ASSUME NEW m, NEW n, Keeps(n, m), Follows(m), n.dso = m.dso, n.init => m.init
    PROVE  Follows(n)
  BY DEF Keeps, Follows, Live

LEMMA DestroyKeeps ==
    ASSUME NEW m \in AnyImage
    PROVE  /\ DestroyEngine(m) \in AnyImage
           /\ DestroyEngine(m).ctxs = m.ctxs /\ DestroyEngine(m).refs = m.refs
           /\ DestroyEngine(m).exiting = m.exiting
           /\ ~m.exiting => ~DestroyEngine(m).init /\ DestroyEngine(m).dso = "none"
           /\ DestroyEngine(m).pidBind = m.pidBind
<1> DEFINE u == IF m.exiting THEN m ELSE [FiniP11(m) EXCEPT !.dso = "none"]
<1>1. /\ Keeps(u, m) /\ (~m.exiting => ~u.init /\ u.dso = "none")
  <2>1. FiniP11(m) \in AnyImage
    BY FiniKeeps DEF Keeps
  <2>2. LET k == [FiniP11(m) EXCEPT !.dso = "none"]
        IN Keeps(k, FiniP11(m)) /\ k.init = FiniP11(m).init /\ k.dso = "none"
    BY <2>1 DEF Keeps, AnyImage
  <2> QED
    BY <2>2, FiniKeeps DEF Keeps
<1> HIDE DEF u
<1>2. u \in AnyImage
  BY <1>1 DEF Keeps
<1>3. \A x \in {"unread", "read", "refused"} :
        LET k == [u EXCEPT !.pw = x, !.have = {}]
        IN k \in AnyImage /\ k.ctxs = u.ctxs /\ k.refs = u.refs /\ k.exiting = u.exiting
           /\ k.init = u.init /\ k.dso = u.dso /\ k.pidBind = u.pidBind
  BY <1>2 DEF AnyImage
<1>4. (IF m.inChild /\ LoginInit THEN "unread" ELSE u.pw) \in {"unread", "read", "refused"}
  BY <1>2 DEF AnyImage
<1>5. DestroyEngine(m) = [u EXCEPT !.pw = IF m.inChild /\ LoginInit THEN "unread" ELSE u.pw,
                                   !.have = {}]
  BY <1>2 DEF DestroyEngine, u, AnyImage
<1> QED
  BY <1>1, <1>3, <1>4, <1>5 DEF Keeps

(* A failure to bind the engine leaves no library behind. *)
LEMMA BindFailsFollows ==
    ASSUME NEW p \in Procs, NEW m \in AnyImage, Follows(m), ~m.exiting, m.refs = 0,
           NEW n \in BindFails(BindStarted(m, p))
    PROVE  n \in AnyImage /\ Follows(n)
<1> DEFINE b == BindStarted(m, p)
           made(parts) == [b EXCEPT !.have = @ \cup parts]
           unset == made({"mutex", "prop", "methods"})
           Unbound(k) == /\ k \in AnyImage /\ k.ctxs = m.ctxs /\ k.refs = 0
                         /\ ~k.exiting /\ ~k.init /\ k.dso = "none"
<1>1. Unbound(b)
  <2>1. \A q \in Procs \cup {NoProc} : Unbound([m EXCEPT !.pidBind = q])
    BY DEF Follows, AnyImage
  <2>2. m.pidBind \in Procs \cup {NoProc}
    BY DEF AnyImage
  <2> QED
    BY <2>1, <2>2 DEF BindStarted
<1>2. \A parts \in SUBSET Parts : Unbound(made(parts))
  <2> HIDE DEF b
  <2> QED
    BY <1>1 DEF AnyImage
<1>3. Unbound(made({"mutex"})) /\ Unbound(made({"mutex", "prop"})) /\ Unbound(unset)
  BY <1>2 DEF Parts
<1>4. Unbound(DestroyEngine(unset))
  BY <1>3, DestroyKeeps
<1>5. \A k \in {b, made({"mutex"}), made({"mutex", "prop"}), unset, DestroyEngine(unset)} : Unbound(k)
  BY <1>1, <1>3, <1>4
<1>6. n \in {b, made({"mutex"}), made({"mutex", "prop"}), unset, DestroyEngine(unset)}
  BY DEF BindFails
<1>7. Unbound(n)
  <2> HIDE DEF b, made, unset, Unbound
  <2> QED
    BY <1>5, <1>6
<1> QED
  BY <1>7 DEF Follows, Live

(* A provider context more. *)
LEMMA ProviderInitFollows ==
    ASSUME IsFiniteSet(Ctxs), NEW p \in Procs, NEW c \in Ctxs, NEW m \in AnyImage, Follows(m),
           ~m.exiting, m.ctxs[c] = "none",
           NEW n \in IF m.refs > 0 THEN {m} ELSE InitEngine(BindOk(BindStarted(m, p)), p)
    PROVE  LET k == [n EXCEPT !.ctxs[c] = "live", !.refs = @ + 1]
           IN k \in AnyImage /\ Follows(k)
<1> DEFINE k == [n EXCEPT !.ctxs[c] = "live", !.refs = @ + 1]
           b == BindOk(BindStarted(m, p))
<1>1. /\ b \in AnyImage /\ b.have = Parts /\ b.ctxs = m.ctxs /\ b.refs = m.refs /\ ~b.exiting
  <2>1. \A q \in Procs \cup {NoProc} : LET j == [m EXCEPT !.pidBind = q]
           IN j \in AnyImage /\ j.ctxs = m.ctxs /\ j.refs = m.refs /\ ~j.exiting
    BY DEF AnyImage
  <2>2. m.pidBind \in Procs \cup {NoProc}
    BY DEF AnyImage
  <2>3. /\ BindStarted(m, p) \in AnyImage /\ BindStarted(m, p).ctxs = m.ctxs
        /\ BindStarted(m, p).refs = m.refs /\ ~BindStarted(m, p).exiting
    BY <2>1, <2>2 DEF BindStarted
  <2> QED
    BY <2>3 DEF BindOk, AnyImage
<1>2. /\ n \in AnyImage /\ n.have = Parts /\ n.ctxs = m.ctxs /\ n.refs = m.refs /\ ~n.exiting
  <2> HIDE DEF b
  <2>1. CASE m.refs > 0
    BY <2>1 DEF Follows
  <2>2. CASE ~(m.refs > 0)
    <3>1. n \in InitEngine(b, p)
      BY <2>2 DEF b
    <3>2. Keeps(n, b)
      BY <1>1, <3>1, InitEngineKeeps
    <3> QED
      BY <1>1, <3>2 DEF Keeps
  <2> QED
    BY <2>1, <2>2
<1>3. m.refs = Cardinality(Live(m)) /\ m.refs \in Nat /\ IsFiniteSet(Live(m)) /\ c \notin Live(m)
  BY FS_Subset, FS_CardinalityType DEF Live, Follows
<1>4. k \in AnyImage /\ k.ctxs = [m.ctxs EXCEPT ![c] = "live"] /\ k.refs = m.refs + 1
      /\ k.have = Parts
  <2>1. [m.ctxs EXCEPT ![c] = "live"] \in [Ctxs -> {"none", "live"}]
    BY DEF AnyImage
  <2>2. m.refs + 1 \in Int
    BY <1>3
  <2> QED
    BY <1>2, <2>1, <2>2 DEF AnyImage
<1>5. Live(k) = Live(m) \cup {c}
  <2>1. m.ctxs \in [Ctxs -> {"none", "live"}]
    BY DEF AnyImage
  <2> HIDE DEF k
  <2> QED
    BY <1>4, <2>1 DEF Live
<1>6. Cardinality(Live(k)) = m.refs + 1
  BY <1>3, <1>5, FS_AddElement
<1> HIDE DEF k
<1>7. k \in AnyImage /\ Follows(k)
  BY <1>3, <1>4, <1>6 DEF Follows
<1> QED
  BY <1>7 DEF k

(* A provider context less, and with the last one the library is finalized and unloaded. *)
LEMMA TeardownFollows ==
    ASSUME IsFiniteSet(Ctxs), NEW c \in Ctxs, NEW m \in AnyImage, Follows(m),
           m.ctxs[c] = "live"
    PROVE  LET k == [EngineFini(m) EXCEPT !.ctxs[c] = "none"]
           IN k \in AnyImage /\ Follows(k)
<1> DEFINE n == EngineFini(m)
           k == [n EXCEPT !.ctxs[c] = "none"]
<1>1. n \in AnyImage /\ n.ctxs = m.ctxs /\ n.exiting = m.exiting
      /\ (~m.exiting => IF m.refs > 1 THEN n.refs = m.refs - 1 /\ n.have = m.have
                        ELSE n.refs = 0 /\ ~n.init /\ n.dso = "none")
  <2>1. m.refs - 1 \in Int
    BY DEF AnyImage
  <2>2. \A i \in Int, j \in AnyImage : LET h == [j EXCEPT !.refs = i]
          IN h \in AnyImage /\ h.ctxs = j.ctxs /\ h.exiting = j.exiting /\ h.refs = i
             /\ h.have = j.have /\ h.init = j.init /\ h.dso = j.dso
    BY DEF AnyImage
  <2> QED
    BY <2>1, <2>2, DestroyKeeps DEF EngineFini
<1>2. k \in AnyImage /\ k.ctxs = [m.ctxs EXCEPT ![c] = "none"] /\ k.refs = n.refs
      /\ k.have = n.have /\ k.exiting = m.exiting /\ k.init = n.init /\ k.dso = n.dso
  <2>1. [m.ctxs EXCEPT ![c] = "none"] \in [Ctxs -> {"none", "live"}]
    BY DEF AnyImage
  <2> HIDE DEF n
  <2> QED
    BY <1>1, <2>1 DEF AnyImage
<1>3. Live(k) = Live(m) \ {c}
  <2>1. m.ctxs \in [Ctxs -> {"none", "live"}]
    BY DEF AnyImage
  <2> HIDE DEF k
  <2> QED
    BY <1>2, <2>1 DEF Live
<1> HIDE DEF k, n
<1>4. ASSUME ~m.exiting
      PROVE  Follows(k)
  <2>1. m.refs = Cardinality(Live(m)) /\ m.refs \in Nat /\ IsFiniteSet(Live(m)) /\ c \in Live(m)
        /\ m.have = Parts /\ m.refs > 0
    BY <1>4, FS_Subset, FS_CardinalityType, LiveCounts DEF Live, Follows
  <2>2. Cardinality(Live(k)) = m.refs - 1
    BY <1>3, <2>1, FS_RemoveElement
  <2> QED
    BY <1>1, <1>2, <1>4, <2>1, <2>2 DEF Follows
<1> QED
  BY <1>2, <1>4 DEF Follows, k, n

LEMMA EngineNext ==
    ASSUME IsFiniteSet(Ctxs), EngineInv, [Next]_vars
    PROVE  EngineInv'
<1>1. \A p \in Procs : mem[p] \in AnyImage /\ Follows(mem[p])
  BY DEF EngineInv
<1>2. ASSUME NEW p \in Procs, NEW c \in Ctxs, ProviderBindFails(p, c)
      PROVE  EngineInv'
  <2>1. PICK m \in BindFails(BindStarted(mem[p], p)) : mem' = [mem EXCEPT ![p] = m]
    BY <1>2 DEF ProviderBindFails
  <2>2. m \in AnyImage /\ Follows(m)
    BY <1>1, <1>2, <2>1, BindFailsFollows DEF ProviderBindFails, Loads
  <2> QED
    BY <2>1, <2>2, EngineStep
<1>3. ASSUME NEW p \in Procs, NEW c \in Ctxs, ProviderInit(p, c)
      PROVE  EngineInv'
  <2>1. PICK n \in IF mem[p].refs > 0 THEN {mem[p]}
                   ELSE InitEngine(BindOk(BindStarted(mem[p], p)), p) :
            mem' = [mem EXCEPT ![p] = [n EXCEPT !.ctxs[c] = "live", !.refs = @ + 1]]
    BY <1>3 DEF ProviderInit, Step
  <2>2. LET k == [n EXCEPT !.ctxs[c] = "live", !.refs = @ + 1]
        IN k \in AnyImage /\ Follows(k)
    BY <1>1, <1>3, <2>1, ProviderInitFollows DEF ProviderInit, Loads
  <2> QED
    BY <2>1, <2>2, EngineStep
<1>4. ASSUME NEW p \in Procs, NEW c \in Ctxs, Teardown(p, c)
      PROVE  EngineInv'
  <2>1. mem' = [mem EXCEPT ![p] = [EngineFini(mem[p]) EXCEPT !.ctxs[c] = "none"]]
    BY <1>4 DEF Teardown, Step
  <2>2. LET k == [EngineFini(mem[p]) EXCEPT !.ctxs[c] = "none"] IN k \in AnyImage /\ Follows(k)
    BY <1>1, <1>4, TeardownFollows DEF Teardown
  <2> QED
    BY <2>1, <2>2, EngineStep
<1>5. ASSUME NEW p \in Procs, Open(p)
      PROVE  EngineInv'
  <2>1. PICK m \in OpenContext(mem[p], p) : mem' = [mem EXCEPT ![p] = m]
    BY <1>5 DEF Open, Step
  <2>2. Keeps(m, mem[p])
    BY <1>1, <2>1, OpenKeeps
  <2>3. mem[p].refs > 0
    BY <1>1, <1>5, LiveCounts DEF Open, InUse
  <2>4. m \in AnyImage /\ Follows(m)
    BY <1>1, <2>2, <2>3, KeepsFollows DEF Keeps
  <2> QED
    BY <2>1, <2>4, EngineStep
<1>6. ASSUME NEW p \in Procs, UseKey(p)
      PROVE  EngineInv'
  <2> DEFINE key == [count |-> mem[p].count, conn |-> Conn(mem[p])]
             m == [mem[p] EXCEPT !.key = key]
  <2>1. key \in [count : Nat, conn : (Procs \cup {NoProc}) \X Nat]
    BY <1>1 DEF Conn, NoConn, AnyImage
  <2> HIDE DEF key
  <2>2. \A j \in AnyImage : LET h == [j EXCEPT !.key = key]
                            IN Keeps(h, j) /\ h.dso = j.dso /\ h.init = j.init
    BY <2>1 DEF Keeps, AnyImage
  <2>3. m \in AnyImage /\ Follows(m)
    <3>1. Keeps(m, mem[p]) /\ m.dso = mem[p].dso /\ m.init = mem[p].init
      BY <1>1, <2>2
    <3> HIDE DEF m
    <3> QED
      BY <1>1, <3>1, QuietFollows DEF Keeps
  <2>4. mem' = [mem EXCEPT ![p] = m]
    BY <1>6 DEF UseKey, Step, key
  <2> HIDE DEF m
  <2> QED
    BY <2>3, <2>4, EngineStep
<1>7. ASSUME NEW p \in Procs, Close(p)
      PROVE  EngineInv'
  <2> DEFINE m == CloseContext(mem[p])
  <2>1. /\ Keeps(m, mem[p]) /\ m.dso = mem[p].dso /\ (m.init => mem[p].init)
    <3>1. \A j \in AnyImage : LET h == [j EXCEPT !.call = "none"]
                              IN h \in AnyImage /\ h.dso = j.dso /\ h.init = j.init
      BY DEF AnyImage
    <3> QED
      BY <1>1, <3>1, CloseKeeps, FiniKeeps DEF CloseContext
  <2>2. m \in AnyImage /\ Follows(m)
    BY <1>1, <2>1, QuietFollows DEF Keeps
  <2> HIDE DEF m
  <2>3. FiniP11(m) \in AnyImage /\ Follows(FiniP11(m))
    BY <2>2, FiniKeeps, QuietFollows DEF Keeps
  <2>4. PICK k \in {m, FiniP11(m)} : mem' = [mem EXCEPT ![p] = k]
    BY <1>7 DEF Close, Step, m
  <2> QED
    BY <2>2, <2>3, <2>4, EngineStep
<1>8. ASSUME NEW p \in Procs, Command(p)
      PROVE  EngineInv'
  <2>1. PICK m \in InitP11Conditional(mem[p], p) :
            mem' = [mem EXCEPT ![p] = [m EXCEPT !.command = m.init /\ (@ \/ ~mem[p].init)]]
    BY <1>8 DEF Command, Step
  <2>2. Keeps(m, mem[p]) /\ mem[p].refs > 0
    BY <1>1, <1>8, <2>1, ConditionalKeeps, LiveCounts DEF Command, InUse
  <2>3. m \in AnyImage /\ Follows(m) /\ m.refs > 0
    BY <1>1, <2>2, KeepsFollows DEF Keeps
  <2>4. \A b \in BOOLEAN : Keeps([m EXCEPT !.command = b], m)
    BY <2>3 DEF Keeps, AnyImage
  <2>5. (m.init /\ (m.command \/ ~mem[p].init)) \in BOOLEAN
    BY <1>1, <2>3 DEF AnyImage
  <2>6. \A b \in BOOLEAN : [m EXCEPT !.command = b] \in AnyImage /\ Follows([m EXCEPT !.command = b])
    BY <2>3, <2>4, KeepsFollows DEF Keeps
  <2> QED
    BY <2>1, <2>5, <2>6, EngineStep
<1>9. ASSUME NEW p \in Procs, SetFinalizePending(p)
      PROVE  EngineInv'
  <2>1. FiniP11(mem[p]) \in AnyImage /\ Follows(FiniP11(mem[p]))
    BY <1>1, FiniKeeps, QuietFollows DEF Keeps
  <2> QED
    BY <1>9, <2>1, EngineStep DEF SetFinalizePending, Step
<1>10. ASSUME NEW p \in Procs, ExitBegins(p)
       PROVE  EngineInv'
  <2>1. \A j \in AnyImage : [j EXCEPT !.exiting = TRUE] \in AnyImage
                            /\ [j EXCEPT !.exiting = TRUE].exiting
    BY DEF AnyImage
  <2> DEFINE m == [mem[p] EXCEPT !.exiting = TRUE]
  <2>2. m \in AnyImage /\ m.exiting
    BY <1>1, <2>1
  <2>3. mem' = [mem EXCEPT ![p] = m]
    BY <1>10 DEF ExitBegins, Step
  <2> HIDE DEF m
  <2>4. Follows(m)
    BY <2>2 DEF Follows
  <2> QED
    BY <2>2, <2>3, <2>4, EngineStep
<1>11. Blank \in AnyImage /\ Follows(Blank)
  <2>1. Live(Blank) = {} /\ Blank.refs = 0 /\ ~Blank.init /\ Blank.dso = "none"
    BY DEF Live, Blank
  <2> QED
    BY <2>1, FS_EmptySet, BlankTyped DEF Follows
<1>12. ASSUME NEW p \in Procs, ProcessEnds(p)
       PROVE  EngineInv'
  BY <1>11, <1>12, EngineStep DEF ProcessEnds
<1>13. ASSUME NEW p \in Procs, NEW c \in Procs, Fork(p, c)
       PROVE  EngineInv'
  BY <1>1, <1>13, EngineStep DEF Fork
<1>14. ASSUME UNCHANGED vars
       PROVE  EngineInv'
  BY <1>14 DEF EngineInv, vars
<1> QED
  BY <1>2, <1>3, <1>4, <1>5, <1>6, <1>7, <1>8, <1>9, <1>10, <1>12, <1>13, <1>14 DEF Next

LEMMA EngineInit == Init => EngineInv
<1>1. Live(Blank) = {} /\ Blank.refs = 0 /\ ~Blank.init /\ Blank.dso = "none"
  BY DEF Live, Blank
<1>2. Blank \in AnyImage /\ Follows(Blank)
  BY <1>1, FS_EmptySet, BlankTyped DEF Follows
<1> QED
  BY <1>2 DEF Init, EngineInv

(* The engine lives as long as the provider: while a provider context is live all that
   luna_bind_engine makes is there, and after the last teardown, in any order of loads,
   failed loads and teardowns, no library is left loaded or initialized. *)
THEOREM EngineFollows ==
    ASSUME IsFiniteSet(Ctxs)
    PROVE  Spec => []EngineFollowsProviders
<1>1. EngineInv => EngineFollowsProviders
  BY DEF EngineInv, EngineFollowsProviders, Follows, Live
<1>2. EngineInv /\ [Next]_vars => EngineInv'
  BY EngineNext
<1> QED
  BY EngineInit, <1>1, <1>2, PTL DEF Spec
-----------------------------------------------------------------------------
(* The fork protocol: with IntermediateProcesses set to the number of processes between
   the root and those that work, no process finalizes a connection that another one made
   for its calls. *)
(* A process d forks below the root is counted at most d times, once it has counted
   itself, and keeps its connection only when it is below the intermediate ones. *)
Counted(m, p, d) ==
    /\ m.inChild => m.interCount > IntermediateProcesses
    /\ m.interCount <= IF m.pidInter = p \/ d = 0 THEN d ELSE d - 1

(* Between calls, and in calls that are not to finalize, a process has a connection of
   its own only if it keeps it, or a command left it. *)
KeepsByRole(m, p) ==
    m.init /\ m.pidInit = p /\ ~m.command /\ m.call # "pending" => m.inChild

(* The process that bound the engine is not counted, and the root binds it itself if
   it loads it at all. *)
Bound(m, p, d) ==
    /\ d = 0 => m.pidBind \in {NoProc, p}
    /\ (\E c \in Ctxs : m.ctxs[c] = "live") => m.pidBind # NoProc

Role(m, p, d) == Counted(m, p, d) /\ KeepsByRole(m, p) /\ Bound(m, p, d)

(* How one process changes its connection: to none, to a new one, or not; and a
   connection that a command left stays one. *)
Moves(n, m, p) ==
    /\ n.count >= m.count
    /\ n.pidInit \in {m.pidInit, p} /\ n.pidInter \in {m.pidInter, p}
    /\ n.init => \/ n.pidInit = p /\ n.count > m.count
                 \/ /\ m.init /\ n.pidInit = m.pidInit /\ n.count = m.count
                    /\ m.command => n.command

(* The same identifiers and counts of the role. *)
SameRole(n, m) ==
    n.inChild = m.inChild /\ n.interCount = m.interCount /\ n.pidInter = m.pidInter

(* The state of a process that others have inherited: a copy of its connection is not
   newer, and if it is the current one, a command has left it. *)
ForkInv ==
    /\ mem \in [Procs -> AnyImage] /\ depth \in [Procs -> Nat]
    /\ status \in [Procs -> {"unborn", "running", "gone"}]
    /\ \A p \in Procs : Role(mem[p], p, depth[p])
    /\ \A p, q \in Procs : status[q] = "unborn" => mem[p].pidInit # q /\ mem[p].pidInter # q
    /\ \A p, q \in Procs : p # q /\ mem[p].init /\ mem[p].pidInit = q /\ status[q] = "running" =>
         /\ mem[p].count <= mem[q].count
         /\ mem[q].init /\ mem[q].pidInit = q /\ mem[q].count = mem[p].count => mem[q].command

LEMMA MovesTrans ==
    ASSUME NEW p \in Procs, NEW k \in AnyImage, NEW m \in AnyImage, NEW n \in AnyImage,
           Moves(m, k, p), Moves(n, m, p)
    PROVE  Moves(n, k, p)
<1>1. k.count \in Nat /\ m.count \in Nat /\ n.count \in Nat
  BY DEF AnyImage
<1> QED
  BY <1>1 DEF Moves

LEMMA MovesRefl == \A p \in Procs, m \in AnyImage : Moves(m, m, p) /\ SameRole(m, m)
<1>1. \A m \in AnyImage : m.count \in Nat
  BY DEF AnyImage
<1> QED
  BY <1>1 DEF Moves, SameRole

(* What changes neither identifiers nor counts nor the connection is no move. *)
LEMMA OtherMoves ==
    ASSUME NEW p \in Procs, NEW m \in AnyImage, NEW n, n.count = m.count,
           n.pidInit = m.pidInit, n.pidInter = m.pidInter, n.init = m.init,
           m.command => n.command
    PROVE  Moves(n, m, p)
<1>1. m.count \in Nat
  BY DEF AnyImage
<1> QED
  BY <1>1 DEF Moves

LEMMA FiniMoves ==
    ASSUME NEW p \in Procs, NEW m \in AnyImage
    PROVE  Moves(FiniP11(m), m, p) /\ SameRole(FiniP11(m), m)
  BY DEF Moves, SameRole, FiniP11, AnyImage

LEMMA InitDoneMoves ==
    ASSUME NEW p \in Procs, NEW m \in AnyImage, ~m.init, NEW n \in InitDone(m, p)
    PROVE  Moves(n, m, p) /\ SameRole(n, m) /\ n.call = m.call
<1> DEFINE started == [m EXCEPT !.pidInit = p]
           counted == [started EXCEPT !.count = @ + 1]
           refused == [counted EXCEPT !.pw = IF @ = "read" THEN "refused" ELSE @]
           done == [counted EXCEPT !.init = TRUE]
           Ok(k) == /\ k \in AnyImage /\ k.pidInit = p /\ SameRole(k, m) /\ k.call = m.call
                    /\ k.count \in Nat /\ m.count \in Nat
<1>1. Ok(started) /\ started.count = m.count /\ ~started.init
  BY DEF SameRole, AnyImage
<1>2. Ok(counted) /\ counted.count = m.count + 1 /\ ~counted.init
  <2> HIDE DEF started
  <2>1. started.count + 1 \in Nat
    BY <1>1
  <2> QED
    BY <1>1, <2>1 DEF SameRole, AnyImage
<1>3. Ok(refused) /\ refused.count = m.count + 1 /\ ~refused.init
  <2> HIDE DEF counted
  <2>1. \A x \in {"unread", "read", "refused"} :
          LET k == [counted EXCEPT !.pw = x] IN Ok(k) /\ k.count = counted.count /\ ~k.init
    BY <1>2 DEF SameRole, AnyImage
  <2>2. (IF counted.pw = "read" THEN "refused" ELSE counted.pw) \in {"unread", "read", "refused"}
    BY <1>2 DEF AnyImage
  <2> QED
    BY <1>2, <2>1, <2>2
<1>4. Ok(done) /\ done.count = m.count + 1
  <2> HIDE DEF counted
  <2> QED
    BY <1>2 DEF SameRole, AnyImage
<1> HIDE DEF started, counted, refused, done
<1>5. InitDone(m, p) = {started} \cup (IF LoginInit THEN {counted, refused} ELSE {counted})
                       \cup (IF LoginInit /\ m.pw # "read" THEN {} ELSE {done})
  BY DEF InitDone, started, counted, refused, done
<1>6. n \in {started, counted, refused, done}
  BY <1>5
<1>7. Ok(n) /\ (n.count = m.count + 1 \/ (n.count = m.count /\ ~n.init))
  BY <1>1, <1>2, <1>3, <1>4, <1>6
<1> QED
  BY <1>7 DEF Moves, SameRole

LEMMA ConditionalMoves ==
    ASSUME NEW p \in Procs, NEW m \in AnyImage, NEW n \in InitP11Conditional(m, p)
    PROVE  /\ n \in AnyImage /\ Moves(n, m, p) /\ SameRole(n, m) /\ n.call = m.call
           /\ n.init /\ m.init => n = m
<1>1. \A k \in LoadP11(m) : /\ k \in AnyImage /\ Moves(k, m, p) /\ SameRole(k, m)
                            /\ k.init = m.init /\ k.call = m.call
  <2>1. \A d \in {m.dso, "open", "bound"} : LET k == [m EXCEPT !.dso = d]
          IN /\ k \in AnyImage /\ k.count = m.count /\ k.pidInit = m.pidInit
             /\ k.pidInter = m.pidInter /\ k.init = m.init /\ k.command = m.command
             /\ SameRole(k, m) /\ k.call = m.call
    BY DEF SameRole, AnyImage
  <2>2. \A k \in LoadP11(m) : k = m \/ \E d \in {m.dso, "open", "bound"} : k = [m EXCEPT !.dso = d]
    BY DEF LoadP11
  <2>3. TAKE k \in LoadP11(m)
  <2>4. CASE k = m
    BY <2>4, MovesRefl
  <2>5. CASE k # m
    <3>1. PICK d \in {m.dso, "open", "bound"} : k = [m EXCEPT !.dso = d]
      BY <2>2, <2>5
    <3>2. /\ k \in AnyImage /\ k.count = m.count /\ k.pidInit = m.pidInit
          /\ k.pidInter = m.pidInter /\ k.init = m.init /\ k.command = m.command
          /\ SameRole(k, m) /\ k.call = m.call
      BY <2>1, <3>1
    <3> QED
      BY <3>2, OtherMoves
  <2> QED
    BY <2>4, <2>5
<1>2. CASE m.init
  BY <1>2, MovesRefl DEF InitP11Conditional
<1>3. CASE ~m.init
  <2>1. PICK k \in LoadP11(m) : n \in IF k.dso = "bound" THEN InitDone(k, p) ELSE {k}
    BY <1>3 DEF InitP11Conditional, InitP11Deferred
  <2>2. /\ k \in AnyImage /\ Moves(k, m, p) /\ SameRole(k, m) /\ ~k.init /\ k.call = m.call
    BY <1>1, <1>3, <2>1
  <2>3. n \in AnyImage /\ Moves(n, k, p) /\ SameRole(n, k) /\ n.call = k.call
    BY <2>1, <2>2, InitDoneMoves, InitDoneKeeps, MovesRefl DEF Keeps
  <2>4. Moves(n, m, p)
    BY <2>2, <2>3, MovesTrans
  <2> QED
    BY <1>3, <2>2, <2>3, <2>4 DEF SameRole
<1> QED
  BY <1>2, <1>3

(* A process other than the one that bound the engine counts itself. *)
LEMMA CountCounted ==
    ASSUME NEW p \in Procs, NEW m \in AnyImage, NEW d \in Nat, Counted(m, p, d), d # 0
    PROVE  LET n == CountIntermediate(m, p)
           IN n \in AnyImage /\ Moves(n, m, p) /\ Counted(n, p, d) /\ n.pidInter = p
              /\ n.call = m.call /\ n.init = m.init
<1> DEFINE k == [m EXCEPT !.interCount = @ + 1, !.pidInter = p]
<1>1. m.interCount \in Int /\ m.interCount + 1 \in Int /\ IntermediateProcesses \in Int
  BY ConfigAssumption DEF AnyImage
<1>2. /\ k \in AnyImage /\ k.count = m.count /\ k.pidInit = m.pidInit /\ k.pidInter = p
      /\ k.init = m.init /\ k.command = m.command /\ k.call = m.call
      /\ k.interCount = m.interCount + 1 /\ k.inChild = m.inChild
  BY <1>1 DEF AnyImage
<1> HIDE DEF k
<1>3. m.pidInter # p => Counted(k, p, d)
  BY <1>1, <1>2 DEF Counted
<1>4. Moves(k, m, p)
  <2>1. m.count \in Nat
    BY DEF AnyImage
  <2> QED
    BY <1>2, <2>1 DEF Moves
<1> QED
  BY <1>2, <1>3, <1>4, MovesRefl DEF CountIntermediate, k

(* The role of a process that calls. *)
LEMMA RoleMoves ==
    ASSUME CheckFinalize, NEW p \in Procs, NEW d \in Nat, NEW m \in AnyImage,
           Counted(m, p, d), d = 0 => p = m.pidBind
    PROVE  LET n == ChooseRole(m, p)
           IN n \in AnyImage /\ Moves(n, m, p) /\ Counted(n, p, d)
              /\ n.call = m.call /\ n.init = m.init
<1>1. \A b \in BOOLEAN, k \in AnyImage : LET j == [k EXCEPT !.inChild = b]
        IN /\ j \in AnyImage /\ j.count = k.count /\ j.pidInit = k.pidInit
           /\ j.pidInter = k.pidInter /\ j.init = k.init /\ j.command = k.command
           /\ j.call = k.call /\ j.interCount = k.interCount /\ j.inChild = b
  BY DEF AnyImage
<1>2. CASE p = m.pidBind
  <2> DEFINE n == [m EXCEPT !.inChild = FALSE]
  <2>1. /\ n \in AnyImage /\ n.count = m.count /\ n.pidInit = m.pidInit
        /\ n.pidInter = m.pidInter /\ n.init = m.init /\ n.command = m.command
        /\ n.call = m.call /\ n.interCount = m.interCount /\ n.inChild = FALSE
    BY <1>1
  <2> HIDE DEF n
  <2>2. Moves(n, m, p) /\ Counted(n, p, d)
    BY <2>1, OtherMoves DEF Counted
  <2> QED
    BY <1>2, <2>1, <2>2 DEF ChooseRole, n
<1>3. CASE p # m.pidBind
  <2> DEFINE k == CountIntermediate(m, p)
             b == k.interCount > IntermediateProcesses
             n == [k EXCEPT !.inChild = b]
  <2>1. /\ k \in AnyImage /\ Moves(k, m, p) /\ Counted(k, p, d)
        /\ k.call = m.call /\ k.init = m.init
    BY <1>3, CountCounted
  <2> HIDE DEF k
  <2>2. /\ n \in AnyImage /\ n.count = k.count /\ n.pidInit = k.pidInit
        /\ n.pidInter = k.pidInter /\ n.init = k.init /\ n.command = k.command
        /\ n.call = k.call /\ n.interCount = k.interCount /\ n.inChild = b
    <3>1. b \in BOOLEAN
      OBVIOUS
    <3> HIDE DEF b
    <3> QED
      BY <1>1, <2>1, <3>1
  <2> HIDE DEF n
  <2>3. Moves(n, k, p) /\ Counted(n, p, d)
    BY <2>1, <2>2, OtherMoves DEF Counted
  <2>4. Moves(n, m, p)
    BY <2>1, <2>2, <2>3, MovesTrans
  <2> QED
    BY <1>3, <2>1, <2>2, <2>3, <2>4 DEF ChooseRole, n, k
<1> QED
  BY <1>2, <1>3

(* A call on the connection of this process, or on none. *)
LEMMA SessionRole ==
    ASSUME NEW p \in Procs, NEW d \in Nat, NEW m \in AnyImage, Counted(m, p, d),
           NEW n \in OpenSession(m)
    PROVE  n \in AnyImage /\ Moves(n, m, p) /\ Counted(n, p, d) /\ KeepsByRole(n, p)
<1>1. \A c \in {"kept", "pending"} : LET k == [m EXCEPT !.call = c]
        IN /\ k \in AnyImage /\ k.count = m.count /\ k.pidInit = m.pidInit
           /\ k.pidInter = m.pidInter /\ k.init = m.init /\ k.command = m.command
           /\ k.call = c /\ k.interCount = m.interCount /\ k.inChild = m.inChild
  BY DEF AnyImage
<1>2. /\ FiniP11(m) \in AnyImage /\ ~FiniP11(m).init
      /\ Moves(FiniP11(m), m, p) /\ SameRole(FiniP11(m), m)
  BY FiniKeeps, FiniMoves DEF Keeps
<1>3. \A c \in {"kept", "pending"} : LET k == [m EXCEPT !.call = c]
        IN k \in AnyImage /\ Moves(k, m, p) /\ Counted(k, p, d)
           /\ ((c = "kept" /\ ~m.inChild) \/ KeepsByRole(k, p))
  <2> TAKE c \in {"kept", "pending"}
  <2> DEFINE k == [m EXCEPT !.call = c]
  <2>1. /\ k \in AnyImage /\ k.count = m.count /\ k.pidInit = m.pidInit
        /\ k.pidInter = m.pidInter /\ k.init = m.init /\ k.command = m.command
        /\ k.call = c /\ k.interCount = m.interCount /\ k.inChild = m.inChild
    BY <1>1
  <2> HIDE DEF k
  <2>2. Moves(k, m, p) /\ Counted(k, p, d)
    BY <2>1, OtherMoves DEF Counted
  <2>3. (c = "kept" /\ ~m.inChild) \/ KeepsByRole(k, p)
    BY <2>1 DEF KeepsByRole
  <2>4. k \in AnyImage /\ Moves(k, m, p) /\ Counted(k, p, d)
        /\ ((c = "kept" /\ ~m.inChild) \/ KeepsByRole(k, p))
    BY <2>1, <2>2, <2>3
  <2> QED
    BY <2>4 DEF k
<1>4. CASE m.inChild
  <2>1. n \in {m, [m EXCEPT !.call = "kept"]}
    BY <1>4 DEF OpenSession
  <2>2. KeepsByRole(m, p) /\ Moves(m, m, p)
    BY <1>4, MovesRefl DEF KeepsByRole
  <2> QED
    BY <1>3, <1>4, <2>1, <2>2
<1>5. CASE ~m.inChild
  <2>1. n \in {FiniP11(m), [m EXCEPT !.call = "pending"]}
    BY <1>5 DEF OpenSession
  <2>2. Counted(FiniP11(m), p, d) /\ KeepsByRole(FiniP11(m), p)
    BY <1>2 DEF Counted, KeepsByRole, SameRole
  <2>3. n = FiniP11(m) \/ n = [m EXCEPT !.call = "pending"]
    BY <2>1
  <2>4. LET k == [m EXCEPT !.call = "pending"]
        IN k \in AnyImage /\ Moves(k, m, p) /\ Counted(k, p, d) /\ KeepsByRole(k, p)
    BY <1>3
  <2> QED
    BY <1>2, <2>2, <2>3, <2>4
<1> QED
  BY <1>4, <1>5

LEMMA OpenRole ==
    ASSUME CheckFinalize, NEW p \in Procs, NEW d \in Nat, NEW m \in AnyImage,
           Counted(m, p, d), d = 0 => p = m.pidBind, NEW n \in OpenContext(m, p)
    PROVE  n \in AnyImage /\ Moves(n, m, p) /\ Counted(n, p, d) /\ KeepsByRole(n, p)
<1> DEFINE f == FinalizeInherited(m, p)
<1>1. f \in AnyImage /\ Keeps(f, m) /\ Moves(f, m, p) /\ SameRole(f, m)
  BY FiniKeeps, FiniMoves, MovesRefl DEF FinalizeInherited, Keeps
<1>2. PICK k \in InitP11Conditional(f, p) :
          n \in IF k.init THEN OpenSession(ChooseRole(k, p)) ELSE {k}
  BY DEF OpenContext
<1> HIDE DEF f
<1>3. /\ k \in AnyImage /\ Moves(k, f, p) /\ SameRole(k, f) /\ Keeps(k, f)
  BY <1>1, <1>2, ConditionalMoves, ConditionalKeeps
<1>4. Moves(k, m, p) /\ Counted(k, p, d) /\ k.pidBind = m.pidBind
  BY <1>1, <1>3, MovesTrans DEF Counted, SameRole, Keeps
<1>5. CASE ~k.init
  BY <1>2, <1>3, <1>4, <1>5 DEF KeepsByRole
<1>6. CASE k.init
  <2> DEFINE j == ChooseRole(k, p)
  <2>1. j \in AnyImage /\ Moves(j, k, p) /\ Counted(j, p, d)
    BY <1>3, <1>4, RoleMoves
  <2>2. n \in OpenSession(j)
    BY <1>2, <1>6
  <2> HIDE DEF j
  <2>3. n \in AnyImage /\ Moves(n, j, p) /\ Counted(n, p, d) /\ KeepsByRole(n, p)
    BY <2>1, <2>2, SessionRole
  <2>4. Moves(n, k, p)
    BY <1>3, <2>1, <2>3, MovesTrans
  <2> QED
    BY <1>3, <1>4, <2>3, <2>4, MovesTrans
<1> QED
  BY <1>5, <1>6

(* A process that does not keep its connection loses it with the call. *)
LEMMA CloseRole ==
    ASSUME NEW p \in Procs, NEW d \in Nat, NEW m \in AnyImage,
           Counted(m, p, d), KeepsByRole(m, p)
    PROVE  LET n == CloseContext(m)
           IN n \in AnyImage /\ Moves(n, m, p) /\ Counted(n, p, d) /\ KeepsByRole(n, p)
<1> DEFINE k == [m EXCEPT !.call = "none"]
<1>1. /\ k \in AnyImage /\ k.count = m.count /\ k.pidInit = m.pidInit
      /\ k.pidInter = m.pidInter /\ k.init = m.init /\ k.command = m.command
      /\ k.interCount = m.interCount /\ k.inChild = m.inChild
  BY DEF AnyImage
<1> HIDE DEF k
<1>2. Moves(k, m, p) /\ Counted(k, p, d)
  BY <1>1, OtherMoves DEF Counted
<1>3. CASE m.call = "pending"
  <2>1. FiniP11(k) \in AnyImage /\ ~FiniP11(k).init /\ Moves(FiniP11(k), k, p)
        /\ SameRole(FiniP11(k), k)
    BY <1>1, FiniKeeps, FiniMoves DEF Keeps
  <2>2. Moves(FiniP11(k), m, p)
    BY <1>1, <1>2, <2>1, MovesTrans
  <2>3. Counted(FiniP11(k), p, d) /\ KeepsByRole(FiniP11(k), p)
    BY <1>2, <2>1 DEF Counted, KeepsByRole, SameRole
  <2> QED
    BY <1>3, <2>1, <2>2, <2>3 DEF CloseContext, k
<1>4. CASE m.call # "pending"
  <2>1. KeepsByRole(k, p)
    BY <1>1, <1>4 DEF KeepsByRole
  <2> QED
    BY <1>1, <1>2, <1>4, <2>1 DEF CloseContext, k
<1> QED
  BY <1>3, <1>4

LEMMA FiniRole ==
    ASSUME NEW p \in Procs, NEW d \in Nat, NEW m \in AnyImage, Counted(m, p, d)
    PROVE  LET n == FiniP11(m)
           IN n \in AnyImage /\ Moves(n, m, p) /\ Counted(n, p, d) /\ KeepsByRole(n, p)
<1>1. FiniP11(m) \in AnyImage /\ ~FiniP11(m).init /\ SameRole(FiniP11(m), m)
  BY FiniKeeps, FiniMoves DEF Keeps
<1> QED
  BY <1>1, FiniMoves DEF Counted, KeepsByRole, SameRole

(* Setting up the engine: no part of it touches the connection. *)
LEMMA InitEngineRole ==
    ASSUME CheckFinalize, NEW p \in Procs, NEW d \in Nat, NEW m \in AnyImage,
           Counted(m, p, d), KeepsByRole(m, p), d = 0 => p = m.pidBind,
           NEW n \in InitEngine(m, p)
    PROVE  n \in AnyImage /\ Moves(n, m, p) /\ Counted(n, p, d) /\ KeepsByRole(n, p)
<1> DEFINE counted == IF p = m.pidBind THEN m ELSE CountIntermediate(m, p)
           read == [counted EXCEPT !.pw = "read"]
           Ok(k) == /\ k \in AnyImage /\ Moves(k, m, p) /\ Counted(k, p, d)
                    /\ k.pidBind = m.pidBind
<1>1. Ok(counted)
  BY CountCounted, CountKeeps, MovesRefl DEF Keeps
<1>2. Ok(read)
  <2> HIDE DEF counted
  <2>1. /\ read \in AnyImage /\ read.count = counted.count /\ read.pidInit = counted.pidInit
        /\ read.pidInter = counted.pidInter /\ read.init = counted.init
        /\ read.command = counted.command /\ read.interCount = counted.interCount
        /\ read.inChild = counted.inChild /\ read.pidBind = counted.pidBind
    BY <1>1 DEF AnyImage
  <2> HIDE DEF read
  <2>2. Moves(read, counted, p)
    BY <1>1, <2>1, OtherMoves
  <2>3. Moves(read, m, p)
    BY <1>1, <2>1, <2>2, MovesTrans
  <2> QED
    BY <1>1, <2>1, <2>3 DEF Counted
<1> HIDE DEF counted, read
<1>3. PICK k \in {counted, read} : n \in {CloseContext(j) : j \in OpenContext(k, p)}
  BY DEF InitEngine, counted, read
<1>4. PICK j \in OpenContext(k, p) : n = CloseContext(j)
  BY <1>3
<1>5. Ok(k)
  BY <1>1, <1>2, <1>3
<1>6. j \in AnyImage /\ Moves(j, k, p) /\ Counted(j, p, d) /\ KeepsByRole(j, p)
  BY <1>4, <1>5, OpenRole
<1>7. n \in AnyImage /\ Moves(n, j, p) /\ Counted(n, p, d) /\ KeepsByRole(n, p)
  BY <1>4, <1>6, CloseRole
<1>8. Moves(j, m, p)
  BY <1>5, <1>6, MovesTrans
<1> QED
  BY <1>6, <1>7, <1>8, MovesTrans

LEMMA DestroyRole ==
    ASSUME NEW p \in Procs, NEW d \in Nat, NEW m \in AnyImage,
           Counted(m, p, d), KeepsByRole(m, p)
    PROVE  LET n == DestroyEngine(m)
           IN n \in AnyImage /\ Moves(n, m, p) /\ Counted(n, p, d) /\ KeepsByRole(n, p)
<1> DEFINE u == IF m.exiting THEN m ELSE [FiniP11(m) EXCEPT !.dso = "none"]
           n == DestroyEngine(m)
<1>1. u \in AnyImage /\ Moves(u, m, p) /\ Counted(u, p, d) /\ KeepsByRole(u, p)
  <2> DEFINE j == FiniP11(m)
             k == [j EXCEPT !.dso = "none"]
  <2>1. j \in AnyImage /\ Moves(j, m, p) /\ Counted(j, p, d) /\ KeepsByRole(j, p)
    BY FiniRole
  <2> HIDE DEF j
  <2>2. /\ k \in AnyImage /\ k.count = j.count /\ k.pidInit = j.pidInit /\ k.call = j.call
        /\ k.pidInter = j.pidInter /\ k.init = j.init /\ k.command = j.command
        /\ k.interCount = j.interCount /\ k.inChild = j.inChild
    BY <2>1 DEF AnyImage
  <2> HIDE DEF k
  <2>3. Moves(k, j, p) /\ Counted(k, p, d) /\ KeepsByRole(k, p)
    BY <2>1, <2>2, OtherMoves DEF Counted, KeepsByRole
  <2>4. Moves(k, m, p)
    BY <2>1, <2>2, <2>3, MovesTrans
  <2> QED
    BY <2>2, <2>3, <2>4, MovesRefl DEF j, k
<1> HIDE DEF u
<1>2. /\ n \in AnyImage /\ n.count = u.count /\ n.pidInit = u.pidInit /\ n.call = u.call
      /\ n.pidInter = u.pidInter /\ n.init = u.init /\ n.command = u.command
      /\ n.interCount = u.interCount /\ n.inChild = u.inChild
  <2>1. \A x \in {"unread", "read", "refused"} : LET k == [u EXCEPT !.pw = x, !.have = {}]
          IN /\ k \in AnyImage /\ k.count = u.count /\ k.pidInit = u.pidInit /\ k.call = u.call
             /\ k.pidInter = u.pidInter /\ k.init = u.init /\ k.command = u.command
             /\ k.interCount = u.interCount /\ k.inChild = u.inChild
    BY <1>1 DEF AnyImage
  <2>2. (IF m.inChild /\ LoginInit THEN "unread" ELSE u.pw) \in {"unread", "read", "refused"}
    BY <1>1 DEF AnyImage
  <2>3. n = [u EXCEPT !.pw = IF m.inChild /\ LoginInit THEN "unread" ELSE u.pw, !.have = {}]
    BY <1>1 DEF DestroyEngine, u, AnyImage
  <2> QED
    BY <2>1, <2>2, <2>3
<1> HIDE DEF n
<1>3. Moves(n, u, p) /\ Counted(n, p, d) /\ KeepsByRole(n, p)
  BY <1>1, <1>2, OtherMoves DEF Counted, KeepsByRole
<1>4. Moves(n, m, p)
  BY <1>1, <1>2, <1>3, MovesTrans
<1> QED
  BY <1>2, <1>3, <1>4 DEF n

-----------------------------------------------------------------------------
(* A step of one process that moves its connection and keeps its role keeps the
   invariant: who has a copy of the old connection has an older one, or the same, which
   a command left. *)
LEMMA MoveInv ==
    ASSUME ForkInv, NEW p \in Procs, NEW m \in AnyImage, status[p] = "running",
           Moves(m, mem[p], p), Role(m, p, depth[p]), mem' = [mem EXCEPT ![p] = m],
           UNCHANGED <<status, depth>>
    PROVE  ForkInv'
<1>1. mem' \in [Procs -> AnyImage] /\ \A q \in Procs : mem'[q] = IF q = p THEN m ELSE mem[q]
  BY DEF ForkInv
<1>2. \A q \in Procs : Role(mem'[q], q, depth'[q])
  BY <1>1 DEF ForkInv
<1>3. \A q, r \in Procs : status'[r] = "unborn" => mem'[q].pidInit # r /\ mem'[q].pidInter # r
  BY <1>1 DEF ForkInv, Moves
<1>4. ASSUME NEW q \in Procs, NEW r \in Procs, q # r, mem'[q].init, mem'[q].pidInit = r,
             status'[r] = "running"
      PROVE  /\ mem'[q].count <= mem'[r].count
             /\ mem'[r].init /\ mem'[r].pidInit = r /\ mem'[r].count = mem'[q].count
                  => mem'[r].command
  <2>0. /\ m.count \in Nat /\ \A x \in Procs : mem[x].count \in Nat
    BY DEF ForkInv, AnyImage
  <2>1. CASE q = p
    <3>1. mem[p].init /\ mem[p].pidInit = r /\ m.count = mem[p].count
      BY <1>1, <1>4, <2>1 DEF Moves
    <3> QED
      BY <1>1, <1>4, <2>1, <3>1 DEF ForkInv
  <2>2. CASE r = p
    <3>1. /\ mem[q].count <= mem[p].count
          /\ mem[p].init /\ mem[p].pidInit = p /\ mem[p].count = mem[q].count => mem[p].command
      BY <1>1, <1>4, <2>2 DEF ForkInv
    <3>2. mem'[q] = mem[q] /\ mem'[r] = m
      BY <1>1, <1>4, <2>2
    <3> QED
      BY <2>0, <2>2, <3>1, <3>2 DEF Moves
  <2>3. CASE q # p /\ r # p
    BY <1>1, <1>4, <2>3 DEF ForkInv
  <2> QED
    BY <2>1, <2>2, <2>3
<1> QED
  BY <1>1, <1>2, <1>3, <1>4 DEF ForkInv

(* An image that differs in what no role depends on. *)
Beside(n, m) ==
    /\ n \in AnyImage /\ n.count = m.count /\ n.pidInit = m.pidInit /\ n.call = m.call
    /\ n.pidInter = m.pidInter /\ n.init = m.init /\ n.command = m.command
    /\ n.interCount = m.interCount /\ n.inChild = m.inChild

LEMMA BesideRole ==
    ASSUME NEW p \in Procs, NEW d \in Nat, NEW m \in AnyImage, NEW n, Beside(n, m),
           Counted(m, p, d), KeepsByRole(m, p)
    PROVE  Moves(n, m, p) /\ Counted(n, p, d) /\ KeepsByRole(n, p)
  BY OtherMoves DEF Beside, Counted, KeepsByRole

(* The first process to load the engine binds it. *)
LEMMA BindBeside ==
    ASSUME NEW p \in Procs, NEW d \in Nat, NEW m \in AnyImage, Bound(m, p, d)
    PROVE  LET n == BindStarted(m, p)
           IN Beside(n, m) /\ n.ctxs = m.ctxs /\ n.pidBind # NoProc /\ (d = 0 => n.pidBind = p)
<1>1. \A q \in Procs \cup {NoProc} : LET n == [m EXCEPT !.pidBind = q]
        IN Beside(n, m) /\ n.ctxs = m.ctxs /\ n.pidBind = q
  BY DEF Beside, AnyImage
<1>2. m.pidBind \in Procs \cup {NoProc}
  BY DEF AnyImage
<1>3. p # NoProc
  BY ProcsAssumption
<1>4. LET n == BindStarted(m, p)
      IN Beside(n, m) /\ n.ctxs = m.ctxs
         /\ n.pidBind = IF m.pidBind = NoProc THEN p ELSE m.pidBind
  BY <1>1, <1>2 DEF BindStarted
<1> HIDE DEF Beside
<1> QED
  BY <1>3, <1>4 DEF Bound

(* Loading a provider that fails to bind the engine. *)
LEMMA BindFailsRole ==
    ASSUME NEW p \in Procs, NEW d \in Nat, NEW m \in AnyImage, Role(m, p, d),
           NEW n \in BindFails(BindStarted(m, p))
    PROVE  n \in AnyImage /\ Moves(n, m, p) /\ Role(n, p, d)
<1> DEFINE b == BindStarted(m, p)
           made(parts) == [b EXCEPT !.have = @ \cup parts]
           unset == made({"mutex", "prop", "methods"})
           Ok(k) == /\ k \in AnyImage /\ Moves(k, m, p) /\ Counted(k, p, d) /\ KeepsByRole(k, p)
                    /\ k.ctxs = b.ctxs /\ k.pidBind = b.pidBind
<1>1. Ok(b) /\ b.pidBind # NoProc /\ (d = 0 => b.pidBind = p)
  BY BindBeside, BesideRole DEF Role, Beside
<1>2. \A parts \in SUBSET Parts : Ok(made(parts))
  <2> TAKE parts \in SUBSET Parts
  <2> DEFINE k == made(parts)
  <2>1. Beside(k, b) /\ k.ctxs = b.ctxs /\ k.pidBind = b.pidBind
    <3> HIDE DEF b
    <3> QED
      BY <1>1 DEF Beside, AnyImage
  <2> HIDE DEF b, k
  <2>2. Moves(k, b, p) /\ Counted(k, p, d) /\ KeepsByRole(k, p) /\ k \in AnyImage
    BY <1>1, <2>1, BesideRole DEF Beside
  <2>3. Moves(k, m, p)
    BY <1>1, <2>2, MovesTrans
  <2> QED
    BY <2>1, <2>2, <2>3 DEF k
<1>3. Ok(made({"mutex"})) /\ Ok(made({"mutex", "prop"})) /\ Ok(unset)
  BY <1>2 DEF Parts
<1>4. Ok(DestroyEngine(unset))
  <2> HIDE DEF unset, b
  <2>1. DestroyEngine(unset) \in AnyImage /\ Moves(DestroyEngine(unset), unset, p)
        /\ Counted(DestroyEngine(unset), p, d) /\ KeepsByRole(DestroyEngine(unset), p)
    BY <1>3, DestroyRole
  <2>2. Moves(DestroyEngine(unset), m, p)
    BY <1>3, <2>1, MovesTrans
  <2>3. DestroyEngine(unset).ctxs = unset.ctxs /\ DestroyEngine(unset).pidBind = unset.pidBind
    BY <1>3, DestroyKeeps
  <2> QED
    BY <1>3, <2>1, <2>2, <2>3
<1>5. n \in {b, made({"mutex"}), made({"mutex", "prop"}), unset, DestroyEngine(unset)}
  BY DEF BindFails
<1>6. Ok(n)
  <2> HIDE DEF b, made, unset, Ok
  <2> QED
    BY <1>1, <1>3, <1>4, <1>5
<1> HIDE DEF b
<1>7. Bound(n, p, d)
  BY <1>1, <1>6 DEF Bound
<1> QED
  BY <1>6, <1>7 DEF Role

LEMMA ProviderInitRole ==
    ASSUME CheckFinalize, NEW p \in Procs, NEW d \in Nat, NEW c \in Ctxs, NEW m \in AnyImage,
           Role(m, p, d), m.refs > 0 => m.pidBind # NoProc,
           NEW n \in IF m.refs > 0 THEN {m} ELSE InitEngine(BindOk(BindStarted(m, p)), p)
    PROVE  LET k == [n EXCEPT !.ctxs[c] = "live", !.refs = @ + 1]
           IN k \in AnyImage /\ Moves(k, m, p) /\ Role(k, p, d)
<1> DEFINE s == BindStarted(m, p)
           b == BindOk(s)
           k == [n EXCEPT !.ctxs[c] = "live", !.refs = @ + 1]
<1>1. Beside(s, m) /\ s.pidBind # NoProc /\ (d = 0 => s.pidBind = p)
  BY BindBeside DEF Role
<1>2. Beside(b, m) /\ b.pidBind = s.pidBind
  <2> HIDE DEF s
  <2>1. Beside(b, s) /\ b.pidBind = s.pidBind
    BY <1>1 DEF Beside, BindOk, AnyImage
  <2> QED
    BY <1>1, <2>1 DEF Beside
<1> HIDE DEF s
<1>3. Moves(b, m, p) /\ Counted(b, p, d) /\ KeepsByRole(b, p) /\ b \in AnyImage
  BY <1>2, BesideRole DEF Role, Beside
<1>4. /\ n \in AnyImage /\ Moves(n, m, p) /\ Counted(n, p, d) /\ KeepsByRole(n, p)
      /\ n.pidBind # NoProc /\ (d = 0 => n.pidBind = p)
  <2>1. CASE m.refs > 0
    BY <2>1, MovesRefl DEF Role, Bound
  <2>2. CASE ~(m.refs > 0)
    <3>1. n \in InitEngine(b, p)
      BY <2>2 DEF s
    <3>2. d = 0 => p = b.pidBind
      BY <1>1, <1>2
    <3> HIDE DEF b
    <3>3. n \in AnyImage /\ Moves(n, b, p) /\ Counted(n, p, d) /\ KeepsByRole(n, p)
      BY <1>3, <3>1, <3>2, InitEngineRole
    <3>4. n.pidBind = b.pidBind
      BY <1>3, <3>1, InitEngineKeeps DEF Keeps
    <3>5. Moves(n, m, p)
      BY <1>3, <3>3, MovesTrans
    <3> QED
      BY <1>1, <1>2, <3>3, <3>4, <3>5
  <2> QED
    BY <2>1, <2>2
<1> HIDE DEF b
<1>5. Beside(k, n) /\ k.pidBind = n.pidBind
  <2>1. n.refs + 1 \in Int /\ [n.ctxs EXCEPT ![c] = "live"] \in [Ctxs -> {"none", "live"}]
    BY <1>4 DEF AnyImage
  <2> QED
    BY <1>4, <2>1 DEF Beside, AnyImage
<1> HIDE DEF k
<1>6. Moves(k, n, p) /\ Counted(k, p, d) /\ KeepsByRole(k, p) /\ k \in AnyImage
  BY <1>4, <1>5, BesideRole DEF Beside
<1>7. Moves(k, m, p)
  BY <1>4, <1>6, MovesTrans
<1>8. Bound(k, p, d)
  BY <1>4, <1>5 DEF Bound
<1>9. k \in AnyImage /\ Moves(k, m, p) /\ Role(k, p, d)
  BY <1>6, <1>7, <1>8 DEF Role
<1> QED
  BY <1>9 DEF k

LEMMA TeardownRole ==
    ASSUME NEW p \in Procs, NEW d \in Nat, NEW c \in Ctxs, NEW m \in AnyImage, Role(m, p, d)
    PROVE  LET k == [EngineFini(m) EXCEPT !.ctxs[c] = "none"]
           IN k \in AnyImage /\ Moves(k, m, p) /\ Role(k, p, d)
<1> DEFINE n == EngineFini(m)
           k == [n EXCEPT !.ctxs[c] = "none"]
           Ok(j) == /\ j \in AnyImage /\ Moves(j, m, p) /\ Counted(j, p, d) /\ KeepsByRole(j, p)
                    /\ j.ctxs = m.ctxs /\ j.pidBind = m.pidBind
<1>1. \A i \in Int, j \in AnyImage : LET h == [j EXCEPT !.refs = i]
        IN Beside(h, j) /\ h.ctxs = j.ctxs /\ h.pidBind = j.pidBind
  BY DEF Beside, AnyImage
<1>2. \A i \in Int, j \in AnyImage : Ok(j) => Ok([j EXCEPT !.refs = i])
  <2> TAKE i \in Int, j \in AnyImage
  <2> HAVE Ok(j)
  <2> DEFINE h == [j EXCEPT !.refs = i]
  <2>1. Beside(h, j) /\ h.ctxs = j.ctxs /\ h.pidBind = j.pidBind
    BY <1>1
  <2> HIDE DEF h
  <2>2. Moves(h, j, p) /\ Counted(h, p, d) /\ KeepsByRole(h, p) /\ h \in AnyImage
    BY <2>1, BesideRole DEF Beside
  <2>3. Moves(h, m, p)
    BY <2>2, MovesTrans
  <2>4. Ok(h)
    BY <2>1, <2>2, <2>3
  <2> QED
    BY <2>4 DEF h
<1>3. Ok(m) /\ Ok(DestroyEngine(m))
  BY DestroyRole, DestroyKeeps, MovesRefl DEF Role
<1>4. m.refs - 1 \in Int
  BY DEF AnyImage
<1>5. Ok(n)
  <2> HIDE DEF Ok
  <2>1. m \in AnyImage /\ DestroyEngine(m) \in AnyImage
    BY DestroyKeeps
  <2> QED
    BY <1>2, <1>3, <1>4, <2>1 DEF EngineFini
<1> HIDE DEF n
<1>6. /\ Beside(k, n) /\ k.pidBind = m.pidBind
      /\ \A x \in Ctxs : k.ctxs[x] = "live" => m.ctxs[x] = "live"
  <2>1. [n.ctxs EXCEPT ![c] = "none"] \in [Ctxs -> {"none", "live"}]
    BY <1>5 DEF AnyImage
  <2> QED
    BY <1>5, <2>1 DEF Beside, AnyImage
<1> HIDE DEF k
<1>7. Moves(k, n, p) /\ Counted(k, p, d) /\ KeepsByRole(k, p) /\ k \in AnyImage
  BY <1>5, <1>6, BesideRole DEF Beside
<1>8. Moves(k, m, p)
  BY <1>5, <1>7, MovesTrans
<1>9. Bound(k, p, d)
  BY <1>6 DEF Bound, Role
<1>10. k \in AnyImage /\ Moves(k, m, p) /\ Role(k, p, d)
  BY <1>7, <1>8, <1>9 DEF Role
<1> QED
  BY <1>10 DEF k, n

(* A command that initializes the library says so. *)
LEMMA CommandRole ==
    ASSUME NEW p \in Procs, NEW d \in Nat, NEW m \in AnyImage, Role(m, p, d), m.call = "none",
           NEW n \in InitP11Conditional(m, p)
    PROVE  LET k == [n EXCEPT !.command = n.init /\ (@ \/ ~m.init)]
           IN k \in AnyImage /\ Moves(k, m, p) /\ Role(k, p, d)
<1> DEFINE b == n.init /\ (n.command \/ ~m.init)
           k == [n EXCEPT !.command = b]
<1>1. /\ n \in AnyImage /\ Moves(n, m, p) /\ SameRole(n, m) /\ n.call = m.call
      /\ (n.init /\ m.init => n = m) /\ Keeps(n, m)
  BY ConditionalMoves, ConditionalKeeps
<1>2. b \in BOOLEAN
  BY <1>1 DEF AnyImage
<1>3. \A x \in BOOLEAN, j \in AnyImage : LET h == [j EXCEPT !.command = x]
        IN /\ h \in AnyImage /\ h.count = j.count /\ h.pidInit = j.pidInit /\ h.call = j.call
           /\ h.pidInter = j.pidInter /\ h.init = j.init /\ h.command = x
           /\ h.interCount = j.interCount /\ h.inChild = j.inChild
           /\ h.ctxs = j.ctxs /\ h.pidBind = j.pidBind
  BY DEF AnyImage
<1>4. /\ k \in AnyImage /\ k.count = n.count /\ k.pidInit = n.pidInit /\ k.call = n.call
      /\ k.pidInter = n.pidInter /\ k.init = n.init /\ k.command = b
      /\ k.interCount = n.interCount /\ k.inChild = n.inChild
      /\ k.ctxs = m.ctxs /\ k.pidBind = m.pidBind
  <2> HIDE DEF b
  <2> QED
    BY <1>1, <1>2, <1>3 DEF Keeps
<1>5. /\ m.init \in BOOLEAN /\ n.init \in BOOLEAN /\ m.command \in BOOLEAN /\ n.command \in BOOLEAN
      /\ m.count \in Nat /\ n.count \in Nat
  BY <1>1 DEF AnyImage
<1> HIDE DEF k
<1>6. Moves(k, m, p)
  BY <1>1, <1>4, <1>5 DEF Moves
<1>7. Counted(k, p, d)
  BY <1>1, <1>4 DEF Role, Counted, SameRole
<1>8. KeepsByRole(k, p)
  BY <1>1, <1>4, <1>5 DEF Role, KeepsByRole, SameRole
<1>9. Bound(k, p, d)
  BY <1>4 DEF Role, Bound
<1>10. k \in AnyImage /\ Moves(k, m, p) /\ Role(k, p, d)
  BY <1>4, <1>6, <1>7, <1>8, <1>9 DEF Role
<1> QED
  BY <1>10 DEF k

-----------------------------------------------------------------------------
(* A process that may fork keeps no connection of its own between calls, except one that
   a command left: what the child inherits is told. *)
LEMMA ForkStep ==
    ASSUME CheckFinalize, ForkInv, NEW p \in Procs, NEW c \in Procs, Fork(p, c)
    PROVE  ForkInv'
<1>1. /\ status[p] = "running" /\ mem[p].call = "none" /\ depth[p] <= IntermediateProcesses
      /\ status[c] = "unborn" /\ c # p
  BY DEF Fork, Quiet, Running, MayFork
<1>2. /\ \A q \in Procs : mem'[q] = IF q = c THEN mem[p] ELSE mem[q]
      /\ \A q \in Procs : status'[q] = IF q = c THEN "running" ELSE status[q]
      /\ \A q \in Procs : depth'[q] = IF q = c THEN depth[p] + 1 ELSE depth[q]
  BY DEF Fork, ForkInv
<1>3. /\ mem' \in [Procs -> AnyImage] /\ depth' \in [Procs -> Nat]
      /\ status' \in [Procs -> {"unborn", "running", "gone"}]
  <2>1. depth[p] + 1 \in Nat /\ mem[p] \in AnyImage
    BY DEF ForkInv
  <2> QED
    BY <2>1 DEF Fork, ForkInv
<1>4. /\ depth[p] \in Nat /\ Role(mem[p], p, depth[p])
      /\ mem[p].interCount \in Int /\ IntermediateProcesses \in Int
  BY ConfigAssumption DEF ForkInv, AnyImage
<1>5. \A q \in Procs : mem[q].pidInit # c /\ mem[q].pidInter # c
  BY <1>1 DEF ForkInv
<1>6. Role(mem[p], c, depth[p] + 1)
  <2>1. Counted(mem[p], c, depth[p] + 1)
    BY <1>4, <1>5 DEF Role, Counted
  <2>2. KeepsByRole(mem[p], c)
    BY <1>5 DEF KeepsByRole
  <2>3. Bound(mem[p], c, depth[p] + 1)
    BY <1>4 DEF Role, Bound
  <2> QED
    BY <2>1, <2>2, <2>3 DEF Role
<1>7. \A q \in Procs : Role(mem'[q], q, depth'[q])
  BY <1>2, <1>6 DEF ForkInv
<1>8. \A q, r \in Procs : status'[r] = "unborn" => mem'[q].pidInit # r /\ mem'[q].pidInter # r
  BY <1>2 DEF ForkInv
<1>9. mem[p].init /\ mem[p].pidInit = p => mem[p].command
  BY <1>1, <1>4 DEF Role, Counted, KeepsByRole
<1>10. \A q \in Procs : mem[q].count \in Nat
  BY DEF ForkInv, AnyImage
<1>11. ASSUME NEW q \in Procs, NEW r \in Procs, q # r, mem'[q].init, mem'[q].pidInit = r,
              status'[r] = "running"
       PROVE  /\ mem'[q].count <= mem'[r].count
              /\ mem'[r].init /\ mem'[r].pidInit = r /\ mem'[r].count = mem'[q].count
                   => mem'[r].command
  <2>1. r # c
    BY <1>2, <1>5, <1>11
  <2>2. mem'[r] = mem[r] /\ status[r] = "running"
    BY <1>2, <1>11, <2>1
  <2>3. CASE q = c /\ r = p
    BY <1>2, <1>9, <1>10, <2>2, <2>3
  <2>4. CASE q = c /\ r # p
    BY <1>2, <1>11, <2>2, <2>4 DEF ForkInv
  <2>5. CASE q # c
    BY <1>2, <1>11, <2>2, <2>5 DEF ForkInv
  <2> QED
    BY <2>3, <2>4, <2>5
<1> QED
  BY <1>3, <1>7, <1>8, <1>11 DEF ForkInv

(* A process that has not begun, or has ended, has a blank image. *)
LEMMA BlankRole ==
    ASSUME NEW p \in Procs, NEW d \in Nat
    PROVE  Role(Blank, p, d) /\ Blank.pidInit = NoProc /\ Blank.pidInter = NoProc /\ ~Blank.init
<1>1. /\ Blank.pidInit = NoProc /\ Blank.pidInter = NoProc /\ Blank.pidBind = NoProc
      /\ ~Blank.init /\ ~Blank.inChild /\ Blank.interCount = 0
      /\ \A c \in Ctxs : Blank.ctxs[c] = "none"
  BY DEF Blank
<1>2. NoProc # p
  BY ProcsAssumption
<1> QED
  BY <1>1, <1>2 DEF Role, Counted, KeepsByRole, Bound

LEMMA ForkInit == Init => ForkInv
<1> SUFFICES ASSUME Init PROVE ForkInv
  OBVIOUS
<1>1. /\ \A p \in Procs : mem[p] = Blank /\ depth[p] = 0
      /\ mem \in [Procs -> AnyImage] /\ depth \in [Procs -> Nat]
      /\ status \in [Procs -> {"unborn", "running", "gone"}]
  BY BlankTyped DEF Init
<1>2. NoProc \notin Procs
  BY ProcsAssumption
<1> QED
  BY <1>1, <1>2, BlankRole DEF ForkInv

LEMMA ForkNext ==
    ASSUME CheckFinalize, IsFiniteSet(Ctxs), EngineInv, ForkInv, [Next]_vars
    PROVE  ForkInv'
<1>1. \A p \in Procs : mem[p] \in AnyImage /\ depth[p] \in Nat /\ Role(mem[p], p, depth[p])
  BY DEF ForkInv
<1>2. ASSUME NEW p \in Procs, NEW c \in Ctxs, ProviderBindFails(p, c)
      PROVE  ForkInv'
  <2>1. PICK m \in BindFails(BindStarted(mem[p], p)) : mem' = [mem EXCEPT ![p] = m]
    BY <1>2 DEF ProviderBindFails
  <2>2. m \in AnyImage /\ Moves(m, mem[p], p) /\ Role(m, p, depth[p])
    BY <1>1, <2>1, BindFailsRole
  <2>3. status[p] = "running" /\ UNCHANGED <<status, depth>>
    BY <1>2 DEF ProviderBindFails, Loads, Quiet, Running
  <2> QED
    BY <2>1, <2>2, <2>3, MoveInv
<1>3. ASSUME NEW p \in Procs, NEW c \in Ctxs, ProviderInit(p, c)
      PROVE  ForkInv'
  <2>1. PICK n \in IF mem[p].refs > 0 THEN {mem[p]}
                   ELSE InitEngine(BindOk(BindStarted(mem[p], p)), p) :
            mem' = [mem EXCEPT ![p] = [n EXCEPT !.ctxs[c] = "live", !.refs = @ + 1]]
    BY <1>3 DEF ProviderInit, Step
  <2>2. mem[p].refs > 0 => mem[p].pidBind # NoProc
    <3>1. HAVE mem[p].refs > 0
    <3>2. Live(mem[p]) # {}
      <4>1. mem[p].refs = Cardinality(Live(mem[p]))
        BY <1>3 DEF EngineInv, Follows, ProviderInit, Loads
      <4>2. Cardinality({}) = 0
        BY FS_EmptySet
      <4> QED
        BY <3>1, <4>1, <4>2
    <3> QED
      BY <1>1, <3>2 DEF Live, Role, Bound
  <2>3. LET k == [n EXCEPT !.ctxs[c] = "live", !.refs = @ + 1]
        IN k \in AnyImage /\ Moves(k, mem[p], p) /\ Role(k, p, depth[p])
    BY <1>1, <2>1, <2>2, ProviderInitRole
  <2>4. status[p] = "running" /\ UNCHANGED <<status, depth>>
    BY <1>3 DEF ProviderInit, Loads, Quiet, Running, Step
  <2> QED
    BY <2>1, <2>3, <2>4, MoveInv
<1>4. ASSUME NEW p \in Procs, NEW c \in Ctxs, Teardown(p, c)
      PROVE  ForkInv'
  <2> DEFINE k == [EngineFini(mem[p]) EXCEPT !.ctxs[c] = "none"]
  <2>1. mem' = [mem EXCEPT ![p] = k] /\ status[p] = "running" /\ UNCHANGED <<status, depth>>
    BY <1>4 DEF Teardown, Quiet, Running, Step
  <2>2. k \in AnyImage /\ Moves(k, mem[p], p) /\ Role(k, p, depth[p])
    BY <1>1, TeardownRole
  <2> HIDE DEF k
  <2> QED
    BY <2>1, <2>2, MoveInv
<1>5. ASSUME NEW p \in Procs, InUse(p)
      PROVE  mem[p].pidBind # NoProc /\ (depth[p] = 0 => p = mem[p].pidBind)
  BY <1>1, <1>5 DEF InUse, Role, Bound
<1>6. ASSUME NEW p \in Procs, Open(p)
      PROVE  ForkInv'
  <2>1. PICK m \in OpenContext(mem[p], p) : mem' = [mem EXCEPT ![p] = m]
    BY <1>6 DEF Open, Step
  <2>2. m \in AnyImage /\ Moves(m, mem[p], p) /\ Counted(m, p, depth[p]) /\ KeepsByRole(m, p)
    BY <1>1, <1>5, <1>6, <2>1, OpenRole DEF Open, Role
  <2>3. Bound(m, p, depth[p])
    BY <1>1, <2>1, OpenKeeps DEF Keeps, Role, Bound
  <2>4. status[p] = "running" /\ UNCHANGED <<status, depth>>
    BY <1>6 DEF Open, Quiet, Running, Step
  <2> QED
    BY <2>1, <2>2, <2>3, <2>4, MoveInv DEF Role
<1>7. ASSUME NEW p \in Procs, UseKey(p)
      PROVE  ForkInv'
  <2> DEFINE key == [count |-> mem[p].count, conn |-> Conn(mem[p])]
             k == [mem[p] EXCEPT !.key = key]
  <2>1. key \in [count : Nat, conn : (Procs \cup {NoProc}) \X Nat]
    BY <1>1 DEF Conn, NoConn, AnyImage
  <2>2. mem' = [mem EXCEPT ![p] = k] /\ status[p] = "running" /\ UNCHANGED <<status, depth>>
    BY <1>7 DEF UseKey, Running, Step
  <2> HIDE DEF key
  <2>3. \A j \in AnyImage : LET h == [j EXCEPT !.key = key]
                            IN Beside(h, j) /\ h.ctxs = j.ctxs /\ h.pidBind = j.pidBind
    BY <2>1 DEF Beside, AnyImage
  <2>4. Beside(k, mem[p]) /\ k.ctxs = mem[p].ctxs /\ k.pidBind = mem[p].pidBind
    BY <1>1, <2>3
  <2> HIDE DEF k
  <2>5. k \in AnyImage /\ Moves(k, mem[p], p) /\ Role(k, p, depth[p])
    BY <1>1, <2>4, BesideRole DEF Beside, Role, Bound
  <2> QED
    BY <2>2, <2>5, MoveInv
<1>8. ASSUME NEW p \in Procs, Close(p)
      PROVE  ForkInv'
  <2> DEFINE m == CloseContext(mem[p])
             f == FiniP11(m)
  <2>1. m \in AnyImage /\ Moves(m, mem[p], p) /\ Counted(m, p, depth[p]) /\ KeepsByRole(m, p)
    BY <1>1, CloseRole DEF Role
  <2>2. m.ctxs = mem[p].ctxs /\ m.pidBind = mem[p].pidBind
    BY <1>1, CloseKeeps DEF Keeps
  <2>3. PICK k \in {m, f} : mem' = [mem EXCEPT ![p] = k]
    BY <1>8 DEF Close, Step
  <2>4. status[p] = "running" /\ UNCHANGED <<status, depth>>
    BY <1>8 DEF Close, Running, Step
  <2> HIDE DEF m
  <2>5. f \in AnyImage /\ Moves(f, m, p) /\ Counted(f, p, depth[p]) /\ KeepsByRole(f, p)
        /\ f.ctxs = m.ctxs /\ f.pidBind = m.pidBind
    BY <1>1, <2>1, FiniRole, FiniKeeps DEF Keeps
  <2> HIDE DEF f
  <2>6. Moves(f, mem[p], p)
    BY <1>1, <2>1, <2>5, MovesTrans
  <2>7. Bound(m, p, depth[p]) /\ Bound(f, p, depth[p])
    BY <1>1, <2>2, <2>5 DEF Role, Bound
  <2>8. k \in AnyImage /\ Moves(k, mem[p], p) /\ Role(k, p, depth[p])
    BY <2>1, <2>3, <2>5, <2>6, <2>7 DEF Role
  <2> QED
    BY <2>3, <2>4, <2>8, MoveInv
<1>9. ASSUME NEW p \in Procs, Command(p)
      PROVE  ForkInv'
  <2>1. PICK n \in InitP11Conditional(mem[p], p) :
            mem' = [mem EXCEPT ![p] = [n EXCEPT !.command = n.init /\ (@ \/ ~mem[p].init)]]
    BY <1>9 DEF Command, Step
  <2>2. /\ status[p] = "running" /\ UNCHANGED <<status, depth>> /\ mem[p].call = "none"
    BY <1>9 DEF Command, Quiet, Running, Step
  <2>3. LET k == [n EXCEPT !.command = n.init /\ (@ \/ ~mem[p].init)]
        IN k \in AnyImage /\ Moves(k, mem[p], p) /\ Role(k, p, depth[p])
    BY <1>1, <2>1, <2>2, CommandRole
  <2> QED
    BY <2>1, <2>2, <2>3, MoveInv
<1>10. ASSUME NEW p \in Procs, SetFinalizePending(p)
       PROVE  ForkInv'
  <2> DEFINE f == FiniP11(mem[p])
  <2>1. mem' = [mem EXCEPT ![p] = f] /\ status[p] = "running" /\ UNCHANGED <<status, depth>>
    BY <1>10 DEF SetFinalizePending, Quiet, Running, Step
  <2>2. f \in AnyImage /\ Moves(f, mem[p], p) /\ Counted(f, p, depth[p]) /\ KeepsByRole(f, p)
        /\ f.ctxs = mem[p].ctxs /\ f.pidBind = mem[p].pidBind
    BY <1>1, FiniRole, FiniKeeps DEF Keeps, Role
  <2> HIDE DEF f
  <2>3. Role(f, p, depth[p])
    BY <1>1, <2>2 DEF Role, Bound
  <2> QED
    BY <2>1, <2>2, <2>3, MoveInv
<1>11. ASSUME NEW p \in Procs, ExitBegins(p)
       PROVE  ForkInv'
  <2> DEFINE k == [mem[p] EXCEPT !.exiting = TRUE]
  <2>1. mem' = [mem EXCEPT ![p] = k] /\ status[p] = "running" /\ UNCHANGED <<status, depth>>
    BY <1>11 DEF ExitBegins, Quiet, Running, Step
  <2>2. \A j \in AnyImage : LET h == [j EXCEPT !.exiting = TRUE]
                            IN Beside(h, j) /\ h.ctxs = j.ctxs /\ h.pidBind = j.pidBind
    BY DEF Beside, AnyImage
  <2>3. Beside(k, mem[p]) /\ k.ctxs = mem[p].ctxs /\ k.pidBind = mem[p].pidBind
    BY <1>1, <2>2
  <2> HIDE DEF k
  <2>4. k \in AnyImage /\ Moves(k, mem[p], p) /\ Role(k, p, depth[p])
    BY <1>1, <2>3, BesideRole DEF Beside, Role, Bound
  <2> QED
    BY <2>1, <2>4, MoveInv
<1>12. ASSUME NEW p \in Procs, ProcessEnds(p)
       PROVE  ForkInv'
  <2>1. /\ \A q \in Procs : mem'[q] = IF q = p THEN Blank ELSE mem[q]
        /\ \A q \in Procs : status'[q] = IF q = p THEN "gone" ELSE status[q]
        /\ depth' = depth /\ mem' \in [Procs -> AnyImage]
        /\ status' \in [Procs -> {"unborn", "running", "gone"}]
    BY <1>12, BlankTyped DEF ProcessEnds, ForkInv
  <2>2. NoProc \notin Procs
    BY ProcsAssumption
  <2>3. \A q \in Procs : Role(mem'[q], q, depth'[q])
    BY <1>1, <2>1, BlankRole
  <2>4. \A q, r \in Procs : status'[r] = "unborn" => mem'[q].pidInit # r /\ mem'[q].pidInter # r
    BY <2>1, <2>2, BlankRole DEF ForkInv
  <2>5. \A q, r \in Procs : q # r /\ mem'[q].init /\ mem'[q].pidInit = r /\ status'[r] = "running"
          => q # p /\ r # p
    BY <2>1, BlankRole
  <2>6. \A q, r \in Procs : q # r /\ mem'[q].init /\ mem'[q].pidInit = r /\ status'[r] = "running" =>
          /\ mem'[q].count <= mem'[r].count
          /\ mem'[r].init /\ mem'[r].pidInit = r /\ mem'[r].count = mem'[q].count => mem'[r].command
    BY <2>1, <2>5 DEF ForkInv
  <2> QED
    BY <2>1, <2>3, <2>4, <2>6 DEF ForkInv
<1>13. ASSUME NEW p \in Procs, NEW c \in Procs, Fork(p, c)
       PROVE  ForkInv'
  BY <1>13, ForkStep
<1>14. ASSUME UNCHANGED vars
       PROVE  ForkInv'
  BY <1>14 DEF ForkInv, vars, Role, Counted, KeepsByRole, Bound
<1> QED
  BY <1>2, <1>3, <1>4, <1>6, <1>7, <1>8, <1>9, <1>10, <1>11, <1>12, <1>13, <1>14 DEF Next

(* Whoever has a copy of a connection that another process still has, has it from a
   command that the other one gave before it forked. *)
LEMMA CutsNone ==
    ASSUME ForkInv, NEW p \in Procs, NEW q \in Procs, Cuts(p, q)
    PROVE  mem[q].command
<1>1. q # NoProc
  BY ProcsAssumption
<1>2. mem[p].init /\ mem[p].pidInit = q /\ mem[p].count = mem[q].count
  BY <1>1 DEF Cuts, Conn, NoConn
<1> QED
  BY <1>2 DEF Cuts, Running, ForkInv

(* With the identifiers checked and a process forking only when it is an intermediate
   one, no step of any process finalizes a connection that another process has made for
   its calls, in every tree of processes. Only commands that initialize the library
   before a fork leave one to be cut. *)
THEOREM ConnectionsAreNotCut ==
    ASSUME CheckFinalize, IsFiniteSet(Ctxs)
    PROVE  Spec => CallsKeepConnection
<1>1. EngineInv /\ [Next]_vars => EngineInv'
  BY EngineNext
<1>2. EngineInv /\ ForkInv /\ [Next]_vars => ForkInv'
  BY ForkNext
<1>3. ForkInv => \A p, q \in Procs : Cuts(p, q) => mem[q].command
  BY CutsNone
<1>4. ForkInv => [\A p, q \in Procs : Cuts(p, q) => mem[q].command]_vars
  BY <1>3
<1> QED
  BY EngineInit, ForkInit, <1>1, <1>2, <1>4, PTL DEF Spec, CallsKeepConnection
-----------------------------------------------------------------------------
(* The types, whatever the identifiers are checked for. What bounds the numbers of an
   image: a process counts itself once, and each step initializes at most once. *)
Numbered(m, p, d, h) ==
    /\ m.count <= h /\ m.key.count <= MaxInits /\ m.key.conn[2] <= MaxInits
    /\ 0 <= m.interCount
    /\ m.interCount <= IF m.pidInter = p \/ d = 0 THEN d ELSE d - 1

Sized(m, p, d) ==
    /\ m \in AnyImage /\ Numbered(m, p, d, MaxInits) /\ Bound(m, p, d)
    /\ m.refs \in 0..Cardinality(Ctxs)

(* A process is deeper by one than the process that forked it, so there are always more
   processes born than any is deep. *)
Born == {p \in Procs : status[p] # "unborn"}
DepthInv == /\ status \in [Procs -> {"unborn", "running", "gone"}] /\ depth \in [Procs -> Nat]
            /\ \A p \in Procs : depth[p] < Cardinality(Born)

TypeInv == EngineInv /\ DepthInv /\ \A p \in Procs : Sized(mem[p], p, depth[p])

(* The same numbers. *)
SameNumbers(n, m) ==
    /\ n \in AnyImage /\ n.count = m.count /\ n.key = m.key
    /\ n.pidInter = m.pidInter /\ n.interCount = m.interCount

LEMMA SameNumbered ==
    ASSUME NEW p, NEW d, NEW h, NEW m, NEW n, SameNumbers(n, m), Numbered(m, p, d, h)
    PROVE  Numbered(n, p, d, h)
  BY DEF SameNumbers, Numbered

LEMMA FiniNumbers == ASSUME NEW m \in AnyImage PROVE SameNumbers(FiniP11(m), m)
  BY DEF SameNumbers, FiniP11, AnyImage

(* One initialization more at most. *)
LEMMA InitDoneNumbers ==
    ASSUME NEW p \in Procs, NEW d \in Nat, NEW h \in Nat, NEW m \in AnyImage,
           Numbered(m, p, d, h), NEW n \in InitDone(m, p)
    PROVE  n \in AnyImage /\ Numbered(n, p, d, h + 1)
<1> DEFINE started == [m EXCEPT !.pidInit = p]
           counted == [started EXCEPT !.count = @ + 1]
           refused == [counted EXCEPT !.pw = IF @ = "read" THEN "refused" ELSE @]
           done == [counted EXCEPT !.init = TRUE]
<1>1. SameNumbers(started, m)
  BY DEF SameNumbers, AnyImage
<1>2. m.count \in Nat /\ m.count + 1 \in Nat /\ m.count <= h
  BY DEF Numbered, AnyImage
<1>3. /\ counted \in AnyImage /\ counted.count = m.count + 1 /\ counted.key = m.key
      /\ counted.pidInter = m.pidInter /\ counted.interCount = m.interCount
  <2> HIDE DEF started
  <2> QED
    BY <1>1, <1>2 DEF SameNumbers, AnyImage
<1>4. SameNumbers(refused, counted) /\ SameNumbers(done, counted)
  <2> HIDE DEF counted
  <2>1. (IF counted.pw = "read" THEN "refused" ELSE counted.pw) \in {"unread", "read", "refused"}
    BY <1>3 DEF AnyImage
  <2>2. \A x \in {"unread", "read", "refused"} : SameNumbers([counted EXCEPT !.pw = x], counted)
    BY <1>3 DEF SameNumbers, AnyImage
  <2>3. SameNumbers(done, counted)
    BY <1>3 DEF SameNumbers, AnyImage
  <2> QED
    BY <2>1, <2>2, <2>3
<1> HIDE DEF started, counted, refused, done
<1>5. n \in {started, counted, refused, done}
  <2>1. InitDone(m, p) = {started} \cup (IF LoginInit THEN {counted, refused} ELSE {counted})
                         \cup (IF LoginInit /\ m.pw # "read" THEN {} ELSE {done})
    BY DEF InitDone, started, counted, refused, done
  <2> QED
    BY <2>1
<1>6. Numbered(started, p, d, h + 1) /\ Numbered(counted, p, d, h + 1)
  BY <1>1, <1>2, <1>3 DEF SameNumbers, Numbered
<1>7. Numbered(refused, p, d, h + 1) /\ Numbered(done, p, d, h + 1)
  BY <1>4, <1>6, SameNumbered
<1> QED
  BY <1>1, <1>3, <1>4, <1>5, <1>6, <1>7 DEF SameNumbers

LEMMA ConditionalNumbers ==
    ASSUME NEW p \in Procs, NEW d \in Nat, NEW h \in Nat, NEW m \in AnyImage,
           Numbered(m, p, d, h), NEW n \in InitP11Conditional(m, p)
    PROVE  n \in AnyImage /\ Numbered(n, p, d, h + 1)
<1>1. Numbered(m, p, d, h + 1)
  <2>1. m.count \in Nat
    BY DEF AnyImage
  <2> QED
    BY <2>1 DEF Numbered
<1>2. \A k \in LoadP11(m) : SameNumbers(k, m)
  BY DEF LoadP11, SameNumbers, AnyImage
<1>3. CASE m.init
  BY <1>1, <1>3 DEF InitP11Conditional
<1>4. CASE ~m.init
  <2>1. PICK k \in LoadP11(m) : n \in IF k.dso = "bound" THEN InitDone(k, p) ELSE {k}
    BY <1>4 DEF InitP11Conditional, InitP11Deferred
  <2>2. k \in AnyImage /\ Numbered(k, p, d, h) /\ Numbered(k, p, d, h + 1)
    BY <1>1, <1>2, <2>1, SameNumbered DEF SameNumbers
  <2> QED
    BY <2>1, <2>2, InitDoneNumbers
<1> QED
  BY <1>3, <1>4

(* A process that counts itself did not count itself before. *)
LEMMA CountNumbers ==
    ASSUME NEW p \in Procs, NEW d \in Nat, NEW h \in Nat, NEW m \in AnyImage,
           Numbered(m, p, d, h), d # 0
    PROVE  LET n == CountIntermediate(m, p) IN n \in AnyImage /\ Numbered(n, p, d, h)
<1> DEFINE k == [m EXCEPT !.interCount = @ + 1, !.pidInter = p]
<1>1. m.interCount \in Int /\ m.interCount + 1 \in Int
  BY DEF AnyImage
<1>2. /\ k \in AnyImage /\ k.count = m.count /\ k.key = m.key
      /\ k.pidInter = p /\ k.interCount = m.interCount + 1
  BY <1>1 DEF AnyImage
<1> HIDE DEF k
<1>3. m.pidInter # p => Numbered(k, p, d, h)
  BY <1>1, <1>2 DEF Numbered
<1> QED
  BY <1>2, <1>3 DEF CountIntermediate, k

LEMMA RoleNumbers ==
    ASSUME NEW p \in Procs, NEW d \in Nat, NEW h \in Nat, NEW m \in AnyImage,
           Numbered(m, p, d, h), d = 0 => p = m.pidBind
    PROVE  LET n == ChooseRole(m, p) IN n \in AnyImage /\ Numbered(n, p, d, h)
<1>1. \A b \in BOOLEAN, k \in AnyImage : SameNumbers([k EXCEPT !.inChild = b], k)
  BY DEF SameNumbers, AnyImage
<1>2. \A b \in BOOLEAN, k \in AnyImage : Numbered(k, p, d, h) =>
         [k EXCEPT !.inChild = b] \in AnyImage /\ Numbered([k EXCEPT !.inChild = b], p, d, h)
  <2> TAKE b \in BOOLEAN, k \in AnyImage
  <2> HAVE Numbered(k, p, d, h)
  <2> DEFINE j == [k EXCEPT !.inChild = b]
  <2>1. SameNumbers(j, k)
    BY <1>1
  <2> HIDE DEF j
  <2>2. j \in AnyImage /\ Numbered(j, p, d, h)
    BY <2>1, SameNumbered DEF SameNumbers
  <2> QED
    BY <2>2 DEF j
<1>3. CASE ~CheckFinalize \/ p = m.pidBind
  <2>1. ChooseRole(m, p) \in {[m EXCEPT !.inChild = TRUE], [m EXCEPT !.inChild = FALSE]}
    BY <1>3 DEF ChooseRole
  <2> QED
    BY <1>2, <2>1
<1>4. CASE CheckFinalize /\ p # m.pidBind
  <2> DEFINE k == CountIntermediate(m, p)
             b == k.interCount > IntermediateProcesses
  <2>1. k \in AnyImage /\ Numbered(k, p, d, h)
    BY <1>4, CountNumbers
  <2>2. b \in BOOLEAN
    OBVIOUS
  <2>3. ChooseRole(m, p) = [k EXCEPT !.inChild = b]
    BY <1>4 DEF ChooseRole
  <2> HIDE DEF k, b
  <2> QED
    BY <1>2, <2>1, <2>2, <2>3
<1> QED
  BY <1>3, <1>4

LEMMA SessionNumbers ==
    ASSUME NEW m \in AnyImage, NEW n \in OpenSession(m)
    PROVE  SameNumbers(n, m)
<1>1. \A c \in {"kept", "pending"} : SameNumbers([m EXCEPT !.call = c], m)
  BY DEF SameNumbers, AnyImage
<1>2. SameNumbers(m, m) /\ SameNumbers(FiniP11(m), m)
  BY FiniNumbers DEF SameNumbers
<1> QED
  BY <1>1, <1>2 DEF OpenSession

LEMMA CloseNumbers == ASSUME NEW m \in AnyImage PROVE SameNumbers(CloseContext(m), m)
<1> DEFINE k == [m EXCEPT !.call = "none"]
<1>1. SameNumbers(k, m)
  BY DEF SameNumbers, AnyImage
<1> HIDE DEF k
<1>2. SameNumbers(FiniP11(k), m)
  BY <1>1, FiniNumbers DEF SameNumbers
<1> QED
  BY <1>1, <1>2 DEF CloseContext, k

LEMMA OpenNumbers ==
    ASSUME NEW p \in Procs, NEW d \in Nat, NEW h \in Nat, NEW m \in AnyImage,
           Numbered(m, p, d, h), d = 0 => p = m.pidBind, NEW n \in OpenContext(m, p)
    PROVE  n \in AnyImage /\ Numbered(n, p, d, h + 1)
<1> DEFINE f == FinalizeInherited(m, p)
<1>1. f \in AnyImage /\ Numbered(f, p, d, h) /\ f.pidBind = m.pidBind
  BY FiniNumbers, FiniKeeps, SameNumbered DEF FinalizeInherited, SameNumbers, Keeps
<1>2. PICK k \in InitP11Conditional(f, p) :
          n \in IF k.init THEN OpenSession(ChooseRole(k, p)) ELSE {k}
  BY DEF OpenContext
<1> HIDE DEF f
<1>3. k \in AnyImage /\ Numbered(k, p, d, h + 1) /\ k.pidBind = m.pidBind
  BY <1>1, <1>2, ConditionalNumbers, ConditionalKeeps DEF Keeps
<1>4. CASE ~k.init
  BY <1>2, <1>3, <1>4
<1>5. CASE k.init
  <2> DEFINE j == ChooseRole(k, p)
  <2>1. h + 1 \in Nat
    OBVIOUS
  <2>2. j \in AnyImage /\ Numbered(j, p, d, h + 1)
    BY <1>3, <2>1, RoleNumbers
  <2>3. n \in OpenSession(j)
    BY <1>2, <1>5
  <2> HIDE DEF j
  <2> QED
    BY <2>2, <2>3, SessionNumbers, SameNumbered DEF SameNumbers
<1> QED
  BY <1>4, <1>5

LEMMA InitEngineNumbers ==
    ASSUME NEW p \in Procs, NEW d \in Nat, NEW h \in Nat, NEW m \in AnyImage,
           Numbered(m, p, d, h), d = 0 => p = m.pidBind, NEW n \in InitEngine(m, p)
    PROVE  n \in AnyImage /\ Numbered(n, p, d, h + 1)
<1> DEFINE counted == IF p = m.pidBind THEN m ELSE CountIntermediate(m, p)
           read == [counted EXCEPT !.pw = "read"]
<1>1. counted \in AnyImage /\ Numbered(counted, p, d, h) /\ counted.pidBind = m.pidBind
  BY CountNumbers, CountKeeps DEF Keeps
<1>2. SameNumbers(read, counted) /\ read.pidBind = counted.pidBind
  <2> HIDE DEF counted
  <2> QED
    BY <1>1 DEF SameNumbers, AnyImage
<1> HIDE DEF counted, read
<1>3. PICK k \in {counted, read} : n \in {CloseContext(j) : j \in OpenContext(k, p)}
  BY DEF InitEngine, counted, read
<1>4. PICK j \in OpenContext(k, p) : n = CloseContext(j)
  BY <1>3
<1>5. k \in AnyImage /\ Numbered(k, p, d, h) /\ k.pidBind = m.pidBind
  BY <1>1, <1>2, <1>3, SameNumbered DEF SameNumbers
<1>6. j \in AnyImage /\ Numbered(j, p, d, h + 1)
  BY <1>4, <1>5, OpenNumbers
<1> QED
  BY <1>4, <1>6, CloseNumbers, SameNumbered DEF SameNumbers

LEMMA DestroyNumbers == ASSUME NEW m \in AnyImage PROVE SameNumbers(DestroyEngine(m), m)
<1> DEFINE u == IF m.exiting THEN m ELSE [FiniP11(m) EXCEPT !.dso = "none"]
<1>1. SameNumbers(u, m)
  <2>1. SameNumbers(m, m) /\ SameNumbers(FiniP11(m), m)
    BY FiniNumbers DEF SameNumbers
  <2>2. \A k \in AnyImage : SameNumbers([k EXCEPT !.dso = "none"], k)
    BY DEF SameNumbers, AnyImage
  <2> QED
    BY <2>1, <2>2 DEF SameNumbers
<1> HIDE DEF u
<1>2. u \in AnyImage
  BY <1>1 DEF SameNumbers
<1>3. \A x \in {"unread", "read", "refused"} : SameNumbers([u EXCEPT !.pw = x, !.have = {}], u)
  BY <1>2 DEF SameNumbers, AnyImage
<1>4. (IF m.inChild /\ LoginInit THEN "unread" ELSE u.pw) \in {"unread", "read", "refused"}
  BY <1>2 DEF AnyImage
<1>5. DestroyEngine(m) = [u EXCEPT !.pw = IF m.inChild /\ LoginInit THEN "unread" ELSE u.pw,
                                   !.have = {}]
  BY <1>2 DEF DestroyEngine, u, AnyImage
<1> QED
  BY <1>1, <1>3, <1>4, <1>5 DEF SameNumbers

LEMMA BindNumbers ==
    ASSUME NEW p \in Procs, NEW m \in AnyImage
    PROVE  /\ SameNumbers(BindStarted(m, p), m) /\ SameNumbers(BindOk(BindStarted(m, p)), m)
           /\ BindOk(BindStarted(m, p)).pidBind = BindStarted(m, p).pidBind
           /\ BindOk(BindStarted(m, p)).refs = m.refs /\ BindStarted(m, p).refs = m.refs
           /\ BindOk(BindStarted(m, p)).ctxs = m.ctxs /\ BindStarted(m, p).ctxs = m.ctxs
<1> DEFINE b == BindStarted(m, p)
<1>1. SameNumbers(b, m) /\ b.refs = m.refs /\ b.ctxs = m.ctxs
  <2>1. \A q \in Procs \cup {NoProc} : LET k == [m EXCEPT !.pidBind = q]
           IN SameNumbers(k, m) /\ k.refs = m.refs /\ k.ctxs = m.ctxs
    BY DEF SameNumbers, AnyImage
  <2>2. m.pidBind \in Procs \cup {NoProc}
    BY DEF AnyImage
  <2> QED
    BY <2>1, <2>2 DEF BindStarted
<1> HIDE DEF b
<1>2. SameNumbers(BindOk(b), b) /\ BindOk(b).pidBind = b.pidBind /\ BindOk(b).refs = b.refs
      /\ BindOk(b).ctxs = b.ctxs
  BY <1>1 DEF SameNumbers, BindOk, AnyImage
<1> QED
  BY <1>1, <1>2 DEF SameNumbers, b

(* What keeps the counted things of an engine and its numbers stays sized. *)
LEMMA KeepsSized ==
    ASSUME NEW p \in Procs, NEW d \in Nat, NEW m, NEW n, Sized(m, p, d), Keeps(n, m),
           Numbered(n, p, d, MaxInits)
    PROVE  Sized(n, p, d)
  BY DEF Keeps, Sized, Bound

(* A process that may initialize has room for one initialization. *)
LEMMA RoomNumbered ==
    ASSUME NEW p \in Procs, NEW d \in Nat, NEW m, Sized(m, p, d), m.count < MaxInits
    PROVE  \E h \in Nat : h + 1 = MaxInits /\ Numbered(m, p, d, h)
<1>1. m.count \in Nat /\ MaxInits \in Nat
  BY ConfigAssumption DEF Sized, AnyImage
<1> DEFINE h == MaxInits - 1
<1>2. h \in Nat /\ h + 1 = MaxInits /\ m.count <= h
  BY <1>1
<1> HIDE DEF h
<1>3. Numbered(m, p, d, h)
  BY <1>2 DEF Sized, Numbered
<1> QED
  BY <1>2, <1>3

LEMMA BindFailsSized ==
    ASSUME NEW p \in Procs, NEW d \in Nat, NEW m, Sized(m, p, d),
           NEW n \in BindFails(BindStarted(m, p))
    PROVE  Sized(n, p, d)
<1> DEFINE b == BindStarted(m, p)
           made(parts) == [b EXCEPT !.have = @ \cup parts]
           unset == made({"mutex", "prop", "methods"})
           Ok(k) == /\ k \in AnyImage /\ SameNumbers(k, m) /\ k.refs = m.refs
                    /\ k.ctxs = b.ctxs /\ k.pidBind = b.pidBind
<1>0. m \in AnyImage /\ Bound(m, p, d)
  BY DEF Sized
<1>1. Ok(b) /\ b.pidBind # NoProc /\ (d = 0 => b.pidBind = p)
  BY <1>0, BindNumbers, BindBeside DEF Beside
<1>2. \A parts \in SUBSET Parts : Ok(made(parts))
  <2> TAKE parts \in SUBSET Parts
  <2> DEFINE k == made(parts)
  <2>1. /\ k \in AnyImage /\ SameNumbers(k, b) /\ k.refs = b.refs
        /\ k.ctxs = b.ctxs /\ k.pidBind = b.pidBind
    <3> HIDE DEF b
    <3> QED
      BY <1>1 DEF SameNumbers, AnyImage
  <2> HIDE DEF b, k
  <2> QED
    BY <1>1, <2>1 DEF SameNumbers, k
<1>3. Ok(made({"mutex"})) /\ Ok(made({"mutex", "prop"})) /\ Ok(unset)
  BY <1>2 DEF Parts
<1>4. Ok(DestroyEngine(unset))
  <2> HIDE DEF unset, b
  <2>1. SameNumbers(DestroyEngine(unset), unset)
    BY <1>3, DestroyNumbers
  <2>2. /\ DestroyEngine(unset).ctxs = unset.ctxs /\ DestroyEngine(unset).refs = unset.refs
        /\ DestroyEngine(unset).pidBind = unset.pidBind
    BY <1>3, DestroyKeeps
  <2> QED
    BY <1>3, <2>1, <2>2 DEF SameNumbers
<1>5. n \in {b, made({"mutex"}), made({"mutex", "prop"}), unset, DestroyEngine(unset)}
  BY DEF BindFails
<1>6. Ok(n)
  <2> HIDE DEF b, made, unset, Ok
  <2> QED
    BY <1>1, <1>3, <1>4, <1>5
<1> HIDE DEF b
<1>7. Bound(n, p, d)
  BY <1>1, <1>6 DEF Bound
<1> QED
  BY <1>6, <1>7, SameNumbered DEF Sized

(* The reference count has room for the context that is not live yet. *)
LEMMA ProviderInitSized ==
    ASSUME IsFiniteSet(Ctxs), NEW p \in Procs, NEW d \in Nat, NEW c \in Ctxs, NEW m,
           Sized(m, p, d), Follows(m), ~m.exiting, m.ctxs[c] = "none",
           m.refs = 0 => m.count < MaxInits,
           NEW n \in IF m.refs > 0 THEN {m} ELSE InitEngine(BindOk(BindStarted(m, p)), p)
    PROVE  LET k == [n EXCEPT !.ctxs[c] = "live", !.refs = @ + 1] IN Sized(k, p, d)
<1> DEFINE s == BindStarted(m, p)
           b == BindOk(s)
           k == [n EXCEPT !.ctxs[c] = "live", !.refs = @ + 1]
<1>0. m \in AnyImage /\ Bound(m, p, d) /\ m.refs \in 0..Cardinality(Ctxs)
  BY DEF Sized
<1>1. IsFiniteSet(Live(m)) /\ m.refs = Cardinality(Live(m)) /\ m.refs + 1 \in 0..Cardinality(Ctxs)
  <2>1. Live(m) \in SUBSET Ctxs /\ c \notin Live(m) /\ IsFiniteSet(Live(m))
    BY FS_Subset DEF Live
  <2>2. m.refs = Cardinality(Live(m))
    BY DEF Follows
  <2>3. Live(m) # Ctxs /\ Cardinality(Live(m)) \in Nat /\ Cardinality(Ctxs) \in Nat
    BY <2>1, FS_CardinalityType
  <2>4. Cardinality(Live(m)) < Cardinality(Ctxs)
    <3>1. Cardinality(Live(m)) <= Cardinality(Ctxs)
          /\ (Cardinality(Live(m)) = Cardinality(Ctxs) => Live(m) = Ctxs)
      BY <2>1, FS_Subset
    <3> QED
      BY <2>3, <3>1
  <2> QED
    BY <2>1, <2>2, <2>3, <2>4
<1>2. /\ n \in AnyImage /\ Numbered(n, p, d, MaxInits) /\ n.refs = m.refs
      /\ n.pidBind # NoProc /\ (d = 0 => n.pidBind = p)
  <2>1. CASE m.refs > 0
    <3>1. Live(m) # {}
      BY <1>1, <2>1, FS_EmptySet
    <3>2. m.pidBind # NoProc
      BY <1>0, <3>1 DEF Bound, Live
    <3> QED
      BY <1>0, <2>1, <3>2 DEF Bound, Sized
  <2>2. CASE ~(m.refs > 0)
    <3>1. n \in InitEngine(b, p) /\ m.count < MaxInits
      BY <1>0, <2>2
    <3>2. PICK h \in Nat : h + 1 = MaxInits /\ Numbered(m, p, d, h)
      BY <3>1, RoomNumbered
    <3>3. /\ SameNumbers(b, m) /\ b.pidBind = s.pidBind /\ b.refs = m.refs
          /\ s.pidBind # NoProc /\ (d = 0 => s.pidBind = p)
      BY <1>0, BindNumbers, BindBeside
    <3> HIDE DEF b, s
    <3>4. b \in AnyImage /\ Numbered(b, p, d, h) /\ (d = 0 => p = b.pidBind)
      BY <3>2, <3>3, SameNumbered DEF SameNumbers
    <3>5. n \in AnyImage /\ Numbered(n, p, d, h + 1)
      BY <3>1, <3>4, InitEngineNumbers
    <3>6. n.refs = b.refs /\ n.pidBind = b.pidBind
      BY <3>1, <3>4, InitEngineKeeps DEF Keeps
    <3> QED
      BY <3>2, <3>3, <3>5, <3>6
  <2> QED
    BY <2>1, <2>2
<1>3. /\ SameNumbers(k, n) /\ k.pidBind = n.pidBind /\ k.refs = m.refs + 1
  <2>1. n.refs + 1 \in Int /\ [n.ctxs EXCEPT ![c] = "live"] \in [Ctxs -> {"none", "live"}]
    BY <1>2 DEF AnyImage
  <2> QED
    BY <1>2, <2>1 DEF SameNumbers, AnyImage
<1> HIDE DEF k
<1>4. Numbered(k, p, d, MaxInits) /\ k \in AnyImage /\ Bound(k, p, d)
  BY <1>2, <1>3, SameNumbered DEF SameNumbers, Bound
<1>5. Sized(k, p, d)
  BY <1>1, <1>3, <1>4 DEF Sized
<1> QED
  BY <1>5 DEF k

LEMMA TeardownSized ==
    ASSUME NEW p \in Procs, NEW d \in Nat, NEW c \in Ctxs, NEW m, Sized(m, p, d),
           IsFiniteSet(Ctxs)
    PROVE  LET k == [EngineFini(m) EXCEPT !.ctxs[c] = "none"] IN Sized(k, p, d)
<1> DEFINE n == EngineFini(m)
           k == [n EXCEPT !.ctxs[c] = "none"]
<1>0. m \in AnyImage /\ m.refs \in 0..Cardinality(Ctxs) /\ Cardinality(Ctxs) \in Nat
  BY FS_CardinalityType DEF Sized
<1>1. /\ SameNumbers(n, m) /\ n.ctxs = m.ctxs /\ n.pidBind = m.pidBind
      /\ n.refs \in 0..Cardinality(Ctxs)
  <2>1. m.refs - 1 \in Int /\ (m.refs > 1 => m.refs - 1 \in 0..Cardinality(Ctxs))
        /\ 0 \in 0..Cardinality(Ctxs)
    BY <1>0
  <2>2. \A i \in Int, j \in AnyImage : LET h == [j EXCEPT !.refs = i]
          IN SameNumbers(h, j) /\ h.ctxs = j.ctxs /\ h.pidBind = j.pidBind /\ h.refs = i
    BY DEF SameNumbers, AnyImage
  <2>3. /\ SameNumbers(DestroyEngine(m), m) /\ DestroyEngine(m) \in AnyImage
        /\ DestroyEngine(m).ctxs = m.ctxs /\ DestroyEngine(m).pidBind = m.pidBind
    BY <1>0, DestroyNumbers, DestroyKeeps
  <2>4. CASE m.exiting
    BY <1>0, <2>4 DEF EngineFini, SameNumbers
  <2>5. CASE ~m.exiting /\ m.refs > 1
    BY <1>0, <2>1, <2>2, <2>5 DEF EngineFini, SameNumbers
  <2>6. CASE ~m.exiting /\ ~(m.refs > 1)
    <3> DEFINE u == DestroyEngine(m)
               h == [u EXCEPT !.refs = 0]
    <3> HIDE DEF u
    <3>1. u \in AnyImage
      BY <2>3 DEF u
    <3>2. SameNumbers(h, u) /\ h.ctxs = u.ctxs /\ h.pidBind = u.pidBind /\ h.refs = 0
      BY <2>2, <3>1
    <3> HIDE DEF h
    <3>3. n = h
      BY <2>6 DEF EngineFini, h, u
    <3> QED
      BY <2>1, <2>3, <3>2, <3>3 DEF SameNumbers, u
  <2> QED
    BY <2>4, <2>5, <2>6
<1> HIDE DEF n
<1>2. /\ SameNumbers(k, n) /\ k.pidBind = m.pidBind /\ k.refs = n.refs
      /\ \A x \in Ctxs : k.ctxs[x] = "live" => m.ctxs[x] = "live"
  <2>1. n \in AnyImage /\ [n.ctxs EXCEPT ![c] = "none"] \in [Ctxs -> {"none", "live"}]
    BY <1>1 DEF SameNumbers, AnyImage
  <2> QED
    BY <1>1, <2>1 DEF SameNumbers, AnyImage
<1> HIDE DEF k
<1>3. SameNumbers(k, m)
  BY <1>1, <1>2 DEF SameNumbers
<1>4. Numbered(k, p, d, MaxInits) /\ k \in AnyImage
  BY <1>3, SameNumbered DEF SameNumbers, Sized
<1>5. Bound(k, p, d)
  BY <1>2 DEF Bound, Sized
<1>6. Sized(k, p, d)
  BY <1>1, <1>2, <1>4, <1>5 DEF Sized
<1> QED
  BY <1>6 DEF k, n

(* The first image is sized, at any depth. *)
LEMMA BlankSized ==
    ASSUME MaxInits > 0, IsFiniteSet(Ctxs), NEW p \in Procs, NEW d \in Nat
    PROVE  Sized(Blank, p, d)
<1>1. /\ Blank.count = 1 /\ Blank.key.count = 0 /\ Blank.key.conn[2] = 0
      /\ Blank.interCount = 0 /\ Blank.refs = 0 /\ Blank.pidInter = NoProc
  BY DEF Blank, NoConn
<1>2. MaxInits \in Nat /\ Cardinality(Ctxs) \in Nat /\ NoProc # p
  BY ConfigAssumption, ProcsAssumption, FS_CardinalityType
<1>3. Numbered(Blank, p, d, MaxInits)
  BY <1>1, <1>2 DEF Numbered
<1>4. Bound(Blank, p, d)
  BY BlankRole DEF Role
<1> QED
  BY <1>1, <1>2, <1>3, <1>4, BlankTyped DEF Sized

(* A step of one process that is not a fork. *)
LEMMA TypeStep ==
    ASSUME TypeInv, EngineInv', NEW p \in Procs, NEW m, Sized(m, p, depth[p]),
           mem' = [mem EXCEPT ![p] = m], status' = status, depth' = depth
    PROVE  TypeInv'
<1>1. \A q \in Procs : mem'[q] = IF q = p THEN m ELSE mem[q]
  BY DEF TypeInv, EngineInv
<1>2. \A q \in Procs : Sized(mem'[q], q, depth'[q])
  BY <1>1 DEF TypeInv
<1>3. DepthInv'
  BY DEF TypeInv, DepthInv, Born
<1> QED
  BY <1>2, <1>3 DEF TypeInv

(* A child counts as far as its parent, which is less deep. *)
LEMMA ForkSized ==
    ASSUME IsFiniteSet(Procs), TypeInv, EngineInv', NEW p \in Procs, NEW c \in Procs, Fork(p, c)
    PROVE  TypeInv'
<1>1. /\ status[p] = "running" /\ status[c] = "unborn" /\ c # p
  BY DEF Fork, Quiet, Running
<1>2. /\ \A q \in Procs : mem'[q] = IF q = c THEN mem[p] ELSE mem[q]
      /\ \A q \in Procs : status'[q] = IF q = c THEN "running" ELSE status[q]
      /\ \A q \in Procs : depth'[q] = IF q = c THEN depth[p] + 1 ELSE depth[q]
  BY DEF Fork, TypeInv, EngineInv, DepthInv
<1>3. depth[p] \in Nat /\ depth[p] + 1 \in Nat /\ Sized(mem[p], p, depth[p])
  BY DEF TypeInv, DepthInv
<1>4. Sized(mem[p], c, depth[p] + 1)
  <2>1. mem[p].interCount \in Int
    BY <1>3 DEF Sized, AnyImage
  <2>2. Numbered(mem[p], c, depth[p] + 1, MaxInits)
    BY <1>3, <2>1 DEF Sized, Numbered
  <2>3. Bound(mem[p], c, depth[p] + 1)
    BY <1>3 DEF Sized, Bound
  <2> QED
    BY <1>3, <2>2, <2>3 DEF Sized
<1>5. \A q \in Procs : Sized(mem'[q], q, depth'[q])
  BY <1>2, <1>4 DEF TypeInv
<1>6. /\ status' \in [Procs -> {"unborn", "running", "gone"}] /\ depth' \in [Procs -> Nat]
  BY <1>3 DEF Fork, TypeInv, DepthInv
<1>7. Born' = Born \cup {c} /\ c \notin Born
  BY <1>1, <1>2 DEF Born
<1>8. IsFiniteSet(Born)
  BY FS_Subset DEF Born
<1>9. Cardinality(Born') = Cardinality(Born) + 1 /\ Cardinality(Born) \in Nat
  BY <1>7, <1>8, FS_AddElement, FS_CardinalityType
<1>10. \A q \in Procs : depth[q] \in Nat /\ depth[q] < Cardinality(Born)
  BY DEF TypeInv, DepthInv
<1>11. \A q \in Procs : depth'[q] < Cardinality(Born')
  BY <1>2, <1>9, <1>10
<1> QED
  BY <1>5, <1>6, <1>11 DEF TypeInv, DepthInv

LEMMA TypeNext ==
    ASSUME IsFiniteSet(Procs), IsFiniteSet(Ctxs), MaxInits > 0, TypeInv, [Next]_vars
    PROVE  TypeInv'
<1>0. EngineInv'
  BY EngineNext DEF TypeInv
<1>1. /\ \A p \in Procs : /\ mem[p] \in AnyImage /\ Follows(mem[p])
                          /\ depth[p] \in Nat /\ Sized(mem[p], p, depth[p])
  BY DEF TypeInv, EngineInv, DepthInv
<1>2. \A p \in Procs : InUse(p) /\ depth[p] = 0 => p = mem[p].pidBind
  BY <1>1 DEF InUse, Sized, Bound
<1>3. ASSUME NEW p \in Procs, NEW c \in Ctxs, ProviderBindFails(p, c)
      PROVE  TypeInv'
  <2>1. PICK m \in BindFails(BindStarted(mem[p], p)) : mem' = [mem EXCEPT ![p] = m]
    BY <1>3 DEF ProviderBindFails
  <2>2. Sized(m, p, depth[p])
    BY <1>1, <2>1, BindFailsSized
  <2> QED
    BY <1>0, <1>3, <2>1, <2>2, TypeStep DEF ProviderBindFails
<1>4. ASSUME NEW p \in Procs, NEW c \in Ctxs, ProviderInit(p, c)
      PROVE  TypeInv'
  <2>1. PICK n \in IF mem[p].refs > 0 THEN {mem[p]}
                   ELSE InitEngine(BindOk(BindStarted(mem[p], p)), p) :
            mem' = [mem EXCEPT ![p] = [n EXCEPT !.ctxs[c] = "live", !.refs = @ + 1]]
    BY <1>4 DEF ProviderInit, Step
  <2>2. LET k == [n EXCEPT !.ctxs[c] = "live", !.refs = @ + 1] IN Sized(k, p, depth[p])
    BY <1>1, <1>4, <2>1, ProviderInitSized DEF ProviderInit, Loads, MayInit
  <2> QED
    BY <1>0, <1>4, <2>1, <2>2, TypeStep DEF ProviderInit, Step
<1>5. ASSUME NEW p \in Procs, NEW c \in Ctxs, Teardown(p, c)
      PROVE  TypeInv'
  <2>1. mem' = [mem EXCEPT ![p] = [EngineFini(mem[p]) EXCEPT !.ctxs[c] = "none"]]
    BY <1>5 DEF Teardown, Step
  <2>2. LET k == [EngineFini(mem[p]) EXCEPT !.ctxs[c] = "none"] IN Sized(k, p, depth[p])
    BY <1>1, TeardownSized
  <2> QED
    BY <1>0, <1>5, <2>1, <2>2, TypeStep DEF Teardown, Step
<1>6. ASSUME NEW p \in Procs, Open(p)
      PROVE  TypeInv'
  <2>1. PICK m \in OpenContext(mem[p], p) : mem' = [mem EXCEPT ![p] = m]
    BY <1>6 DEF Open, Step
  <2>2. PICK h \in Nat : h + 1 = MaxInits /\ Numbered(mem[p], p, depth[p], h)
    BY <1>1, <1>6, RoomNumbered DEF Open, MayInit
  <2>3. Numbered(m, p, depth[p], h + 1)
    BY <1>1, <1>2, <1>6, <2>1, <2>2, OpenNumbers DEF Open
  <2>4. Sized(m, p, depth[p])
    BY <1>1, <2>1, <2>2, <2>3, OpenKeeps, KeepsSized
  <2> QED
    BY <1>0, <1>6, <2>1, <2>4, TypeStep DEF Open, Step
<1>7. ASSUME NEW p \in Procs, UseKey(p)
      PROVE  TypeInv'
  <2> DEFINE key == [count |-> mem[p].count, conn |-> Conn(mem[p])]
             m == [mem[p] EXCEPT !.key = key]
  <2>1. /\ key \in [count : Nat, conn : (Procs \cup {NoProc}) \X Nat]
        /\ key.count <= MaxInits /\ key.conn[2] <= MaxInits
    <3>1. mem[p].count \in Nat /\ mem[p].count <= MaxInits /\ MaxInits \in Nat
          /\ mem[p].pidInit \in Procs \cup {NoProc}
      BY <1>1, ConfigAssumption DEF Sized, Numbered, AnyImage
    <3>2. Conn(mem[p]) \in (Procs \cup {NoProc}) \X Nat /\ Conn(mem[p])[2] <= MaxInits
      BY <3>1 DEF Conn, NoConn
    <3> QED
      BY <3>1, <3>2
  <2> HIDE DEF key
  <2>2. /\ Keeps(m, mem[p]) /\ m.key = key /\ m.count = mem[p].count
        /\ m.interCount = mem[p].interCount /\ m.pidInter = mem[p].pidInter
    BY <1>1, <2>1 DEF Keeps, AnyImage
  <2>3. mem' = [mem EXCEPT ![p] = m] /\ status' = status /\ depth' = depth
    BY <1>7 DEF UseKey, Step, key
  <2> HIDE DEF m
  <2>4. Numbered(m, p, depth[p], MaxInits)
    BY <1>1, <2>1, <2>2 DEF Sized, Numbered
  <2>5. Sized(m, p, depth[p])
    BY <1>1, <2>2, <2>4, KeepsSized
  <2> QED
    BY <1>0, <2>3, <2>5, TypeStep
<1>8. \A p \in Procs : \A m, n : Sized(m, p, depth[p]) /\ Keeps(n, m) /\ SameNumbers(n, m)
                                   => Sized(n, p, depth[p])
  BY <1>1, KeepsSized, SameNumbered DEF Sized
<1>9. ASSUME NEW p \in Procs, Close(p)
      PROVE  TypeInv'
  <2> DEFINE m == CloseContext(mem[p])
  <2>1. Sized(m, p, depth[p])
    BY <1>1, <1>8, CloseKeeps, CloseNumbers
  <2> HIDE DEF m
  <2>2. Sized(FiniP11(m), p, depth[p])
    BY <1>8, <2>1, FiniKeeps, FiniNumbers DEF Sized
  <2>3. PICK k \in {m, FiniP11(m)} : mem' = [mem EXCEPT ![p] = k]
    BY <1>9 DEF Close, Step, m
  <2> QED
    BY <1>0, <1>9, <2>1, <2>2, <2>3, TypeStep DEF Close, Step
<1>10. ASSUME NEW p \in Procs, Command(p)
       PROVE  TypeInv'
  <2>1. PICK n \in InitP11Conditional(mem[p], p) :
            mem' = [mem EXCEPT ![p] = [n EXCEPT !.command = n.init /\ (@ \/ ~mem[p].init)]]
    BY <1>10 DEF Command, Step
  <2>2. PICK h \in Nat : h + 1 = MaxInits /\ Numbered(mem[p], p, depth[p], h)
    BY <1>1, <1>10, RoomNumbered DEF Command, MayInit
  <2>3. n \in AnyImage /\ Numbered(n, p, depth[p], h + 1)
    BY <1>1, <2>1, <2>2, ConditionalNumbers
  <2>4. Sized(n, p, depth[p])
    BY <1>1, <2>1, <2>2, <2>3, ConditionalKeeps, KeepsSized
  <2>5. (n.init /\ (n.command \/ ~mem[p].init)) \in BOOLEAN
    BY <1>1, <2>3 DEF AnyImage
  <2>6. \A b \in BOOLEAN : Keeps([n EXCEPT !.command = b], n)
                           /\ SameNumbers([n EXCEPT !.command = b], n)
    BY <2>3 DEF Keeps, SameNumbers, AnyImage
  <2>7. \A b \in BOOLEAN : Sized([n EXCEPT !.command = b], p, depth[p])
    BY <1>8, <2>4, <2>6
  <2> QED
    BY <1>0, <1>10, <2>1, <2>5, <2>7, TypeStep DEF Command, Step
<1>11. ASSUME NEW p \in Procs, SetFinalizePending(p)
       PROVE  TypeInv'
  <2>1. Sized(FiniP11(mem[p]), p, depth[p])
    BY <1>1, <1>8, FiniKeeps, FiniNumbers
  <2> QED
    BY <1>0, <1>11, <2>1, TypeStep DEF SetFinalizePending, Step
<1>12. ASSUME NEW p \in Procs, ExitBegins(p)
       PROVE  TypeInv'
  <2> DEFINE m == [mem[p] EXCEPT !.exiting = TRUE]
  <2>1. /\ SameNumbers(m, mem[p]) /\ m.refs = mem[p].refs /\ m.ctxs = mem[p].ctxs
        /\ m.pidBind = mem[p].pidBind
    <3>1. \A j \in AnyImage : LET k == [j EXCEPT !.exiting = TRUE]
             IN SameNumbers(k, j) /\ k.refs = j.refs /\ k.ctxs = j.ctxs /\ k.pidBind = j.pidBind
      BY DEF SameNumbers, AnyImage
    <3> QED
      BY <1>1, <3>1
  <2>2. mem' = [mem EXCEPT ![p] = m] /\ status' = status /\ depth' = depth
    BY <1>12 DEF ExitBegins, Step
  <2> HIDE DEF m
  <2>3. Numbered(m, p, depth[p], MaxInits)
    BY <1>1, <2>1, SameNumbered DEF Sized
  <2>4. Sized(m, p, depth[p])
    BY <1>1, <2>1, <2>3 DEF Sized, SameNumbers, Bound
  <2> QED
    BY <1>0, <2>2, <2>4, TypeStep
<1>13. ASSUME NEW p \in Procs, ProcessEnds(p)
       PROVE  TypeInv'
  <2>1. \A q \in Procs : mem'[q] = IF q = p THEN Blank ELSE mem[q]
    BY <1>13 DEF ProcessEnds, TypeInv, EngineInv
  <2>2. \A q \in Procs : Sized(mem'[q], q, depth'[q])
    BY <1>1, <1>13, <2>1, BlankSized DEF ProcessEnds
  <2>3. Born' = Born
    BY <1>13 DEF ProcessEnds, Running, Born, TypeInv, DepthInv
  <2>4. DepthInv'
    BY <1>13, <2>3 DEF ProcessEnds, TypeInv, DepthInv
  <2> QED
    BY <1>0, <2>2, <2>4 DEF TypeInv
<1>14. ASSUME NEW p \in Procs, NEW c \in Procs, Fork(p, c)
       PROVE  TypeInv'
  BY <1>0, <1>14, ForkSized
<1>15. ASSUME UNCHANGED vars
       PROVE  TypeInv'
  <2>1. mem' = mem /\ status' = status /\ depth' = depth
    BY <1>15 DEF vars
  <2>2. DepthInv'
    BY <2>1 DEF TypeInv, DepthInv, Born
  <2> QED
    BY <1>0, <1>1, <2>1, <2>2 DEF TypeInv
<1> QED
  BY <1>3, <1>4, <1>5, <1>6, <1>7, <1>9, <1>10, <1>11, <1>12, <1>13, <1>14, <1>15 DEF Next

LEMMA TypeInit ==
    ASSUME IsFiniteSet(Procs), IsFiniteSet(Ctxs), MaxInits > 0, Init
    PROVE  TypeInv
<1>1. EngineInv
  BY EngineInit
<1>2. \A p \in Procs : Sized(mem[p], p, depth[p])
  BY BlankSized DEF Init
<1>3. Born = {Root} /\ \A p \in Procs : depth[p] = 0
  BY ProcsAssumption DEF Init, Born
<1>4. Cardinality(Born) = 1
  BY <1>3, FS_Singleton
<1>5. DepthInv
  BY <1>3, <1>4 DEF Init, DepthInv
<1> QED
  BY <1>1, <1>2, <1>5 DEF TypeInv

(* The types, with the bounds of the counters. *)
LEMMA TypeHolds ==
    ASSUME IsFiniteSet(Procs), IsFiniteSet(Ctxs), TypeInv
    PROVE  TypeOK
<1>1. Cardinality(Born) <= Cardinality(Procs) /\ Cardinality(Born) \in Nat
      /\ Cardinality(Procs) \in Nat
  BY FS_Subset, FS_CardinalityType DEF Born
<1>2. \A p \in Procs : /\ depth[p] \in Nat /\ depth[p] < Cardinality(Born)
                       /\ Sized(mem[p], p, depth[p])
  BY DEF TypeInv, DepthInv
<1>3. depth \in [Procs -> 0..Cardinality(Procs)]
  <2>1. \A p \in Procs : depth[p] \in 0..Cardinality(Procs)
    BY <1>1, <1>2
  <2> QED
    BY <2>1 DEF TypeInv, DepthInv
<1>4. ASSUME NEW p \in Procs PROVE mem[p] \in Image
  <2> DEFINE m == mem[p]
             d == depth[p]
  <2>1. m \in AnyImage /\ Numbered(m, p, d, MaxInits) /\ m.refs \in 0..Cardinality(Ctxs)
        /\ d \in Nat /\ d < Cardinality(Born)
    BY <1>2 DEF Sized
  <2> HIDE DEF m, d
  <2>2. m.interCount \in Int /\ m.count \in Nat /\ MaxInits \in Nat
        /\ m.key \in [count : Nat, conn : (Procs \cup {NoProc}) \X Nat]
    BY <2>1, ConfigAssumption DEF AnyImage
  <2>3. m.interCount \in 0..Cardinality(Procs) /\ m.count \in 0..MaxInits
    BY <1>1, <2>1, <2>2 DEF Numbered
  <2>4. m.key \in [count : 0..MaxInits, conn : (Procs \cup {NoProc}) \X (0..MaxInits)]
    <3>1. m.key.count \in 0..MaxInits /\ m.key.conn[2] \in 0..MaxInits
      BY <2>1, <2>2 DEF Numbered
    <3> QED
      BY <2>2, <3>1
  <2>5. m \in Image
    BY <2>1, <2>3, <2>4 DEF AnyImage, Image
  <2> QED
    BY <2>5 DEF m
<1>5. mem \in [Procs -> Image]
  BY <1>4 DEF TypeInv, EngineInv
<1> QED
  BY <1>3, <1>5 DEF TypeOK, TypeInv, DepthInv

(* The state keeps its types: no process is counted twice on its way from the root, the
   reference count of the engine never passes the number of provider contexts, and no
   step counts more than one initialization, with or without the check of the
   identifiers. *)
THEOREM ProcessTypesAreKept ==
    ASSUME IsFiniteSet(Procs), IsFiniteSet(Ctxs), MaxInits > 0
    PROVE  Spec => []TypeOK
<1>1. Init => TypeInv
  BY TypeInit
<1>2. TypeInv /\ [Next]_vars => TypeInv'
  BY TypeNext
<1>3. TypeInv => TypeOK
  BY TypeHolds
<1> QED
  BY <1>1, <1>2, <1>3, PTL DEF Spec
=============================================================================
