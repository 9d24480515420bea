-------------------------- MODULE TokenSecretProofs --------------------------
(* Theorems about the way of a secret out of the token, TokenSecret: for any threads and
   sessions, any number of initializations of the library and of wrapping keys. *)
EXTENDS TokenSecret, TLAPS

(* Session 0 and object NoObj stand for none; the operations and bounds are those of the
   module. *)
Bounds == 0 \notin Sessions /\ MaxInit \in Nat /\ "none" \notin Ops

Places == {"idle", "compute", "prep", "generate", "generated", "reset", "resetcount", "prepared",
           "load", "check", "checkcount", "take", "import", "store", "storenext", "wrap",
           "unwrap", "destroy", "close"}

(* What the arguments need of the state. *)
AnyHandle == [kind : {"none", "secret", "wrapper"}, home : Sessions \cup {0},
              key : Nat, gen : Nat]
AnyCall == [op : Ops \cup {"none"}, sess : Sessions \cup {0}, temp : AnyHandle,
            pkey : Nat, hWrapper : AnyHandle, ok : BOOLEAN]
Typed ==
    /\ gen \in Nat /\ gen # 0 /\ wcount \in Nat /\ wkey \in Nat /\ made \in Nat
    /\ whandle \in AnyHandle
    /\ pc \in [Threads -> Places]
    /\ call \in [Threads -> AnyCall]

-----------------------------------------------------------------------------
(* The count vouches for the handle: the handle is stored before the count and reset
   before it, and a thread that has stored its handle, or compared the count, finds no
   older handle, for all who store one imported it since the last initialization. *)
Fresh(h) == h = NoObj \/ h.gen = gen
FreshInv ==
    /\ wcount <= gen
    /\ wcount = gen => Fresh(whandle)
    /\ \A t \in Threads :
         /\ pc[t] \in {"storenext", "take"} => Fresh(whandle)
         /\ pc[t] \in {"store", "storenext", "wrap", "unwrap"} => Fresh(call[t].hWrapper)

(* A secret in the token is the temporary object of the call that put it there; the
   sessions of calls are different, so are their secrets. *)
SecretInv ==
    /\ \A t, u \in Threads : call[t].sess = call[u].sess /\ call[t].sess # 0 => t = u
    /\ \A t \in Threads : /\ pc[t] = "idle" => call[t] = Local
                          /\ pc[t] # "idle" => call[t].sess # 0
                          /\ pc[t] = "compute" => call[t].temp = NoObj
                          /\ call[t].temp # NoObj => call[t].temp.home = call[t].sess
                          /\ pc[t] = "close" => call[t].temp \notin objs
    /\ NoObj \notin objs
    /\ NoSecretStays

IInv == Typed /\ FreshInv /\ SecretInv

LEMMA InitInv ==
    ASSUME Bounds
    PROVE  Init => IInv
<1>1. NoObj \in AnyHandle
  BY DEF NoObj, AnyHandle
<1>2. Local \in AnyCall /\ Local.temp = NoObj
  BY <1>1 DEF Local, AnyCall
<1> SUFFICES ASSUME Init PROVE IInv
  OBVIOUS
<1>3. /\ pc = [t \in Threads |-> "idle"] /\ call = [t \in Threads |-> Local]
      /\ \A t \in Threads : pc[t] = "idle" /\ call[t] = Local
      /\ gen = 1 /\ objs = {} /\ wkey = 0 /\ whandle = NoObj /\ wcount = 0 /\ made = 0
  BY DEF Init
<1>4. Typed
  <2>1. "idle" \in Places
    BY DEF Places
  <2> QED
    BY <1>1, <1>2, <1>3, <2>1 DEF Typed
<1>5. FreshInv
  BY <1>3 DEF FreshInv
<1>6. SecretInv
  <2>1. Local.sess = 0
    BY DEF Local
  <2> QED
    BY <1>2, <1>3, <2>1 DEF SecretInv, NoSecretStays
<1> QED
  BY <1>4, <1>5, <1>6 DEF IInv

(* A new secret belongs to a session of its own. *)
LEMMA ObjectIs ==
    \A t, k, w : /\ Object(k, t, w).kind = k /\ Object(k, t, w).home = call[t].sess
                 /\ Object(k, t, w).gen = gen /\ (k # "none" => Object(k, t, w) # NoObj)
  BY DEF Object, NoObj

LEMMA ObjectTyped ==
    ASSUME Typed, NEW t \in Threads, NEW k \in {"secret", "wrapper"}, NEW w \in Nat
    PROVE  Object(k, t, w) \in AnyHandle
  BY DEF Object, Typed, AnyHandle, AnyCall

(* A step of thread t that keeps its session and temporary object, and at most imports a
   public key. *)
LEMMA StepInv ==
    ASSUME Bounds, IInv, NEW t \in Threads, NEW l \in Places \ {"idle", "compute", "close"},
           NEW c, pc[t] \notin {"idle", "close"}, pc' = [pc EXCEPT ![t] = l],
           call' = [call EXCEPT ![t] = c], gen' = gen,
           NEW w, objs' = objs \/ objs' = objs \cup {Object("wrapper", t, w)},
           c \in AnyCall, c.sess = call[t].sess, c.temp = call[t].temp,
           wcount' \in Nat, wkey' \in Nat, made' \in Nat, whandle' \in AnyHandle,
           wcount' <= gen,
           wcount' = gen => Fresh(whandle'),
           whandle' = whandle \/ Fresh(whandle'),
           l \in {"storenext", "take"} => Fresh(whandle'),
           l \in {"store", "storenext", "wrap", "unwrap"} => Fresh(c.hWrapper)
    PROVE  IInv'
<1>1. /\ pc' \in [Threads -> Places] /\ call' \in [Threads -> AnyCall]
      /\ \A u \in Threads : pc'[u] = IF u = t THEN l ELSE pc[u]
      /\ \A u \in Threads : call'[u] = IF u = t THEN c ELSE call[u]
  BY DEF IInv, Typed
<1>2. Typed'
  BY <1>1 DEF IInv, Typed
<1>3. FreshInv'
  BY <1>1 DEF IInv, Typed, FreshInv, Fresh
<1>4. SecretInv'
  <2> DEFINE x == Object("wrapper", t, w)
  <2>1. x # NoObj /\ x.home = call[t].sess /\ x.kind = "wrapper"
    BY ObjectIs
  <2>2. objs \subseteq objs' /\ objs' \subseteq objs \cup {x}
    OBVIOUS
  <2> HIDE DEF x
  <2>3. call[t].sess # 0 /\ pc'[t] \notin {"idle", "compute", "close"}
    BY <1>1 DEF IInv, SecretInv
  <2>4. \A u \in Threads : call'[u].sess = call[u].sess /\ call'[u].temp = call[u].temp
    BY <1>1
  <2>5. NoSecretStays'
    BY <2>1, <2>2, <2>4 DEF IInv, SecretInv, NoSecretStays
  <2>6. ASSUME NEW u \in Threads, pc'[u] = "close"
        PROVE  call'[u].temp \notin objs'
    <3>1. u # t /\ pc[u] = "close" /\ call[u].temp \notin objs
      BY <1>1, <2>3, <2>6 DEF IInv, SecretInv
    <3>2. call[u].temp # x
      BY <2>1, <2>3, <3>1 DEF IInv, SecretInv
    <3> QED
      BY <2>2, <2>4, <3>1, <3>2
  <2>7. \A u, v \in Threads : call'[u].sess = call'[v].sess /\ call'[u].sess # 0 => u = v
    BY <2>4 DEF IInv, SecretInv
  <2>8. ASSUME NEW u \in Threads
        PROVE  /\ pc'[u] = "idle" => call'[u] = Local
               /\ pc'[u] # "idle" => call'[u].sess # 0
               /\ pc'[u] = "compute" => call'[u].temp = NoObj
               /\ call'[u].temp # NoObj => call'[u].temp.home = call'[u].sess
    <3>1. CASE u = t
      BY <2>3, <2>4, <3>1 DEF IInv, SecretInv
    <3>2. CASE u # t
      BY <1>1, <3>2 DEF IInv, SecretInv
    <3> QED
      BY <3>1, <3>2
  <2>9. NoObj \notin objs'
    BY <2>1, <2>2 DEF IInv, SecretInv
  <2> QED
    BY <2>5, <2>6, <2>7, <2>8, <2>9 DEF SecretInv
<1> QED
  BY <1>2, <1>3, <1>4 DEF IInv

(* Initializations happen outside of calls, when no secret is in the token. *)
LEMMA ReinitInv ==
    ASSUME Bounds, IInv, Reinit \/ luna_init_ecdh
    PROVE  IInv'
<1>1. \A t \in Threads : pc[t] = "idle"
  BY DEF Reinit, luna_init_ecdh, Idle
<1>2. CASE Reinit
  <2>1. gen' = gen + 1 /\ objs' = {} /\ UNCHANGED <<wvars, made, pc, call>>
    BY <1>2 DEF Reinit
  <2>2. Typed'
    BY <2>1 DEF IInv, Typed, wvars
  <2>3. FreshInv'
    BY <1>1, <2>1 DEF IInv, Typed, FreshInv, Fresh, wvars
  <2>4. SecretInv'
    BY <1>1, <2>1 DEF IInv, SecretInv, NoSecretStays
  <2> QED
    BY <2>2, <2>3, <2>4 DEF IInv
<1>3. CASE luna_init_ecdh
  <2>1. whandle' = NoObj /\ wcount' = 0 /\ wkey' = 0 /\ UNCHANGED <<gen, objs, made, pc, call>>
    BY <1>3 DEF luna_init_ecdh
  <2>2. Typed'
    BY <2>1 DEF IInv, Typed, NoObj, AnyHandle
  <2>3. FreshInv'
    BY <1>1, <2>1 DEF IInv, Typed, FreshInv, Fresh
  <2>4. SecretInv'
    BY <2>1 DEF IInv, SecretInv, NoSecretStays
  <2> QED
    BY <2>2, <2>3, <2>4 DEF IInv
<1> QED
  BY <1>2, <1>3

(* A call takes a session of its own. *)
LEMMA OpenInv ==
    ASSUME Bounds, IInv, NEW t \in Threads, NEW s \in Sessions, luna_open_context(t, s)
    PROVE  IInv'
<1>1. PICK o \in Ops : /\ call' = [call EXCEPT ![t] = [Local EXCEPT !.op = o, !.sess = s]]
                       /\ pc' = [pc EXCEPT ![t] = "compute"]
  BY DEF luna_open_context, Goto
<1> DEFINE c == [Local EXCEPT !.op = o, !.sess = s]
<1>2. c \in AnyCall /\ c.sess = s /\ s # 0 /\ c.temp = NoObj /\ c.hWrapper = NoObj
  <2>1. NoObj \in AnyHandle
    BY DEF NoObj, AnyHandle
  <2>2. Local \in AnyCall /\ Local.temp = NoObj /\ Local.hWrapper = NoObj
    BY <2>1 DEF Local, AnyCall
  <2>3. s # 0
    BY DEF Bounds
  <2> QED
    BY <2>2, <2>3 DEF AnyCall
<1>3. /\ pc[t] = "idle" /\ \A u \in Threads : call[u].sess # s
      /\ UNCHANGED <<gen, objs, wvars, made>>
  BY DEF luna_open_context
<1>4. /\ pc' \in [Threads -> Places] /\ call' \in [Threads -> AnyCall]
      /\ \A u \in Threads : pc'[u] = IF u = t THEN "compute" ELSE pc[u]
      /\ \A u \in Threads : call'[u] = IF u = t THEN c ELSE call[u]
  <2> HIDE DEF c
  <2>1. "compute" \in Places
    BY DEF Places
  <2> QED
    BY <1>1, <1>2, <2>1 DEF IInv, Typed, c
<1> HIDE DEF c
<1>5. Typed'
  BY <1>2, <1>3, <1>4 DEF IInv, Typed, wvars
<1>6. FreshInv'
  BY <1>3, <1>4 DEF IInv, FreshInv, Fresh, wvars
<1>7. call[t].temp = NoObj
  BY <1>3 DEF IInv, SecretInv, Local
<1>8. SecretInv'
  <2>1. NoSecretStays'
    BY <1>3, <1>4, <1>7 DEF IInv, SecretInv, NoSecretStays
  <2> QED
    BY <1>2, <1>3, <1>4, <2>1 DEF IInv, SecretInv
<1> QED
  BY <1>5, <1>6, <1>8 DEF IInv

(* A call that fails before it has put anything into the token. *)
LEMMA GiveUpInv ==
    ASSUME Bounds, IInv, NEW t \in Threads, pc[t] = "compute", pc' = [pc EXCEPT ![t] = "close"],
           call' = call \/ call' = [call EXCEPT ![t].ok = FALSE],
           UNCHANGED <<gen, objs, wvars, made>>
    PROVE  IInv'
<1>1. /\ pc' \in [Threads -> Places]
      /\ \A u \in Threads : pc'[u] = IF u = t THEN "close" ELSE pc[u]
  <2>1. "close" \in Places
    BY DEF Places
  <2> QED
    BY <2>1 DEF IInv, Typed
<1>2. /\ call' \in [Threads -> AnyCall] /\ \A u \in Threads : u # t => call'[u] = call[u]
      /\ call'[t].sess = call[t].sess /\ call'[t].temp = call[t].temp
  <2>1. call[t] \in AnyCall
    BY DEF IInv, Typed
  <2> DEFINE c == [call[t] EXCEPT !.ok = FALSE]
  <2>2. c \in AnyCall /\ c.sess = call[t].sess /\ c.temp = call[t].temp
    BY <2>1 DEF AnyCall
  <2>3. call' = call \/ call' = [call EXCEPT ![t] = c]
    OBVIOUS
  <2> HIDE DEF c
  <2> QED
    BY <2>2, <2>3 DEF IInv, Typed
<1>3. Typed'
  BY <1>1, <1>2 DEF IInv, Typed, wvars
<1>4. FreshInv'
  BY <1>1, <1>2 DEF IInv, FreshInv, Fresh, wvars
<1>5. SecretInv'
  <2>1. NoSecretStays'
    BY <1>2 DEF IInv, SecretInv, NoSecretStays
  <2> QED
    BY <1>1, <1>2, <2>1 DEF IInv, SecretInv
<1> QED
  BY <1>3, <1>4, <1>5 DEF IInv

(* The secret is put into the token. *)
LEMMA ComputedInv ==
    ASSUME Bounds, IInv, NEW t \in Threads, pc[t] = "compute", pc' = [pc EXCEPT ![t] = "prep"],
           objs' = objs \cup {Object("secret", t, 0)},
           call' = [call EXCEPT ![t].temp = Object("secret", t, 0)], UNCHANGED <<gen, wvars, made>>
    PROVE  IInv'
<1> DEFINE x == Object("secret", t, 0)
<1>1. x # NoObj /\ x.home = call[t].sess /\ x.kind = "secret"
  BY ObjectIs
<1> HIDE DEF x
<1>2. /\ pc' \in [Threads -> Places]
      /\ \A u \in Threads : pc'[u] = IF u = t THEN "prep" ELSE pc[u]
  <2>1. "prep" \in Places
    BY DEF Places
  <2> QED
    BY <2>1 DEF IInv, Typed
<1>3. /\ call' \in [Threads -> AnyCall] /\ \A u \in Threads : u # t => call'[u] = call[u]
      /\ call'[t].sess = call[t].sess /\ call'[t].temp = x
  <2>1. call[t] \in AnyCall /\ x \in AnyHandle
    BY ObjectTyped DEF IInv, Typed, x
  <2> DEFINE c == [call[t] EXCEPT !.temp = x]
  <2>2. c \in AnyCall /\ c.sess = call[t].sess /\ c.temp = x
    BY <2>1 DEF AnyCall
  <2>3. call' = [call EXCEPT ![t] = c]
    BY DEF x
  <2> HIDE DEF c
  <2> QED
    BY <2>2, <2>3 DEF IInv, Typed
<1>4. objs' = objs \cup {x}
  BY DEF x
<1>5. Typed'
  BY <1>2, <1>3 DEF IInv, Typed, wvars
<1>6. FreshInv'
  BY <1>2, <1>3 DEF IInv, FreshInv, Fresh, wvars
<1>7. call[t].temp = NoObj /\ NoObj \notin objs /\ call[t].sess # 0
  BY DEF IInv, SecretInv
<1>8. SecretInv'
  <2>1. NoSecretStays'
    <3> SUFFICES ASSUME NEW o \in objs', o.kind = "secret"
                 PROVE  \E u \in Threads : call'[u].temp = o
      BY DEF NoSecretStays
    <3>1. CASE o = x
      BY <1>3, <3>1
    <3>2. CASE o \in objs
      BY <1>3, <1>7, <3>2 DEF IInv, SecretInv, NoSecretStays
    <3> QED
      BY <1>4, <3>1, <3>2
  <2>2. ASSUME NEW u \in Threads, pc'[u] = "close"
        PROVE  call'[u].temp \notin objs'
    <3>1. u # t /\ pc[u] = "close" /\ call[u].temp \notin objs
      BY <1>2, <2>2 DEF IInv, SecretInv
    <3>2. call[u].temp # x
      BY <1>1, <1>7, <3>1 DEF IInv, SecretInv
    <3> QED
      BY <1>3, <1>4, <3>1, <3>2
  <2>3. \A u, v \in Threads : call'[u].sess = call'[v].sess /\ call'[u].sess # 0 => u = v
    <3>1. \A u \in Threads : call'[u].sess = call[u].sess
      BY <1>3
    <3> QED
      BY <3>1 DEF IInv, SecretInv
  <2>4. ASSUME NEW u \in Threads
        PROVE  /\ pc'[u] = "idle" => call'[u] = Local
               /\ pc'[u] # "idle" => call'[u].sess # 0
               /\ pc'[u] = "compute" => call'[u].temp = NoObj
               /\ call'[u].temp # NoObj => call'[u].temp.home = call'[u].sess
    <3>1. CASE u = t
      BY <1>1, <1>2, <1>3, <1>7, <3>1
    <3>2. CASE u # t
      BY <1>2, <1>3, <3>2 DEF IInv, SecretInv
    <3> QED
      BY <3>1, <3>2
  <2>5. NoObj \notin objs'
    BY <1>1, <1>4, <1>7
  <2> QED
    BY <2>1, <2>2, <2>3, <2>4, <2>5 DEF SecretInv
<1> QED
  BY <1>5, <1>6, <1>8 DEF IInv

(* What a step finds of the state and of a call, failed or not. *)
Failed(t) == [call[t] EXCEPT !.ok = FALSE]

LEMMA Changes ==
    ASSUME IInv, NEW t \in Threads
    PROVE  /\ call[t] \in AnyCall /\ call = [call EXCEPT ![t] = call[t]]
           /\ wcount \in Nat /\ wkey \in Nat /\ made \in Nat /\ whandle \in AnyHandle
           /\ gen \in Nat /\ wcount <= gen /\ (wcount = gen => Fresh(whandle))
  BY DEF IInv, Typed, FreshInv

LEMMA FailedIs ==
    ASSUME IInv, NEW t \in Threads
    PROVE  /\ Failed(t) \in AnyCall /\ Failed(t).sess = call[t].sess
           /\ Failed(t).temp = call[t].temp /\ Failed(t).hWrapper = call[t].hWrapper
           /\ [call EXCEPT ![t].ok = FALSE] = [call EXCEPT ![t] = Failed(t)]
<1>1. call[t] \in AnyCall
  BY Changes
<1>2. /\ Failed(t) \in AnyCall /\ Failed(t).sess = call[t].sess
      /\ Failed(t).temp = call[t].temp /\ Failed(t).hWrapper = call[t].hWrapper
  BY <1>1 DEF Failed, AnyCall
<1>3. [call EXCEPT ![t].ok = FALSE] = [call EXCEPT ![t] = Failed(t)]
  BY DEF Failed
<1> QED
  BY <1>2, <1>3

(* A thread goes on, or gives up, and touches nothing else. *)
LEMMA GoInv ==
    ASSUME Bounds, IInv, NEW t \in Threads, NEW l \in Places \ {"idle", "compute", "close"},
           pc[t] \notin {"idle", "close"}, pc' = [pc EXCEPT ![t] = l],
           call' = call \/ call' = [call EXCEPT ![t].ok = FALSE],
           UNCHANGED <<gen, objs, wvars, made>>,
           l \in {"storenext", "take"} => Fresh(whandle),
           l \in {"store", "storenext", "wrap", "unwrap"} => Fresh(call[t].hWrapper)
    PROVE  IInv'
<1>1. PICK c \in {call[t], Failed(t)} : call' = [call EXCEPT ![t] = c]
  BY Changes, FailedIs
<1>2. c \in AnyCall /\ c.sess = call[t].sess /\ c.temp = call[t].temp
      /\ c.hWrapper = call[t].hWrapper
  BY <1>1, Changes, FailedIs
<1>3. wcount' = wcount /\ wkey' = wkey /\ made' = made /\ whandle' = whandle /\ gen' = gen
      /\ objs' = objs
  BY DEF wvars
<1> QED
  BY <1>1, <1>2, <1>3, Changes, StepInv

(* A thread prepares the key pair: it touches neither a call nor an object, and takes the
   handle away before the count. *)
LEMMA PrepInv ==
    ASSUME Bounds, IInv, NEW t \in Threads, LunaUnwrapKeyBytes_prep(t)
    PROVE  IInv'
<1>1. CASE Prep(t)
  <2>1. PICK l \in {"generate", "prepared"} :
          pc' = [pc EXCEPT ![t] = l] /\ pc[t] = "prep" /\ UNCHANGED <<gen, objs, wvars, made, call>>
    BY <1>1 DEF Prep, Goto
  <2>2. l \in Places \ {"idle", "compute", "close"}
    BY DEF Places
  <2> QED
    BY <2>1, <2>2, GoInv
<1>2. CASE luna_init_wrapping_pkey_deferred(t)
  <2>1. /\ pc[t] = "generate" /\ pc' = [pc EXCEPT ![t] = "generated"]
        /\ UNCHANGED <<gen, objs, whandle, wcount, call>>
        /\ made' \in {made, made + 1} /\ wkey' \in {0, made + 1}
    BY <1>2 DEF luna_init_wrapping_pkey_deferred, Goto
  <2>2. "generated" \in Places \ {"idle", "compute", "close"} /\ made' \in Nat /\ wkey' \in Nat
    BY <2>1, Changes DEF Places
  <2> QED
    BY <2>1, <2>2, Changes, StepInv
<1>3. CASE Generated(t)
  <2>1. /\ pc[t] = "generated" /\ pc' = [pc EXCEPT ![t] = "reset"]
        /\ UNCHANGED <<gen, objs, wkey, whandle, wcount, made, call>>
    BY <1>3 DEF Generated, Goto
  <2>2. "reset" \in Places \ {"idle", "compute", "close"}
    BY DEF Places
  <2> QED
    BY <2>1, <2>2, Changes, StepInv
<1>4. CASE Reset(t)
  <2>1. NoObj \in AnyHandle /\ Fresh(NoObj)
    BY DEF NoObj, AnyHandle, Fresh
  <2>2. PICK l \in {"resetcount", "prepared"} :
          /\ pc[t] \in {"reset", "resetcount"} /\ pc' = [pc EXCEPT ![t] = l]
          /\ UNCHANGED <<gen, objs, wkey, made, call>>
          /\ \/ whandle' = NoObj /\ wcount' = wcount
             \/ whandle' = whandle /\ wcount' = 0
    BY <1>4 DEF Reset, Goto
  <2>3. l \in Places \ {"idle", "compute", "close"}
    BY DEF Places
  <2>4. gen # 0
    BY DEF IInv, Typed
  <2>5. /\ whandle' \in AnyHandle /\ wcount' \in Nat /\ wcount' <= gen
        /\ (wcount' = gen => Fresh(whandle')) /\ (whandle' = whandle \/ Fresh(whandle'))
    BY <2>1, <2>2, <2>4, Changes
  <2> QED
    BY <2>2, <2>3, <2>5, Changes, StepInv
<1>5. CASE Prepared(t)
  <2>1. PICK l \in {"destroy", "load"} :
          /\ pc[t] = "prepared" /\ pc' = [pc EXCEPT ![t] = l]
          /\ call' = call \/ call' = [call EXCEPT ![t].ok = FALSE]
          /\ UNCHANGED <<gen, objs, wvars, made>>
    BY <1>5 DEF Prepared, Goto, Fails
  <2>2. l \in Places \ {"idle", "compute", "close"}
    BY DEF Places
  <2> QED
    BY <2>1, <2>2, GoInv
<1> QED
  BY <1>1, <1>2, <1>3, <1>4, <1>5 DEF LunaUnwrapKeyBytes_prep

(* A thread imports the public key, or takes the handle another one has imported since
   the last initialization, and wraps with it. *)
LEMMA UnwrapInv ==
    ASSUME Bounds, IInv, NEW t \in Threads, LunaUnwrapKeyBytesOAEP(t)
    PROVE  IInv'
<1> USE Changes
<1>1. CASE Load(t)
  <2>1. CASE wkey = 0
    <3>1. /\ pc[t] = "load" /\ pc' = [pc EXCEPT ![t] = "destroy"]
          /\ call' = [call EXCEPT ![t].ok = FALSE] /\ UNCHANGED <<gen, objs, wvars, made>>
      BY <1>1, <2>1 DEF Load, Goto, Fails
    <3>2. "destroy" \in Places \ {"idle", "compute", "close"}
      BY DEF Places
    <3> QED
      BY <3>1, <3>2, GoInv
  <2>2. CASE wkey # 0
    <3> DEFINE c == [call[t] EXCEPT !.pkey = wkey]
    <3>1. /\ pc[t] = "load" /\ pc' = [pc EXCEPT ![t] = "check"]
          /\ call' = [call EXCEPT ![t] = c] /\ UNCHANGED <<gen, objs, wvars, made>>
      BY <1>1, <2>2 DEF Load, Goto
    <3>2. c \in AnyCall /\ c.sess = call[t].sess /\ c.temp = call[t].temp
      BY DEF AnyCall
    <3>3. "check" \in Places \ {"idle", "compute", "close"}
      BY DEF Places
    <3>4. /\ wcount' = wcount /\ wkey' = wkey /\ made' = made /\ whandle' = whandle
          /\ gen' = gen /\ objs' = objs
      BY <3>1 DEF wvars
    <3> HIDE DEF c
    <3> QED
      BY <3>1, <3>2, <3>3, <3>4, StepInv
  <2> QED
    BY <2>1, <2>2
<1>2. CASE Check(t)
  <2>1. PICK l \in {"import", "checkcount", "take"} :
          /\ pc[t] \in {"check", "checkcount"} /\ pc' = [pc EXCEPT ![t] = l]
          /\ l = "take" => wcount = gen
          /\ UNCHANGED <<gen, objs, wvars, made, call>>
    BY <1>2 DEF Check, Goto
  <2>2. l \in Places \ {"idle", "compute", "close"}
    BY DEF Places
  <2> QED
    BY <2>1, <2>2, GoInv
<1>3. CASE Take(t)
  <2> DEFINE c == [call[t] EXCEPT !.hWrapper = whandle]
  <2>1. /\ pc[t] = "take" /\ pc' = [pc EXCEPT ![t] = "wrap"]
        /\ call' = [call EXCEPT ![t] = c] /\ UNCHANGED <<gen, objs, wvars, made>>
    BY <1>3 DEF Take, Goto
  <2>2. c \in AnyCall /\ c.sess = call[t].sess /\ c.temp = call[t].temp /\ c.hWrapper = whandle
    BY DEF AnyCall
  <2>3. "wrap" \in Places \ {"idle", "compute", "close"}
    BY DEF Places
  <2>4. /\ wcount' = wcount /\ wkey' = wkey /\ made' = made /\ whandle' = whandle
        /\ gen' = gen /\ objs' = objs
    BY <2>1 DEF wvars
  <2>5. Fresh(whandle)
    BY <2>1 DEF IInv, FreshInv
  <2> HIDE DEF c
  <2> QED
    BY <2>1, <2>2, <2>3, <2>4, <2>5, StepInv
<1>4. CASE Import(t)
  <2>1. CASE Fails(t, "destroy") /\ UNCHANGED objs
    <3>1. /\ pc[t] = "import" /\ pc' = [pc EXCEPT ![t] = "destroy"]
          /\ call' = [call EXCEPT ![t].ok = FALSE] /\ UNCHANGED <<gen, objs, wvars, made>>
      BY <1>4, <2>1 DEF Import, Goto, Fails
    <3>2. "destroy" \in Places \ {"idle", "compute", "close"}
      BY DEF Places
    <3> QED
      BY <3>1, <3>2, GoInv
  <2>2. CASE ~(Fails(t, "destroy") /\ UNCHANGED objs)
    <3> DEFINE x == Object("wrapper", t, call[t].pkey)
               c == [call[t] EXCEPT !.hWrapper = x]
    <3>1. /\ pc[t] = "import" /\ pc' = [pc EXCEPT ![t] = "store"] /\ objs' = objs \cup {x}
          /\ call' = [call EXCEPT ![t] = c] /\ UNCHANGED <<gen, wvars, made>>
      BY <1>4, <2>2 DEF Import, Goto
    <3>2. call[t].pkey \in Nat
      BY DEF AnyCall
    <3>3. x \in AnyHandle /\ Fresh(x)
      BY <3>2, ObjectTyped, ObjectIs DEF IInv, Fresh
    <3>4. c \in AnyCall /\ c.sess = call[t].sess /\ c.temp = call[t].temp /\ c.hWrapper = x
      <4> HIDE DEF x
      <4> QED
        BY <3>3 DEF AnyCall
    <3>5. "store" \in Places \ {"idle", "compute", "close"}
      BY DEF Places
    <3>6. wcount' = wcount /\ wkey' = wkey /\ made' = made /\ whandle' = whandle /\ gen' = gen
      BY <3>1 DEF wvars
    <3> HIDE DEF c
    <3>7. objs' = objs \cup {Object("wrapper", t, call[t].pkey)}
      BY <3>1
    <3>8. /\ pc' = [pc EXCEPT ![t] = "store"] /\ pc[t] \notin {"idle", "close"}
          /\ call' = [call EXCEPT ![t] = c] /\ Fresh(c.hWrapper)
          /\ wcount' \in Nat /\ wkey' \in Nat /\ made' \in Nat /\ whandle' \in AnyHandle
          /\ wcount' <= gen /\ (wcount' = gen => Fresh(whandle'))
      BY <3>1, <3>3, <3>4, <3>6
    <3> HIDE DEF x
    <3> QED
      BY <3>4, <3>5, <3>6, <3>7, <3>8, StepInv
  <2> QED
    BY <2>1, <2>2
<1>5. CASE Store(t)
  <2>1. PICK i \in 1..2 :
          /\ pc[t] = <<"store", "storenext">>[i]
          /\ whandle' = IF Stores[i] = "handle" THEN call[t].hWrapper ELSE whandle
          /\ wcount' = IF Stores[i] = "count" THEN gen ELSE wcount
          /\ Goto(t, <<"storenext", "wrap">>[i])
    BY <1>5 DEF Store
  <2>2. UNCHANGED <<gen, objs, wkey, made, call>>
    BY <1>5 DEF Store
  <2>3. Fresh(call[t].hWrapper)
    BY <2>1 DEF IInv, FreshInv
  <2>4. call[t].hWrapper \in AnyHandle
    BY DEF AnyCall
  <2>5. CASE i = 1
    <3>1. pc[t] = "store" /\ whandle' = call[t].hWrapper /\ wcount' = wcount
          /\ pc' = [pc EXCEPT ![t] = "storenext"]
      BY <2>1, <2>5 DEF Stores, Goto
    <3>2. "storenext" \in Places \ {"idle", "compute", "close"}
      BY DEF Places
    <3> QED
      BY <2>2, <2>3, <2>4, <3>1, <3>2, StepInv
  <2>6. CASE i = 2
    <3>1. pc[t] = "storenext" /\ whandle' = whandle /\ wcount' = gen
          /\ pc' = [pc EXCEPT ![t] = "wrap"]
      BY <2>1, <2>6 DEF Stores, Goto
    <3>2. "wrap" \in Places \ {"idle", "compute", "close"}
      BY DEF Places
    <3>3. Fresh(whandle)
      BY <3>1 DEF IInv, FreshInv
    <3>4. /\ wcount' \in Nat /\ wkey' \in Nat /\ made' \in Nat /\ whandle' \in AnyHandle
          /\ wcount' <= gen /\ Fresh(whandle') /\ call[t] \in AnyCall
          /\ call' = [call EXCEPT ![t] = call[t]] /\ gen' = gen /\ objs' = objs
      BY <2>2, <3>1, <3>3
    <3> QED
      BY <2>3, <3>1, <3>2, <3>4, StepInv
  <2> QED
    BY <2>5, <2>6
<1>6. CASE Wrap(t) \/ Unwrap(t)
  <2>1. PICK l \in {"unwrap", "destroy"} :
          /\ pc[t] \in {"wrap", "unwrap"} /\ pc' = [pc EXCEPT ![t] = l]
          /\ call' = call \/ call' = [call EXCEPT ![t].ok = FALSE]
          /\ UNCHANGED <<gen, objs, wvars, made>>
    BY <1>6 DEF Wrap, Unwrap, Goto, Fails
  <2>2. l \in Places \ {"idle", "compute", "close"}
    BY DEF Places
  <2>3. Fresh(call[t].hWrapper)
    BY <2>1 DEF IInv, FreshInv
  <2> QED
    BY <2>1, <2>2, <2>3, GoInv
<1> QED
  BY <1>1, <1>2, <1>3, <1>4, <1>5, <1>6 DEF LunaUnwrapKeyBytesOAEP

(* The temporary object of the call is destroyed. *)
LEMMA DestroyInv ==
    ASSUME Bounds, IInv, NEW t \in Threads, Destroy(t)
    PROVE  IInv'
<1>1. /\ pc[t] = "destroy" /\ objs' = objs \ {call[t].temp} /\ pc' = [pc EXCEPT ![t] = "close"]
      /\ gen' = gen /\ wkey' = wkey /\ whandle' = whandle /\ wcount' = wcount
      /\ made' = made /\ call' = call
  BY DEF Destroy, Destroyed, Goto, wvars
<1>2. /\ pc' \in [Threads -> Places]
      /\ \A u \in Threads : pc'[u] = IF u = t THEN "close" ELSE pc[u]
  <2>1. "close" \in Places
    BY DEF Places
  <2> QED
    BY <1>1, <2>1 DEF IInv, Typed
<1>3. Typed'
  BY <1>1, <1>2 DEF IInv, Typed
<1>4. FreshInv'
  BY <1>1, <1>2 DEF IInv, FreshInv, Fresh
<1>5. SecretInv'
  <2>1. NoSecretStays'
    BY <1>1 DEF IInv, SecretInv, NoSecretStays
  <2>2. \A u \in Threads : pc'[u] = "close" => call'[u].temp \notin objs'
    BY <1>1, <1>2 DEF IInv, SecretInv
  <2>3. \A u \in Threads : /\ pc'[u] = "idle" => call'[u] = Local
                           /\ pc'[u] # "idle" => call'[u].sess # 0
                           /\ pc'[u] = "compute" => call'[u].temp = NoObj
                           /\ call'[u].temp # NoObj => call'[u].temp.home = call'[u].sess
    BY <1>1, <1>2 DEF IInv, SecretInv
  <2>4. NoObj \notin objs'
        /\ \A u, v \in Threads : call'[u].sess = call'[v].sess /\ call'[u].sess # 0 => u = v
    BY <1>1 DEF IInv, SecretInv
  <2> QED
    BY <2>1, <2>2, <2>3, <2>4 DEF SecretInv
<1> QED
  BY <1>3, <1>4, <1>5 DEF IInv

(* The call ends, and when it failed the objects of its session go with it. *)
LEMMA CloseInv ==
    ASSUME Bounds, IInv, NEW t \in Threads, luna_close_context_w_err(t)
    PROVE  IInv'
<1>1. /\ pc[t] = "close" /\ objs' \subseteq objs
      /\ pc' = [pc EXCEPT ![t] = "idle"] /\ call' = [call EXCEPT ![t] = Local]
      /\ gen' = gen /\ wkey' = wkey /\ whandle' = whandle /\ wcount' = wcount /\ made' = made
  BY DEF luna_close_context_w_err, Goto, wvars
<1>2. Local \in AnyCall /\ Local.temp = NoObj /\ Local.sess = 0
  <2>1. NoObj \in AnyHandle
    BY DEF NoObj, AnyHandle
  <2> QED
    BY <2>1 DEF Local, AnyCall
<1>3. /\ pc' \in [Threads -> Places] /\ call' \in [Threads -> AnyCall]
      /\ \A u \in Threads : pc'[u] = IF u = t THEN "idle" ELSE pc[u]
      /\ \A u \in Threads : call'[u] = IF u = t THEN Local ELSE call[u]
  <2>1. "idle" \in Places
    BY DEF Places
  <2> QED
    BY <1>1, <1>2, <2>1 DEF IInv, Typed
<1>4. Typed'
  BY <1>1, <1>3 DEF IInv, Typed
<1>5. FreshInv'
  BY <1>1, <1>3 DEF IInv, FreshInv, Fresh
<1>6. SecretInv'
  <2>1. call[t].temp \notin objs
    BY <1>1 DEF IInv, SecretInv
  <2>2. NoSecretStays'
    BY <1>1, <1>3, <2>1 DEF IInv, SecretInv, NoSecretStays
  <2>3. \A u, v \in Threads : call'[u].sess = call'[v].sess /\ call'[u].sess # 0 => u = v
    BY <1>2, <1>3 DEF IInv, SecretInv
  <2>4. \A u \in Threads : /\ pc'[u] = "idle" => call'[u] = Local
                           /\ pc'[u] # "idle" => call'[u].sess # 0
                           /\ pc'[u] = "compute" => call'[u].temp = NoObj
                           /\ call'[u].temp # NoObj => call'[u].temp.home = call'[u].sess
                           /\ pc'[u] = "close" => call'[u].temp \notin objs'
    BY <1>1, <1>2, <1>3 DEF IInv, SecretInv
  <2>5. NoObj \notin objs'
    BY <1>1 DEF IInv, SecretInv
  <2> QED
    BY <2>2, <2>3, <2>4, <2>5 DEF SecretInv
<1> QED
  BY <1>4, <1>5, <1>6 DEF IInv

LEMMA NextInv ==
    ASSUME Bounds, IInv, [Next]_vars
    PROVE  IInv'
<1>1. ASSUME NEW t \in Threads, LunaPqcKemEncap(t) \/ LunaPqcKemDecap(t)
      PROVE  IInv'
  <2>1. pc[t] = "compute"
    BY <1>1 DEF LunaPqcKemEncap, LunaPqcKemDecap
  <2>2. CASE Compute(t)
    <3>1. \/ /\ objs' = objs \cup {Object("secret", t, 0)} /\ pc' = [pc EXCEPT ![t] = "prep"]
             /\ call' = [call EXCEPT ![t].temp = Object("secret", t, 0)]
             /\ UNCHANGED <<gen, wvars, made>>
          \/ /\ pc' = [pc EXCEPT ![t] = "close"] /\ call' = [call EXCEPT ![t].ok = FALSE]
             /\ UNCHANGED <<gen, objs, wvars, made>>
      BY <2>2 DEF Compute, Goto, Fails
    <3> QED
      BY <2>1, <3>1, ComputedInv, GiveUpInv
  <2>3. CASE Goto(t, "close") /\ UNCHANGED <<gen, open, objs, wvars, made, call>>
    <3>1. /\ pc' = [pc EXCEPT ![t] = "close"] /\ call' = call
          /\ UNCHANGED <<gen, objs, wvars, made>>
      BY <2>3 DEF Goto
    <3> QED
      BY <2>1, <3>1, GiveUpInv
  <2> QED
    BY <1>1, <2>2, <2>3 DEF LunaPqcKemEncap, LunaPqcKemDecap
<1>2. ASSUME NEW t \in Threads, luna_prov_ECDH_compute_key_ex(t)
      PROVE  IInv'
  <2>1. pc[t] = "compute" /\ UNCHANGED <<gen, objs, wvars, made>>
    BY <1>2 DEF luna_prov_ECDH_compute_key_ex, LunaEcdhComputeKey
  <2>2. CASE Goto(t, "prep") /\ UNCHANGED call
    <3>1. "prep" \in Places \ {"idle", "compute", "close"}
      BY DEF Places
    <3> QED
      BY <2>1, <2>2, <3>1, GoInv DEF Goto
  <2>3. CASE Fails(t, "close")
    BY <2>1, <2>3, GiveUpInv DEF Fails, Goto
  <2> QED
    BY <1>2, <2>2, <2>3 DEF luna_prov_ECDH_compute_key_ex, LunaEcdhComputeKey
<1>3. CASE UNCHANGED vars
  <2>1. /\ gen' = gen /\ objs' = objs /\ wkey' = wkey /\ whandle' = whandle
        /\ wcount' = wcount /\ made' = made /\ pc' = pc /\ call' = call
    BY <1>3 DEF vars, wvars
  <2> QED
    BY <2>1 DEF IInv, Typed, FreshInv, Fresh, SecretInv, NoSecretStays
<1> QED
  BY <1>1, <1>2, <1>3, ReinitInv, OpenInv, PrepInv, UnwrapInv, DestroyInv, CloseInv DEF Next

(* An outdated handle never wraps a secret: LunaUnwrapKeyBytesOAEP's test of count and
   handle, without a lock, is enough for any number of threads and initializations. *)
THEOREM WrapperIsFresh ==
    ASSUME Bounds
    PROVE  Spec => []WrapperFresh
<1>1. IInv => WrapperFresh
  BY DEF IInv, FreshInv, Fresh, WrapperFresh
<1> QED
  BY <1>1, InitInv, NextInv, PTL DEF Spec

(* However a call ends, the object that holds its secret is out of the token. *)
THEOREM SecretsAreDestroyed ==
    ASSUME Bounds
    PROVE  Spec => []NoSecretStays
<1>1. IInv => NoSecretStays
  BY DEF IInv, SecretInv
<1> QED
  BY <1>1, InitInv, NextInv, PTL DEF Spec
-----------------------------------------------------------------------------
(* The types of the state. *)
Calls == [op : Ops \cup {"none"}, sess : Sessions \cup {0}, temp : Handles,
          pkey : 0..MaxKeys, hWrapper : Handles, ok : BOOLEAN]

LEMMA TypeInit ==
    ASSUME MaxInit \in Nat \ {0}, MaxKeys \in Nat
    PROVE  Init => TypeOK
<1>1. NoObj \in Handles
  BY DEF NoObj, Handles
<1>2. Local \in Calls
  BY <1>1 DEF Local, Calls
<1> SUFFICES ASSUME Init PROVE TypeOK
  OBVIOUS
<1>3. call \in [Threads -> Calls]
  BY <1>2 DEF Init
<1>4. /\ gen \in 1..MaxInit /\ open \subseteq Sessions /\ objs \subseteq Handles \ {NoObj}
      /\ wkey \in 0..MaxKeys /\ whandle \in Handles
      /\ wcount \in 0..MaxInit /\ made \in 0..MaxKeys /\ DOMAIN pc = Threads
  BY <1>1 DEF Init
<1>5. werror \in BOOLEAN
  BY DEF Init
<1> QED
  BY <1>3, <1>4, <1>5 DEF TypeOK, Calls

(* An object is made by a call, in the initialization of that moment. *)
LEMMA ObjectInHandles ==
    ASSUME MaxInit \in Nat, TypeOK, NEW t \in Threads, NEW k \in {"secret", "wrapper"},
           NEW w \in 0..MaxKeys
    PROVE  Object(k, t, w) \in Handles \ {NoObj}
<1>1. call[t].sess \in Sessions \cup {0} /\ gen \in 0..MaxInit
  BY DEF TypeOK
<1> QED
  BY <1>1, ObjectIs DEF Object, Handles

(* What a step writes into a call. *)
LEMMA CallTypes ==
    ASSUME TypeOK, NEW t \in Threads
    PROVE  /\ call \in [Threads -> Calls]
           /\ [call EXCEPT ![t].ok = FALSE] \in [Threads -> Calls]
           /\ \A k \in 0..MaxKeys : [call EXCEPT ![t].pkey = k] \in [Threads -> Calls]
           /\ \A o \in Handles : /\ [call EXCEPT ![t].temp = o] \in [Threads -> Calls]
                                 /\ [call EXCEPT ![t].hWrapper = o] \in [Threads -> Calls]
<1>1. call \in [Threads -> Calls] /\ call[t] \in Calls
  BY DEF TypeOK, Calls
<1>2. /\ [call[t] EXCEPT !.ok = FALSE] \in Calls
      /\ \A k \in 0..MaxKeys : [call[t] EXCEPT !.pkey = k] \in Calls
      /\ \A o \in Handles : /\ [call[t] EXCEPT !.temp = o] \in Calls
                            /\ [call[t] EXCEPT !.hWrapper = o] \in Calls
  BY <1>1 DEF Calls
<1> QED
  BY <1>1, <1>2

(* Only bounds and the types of the step before are needed. *)
LEMMA TypeStep ==
    ASSUME MaxInit \in Nat, MaxKeys \in Nat, TypeOK, [Next]_vars
    PROVE  TypeOK'
<1> DEFINE Goal ==
      /\ gen' \in 1..MaxInit /\ open' \subseteq Sessions
      /\ objs' \subseteq Handles \ {NoObj}
      /\ wkey' \in 0..MaxKeys /\ werror' \in BOOLEAN /\ whandle' \in Handles
      /\ wcount' \in 0..MaxInit /\ made' \in 0..MaxKeys
      /\ DOMAIN pc' = Threads /\ call' \in [Threads -> Calls]
<1>0. SUFFICES Goal
  BY DEF TypeOK, Calls
<1>1. /\ gen \in 1..MaxInit /\ open \subseteq Sessions /\ objs \subseteq Handles \ {NoObj}
      /\ wkey \in 0..MaxKeys /\ werror \in BOOLEAN /\ whandle \in Handles
      /\ wcount \in 0..MaxInit /\ made \in 0..MaxKeys
      /\ DOMAIN pc = Threads /\ call \in [Threads -> Calls]
  BY DEF TypeOK, Calls
<1>2. \A t \in Threads : \A p : DOMAIN [pc EXCEPT ![t] = p] = Threads
  BY <1>1
<1>3. NoObj \in Handles
  BY DEF NoObj, Handles
<1>4. CASE Reinit \/ luna_init_ecdh
  <2>1. CASE Reinit
    BY <1>1, <2>1 DEF Reinit, wvars
  <2>2. CASE luna_init_ecdh
    <3>1. werror' \in BOOLEAN
      BY <2>2 DEF luna_init_ecdh
    <3> QED
      BY <1>1, <1>3, <2>2, <3>1 DEF luna_init_ecdh
  <2> QED
    BY <1>4, <2>1, <2>2
<1>5. ASSUME NEW t \in Threads, NEW s \in Sessions, luna_open_context(t, s)
      PROVE  Goal
  <2>1. PICK o \in Ops : call' = [call EXCEPT ![t] = [Local EXCEPT !.op = o, !.sess = s]]
    BY <1>5 DEF luna_open_context
  <2>2. Local \in Calls
    BY <1>1, <1>3 DEF Local, Calls
  <2>3. [Local EXCEPT !.op = o, !.sess = s] \in Calls
    BY <2>2 DEF Calls
  <2> QED
    BY <1>1, <1>2, <1>5, <2>1, <2>3 DEF luna_open_context, wvars, Goto
<1>6. ASSUME NEW t \in Threads, Compute(t)
      PROVE  Goal
  <2>1. Object("secret", t, 0) \in Handles \ {NoObj}
    BY ObjectInHandles
  <2>2. [call EXCEPT ![t].temp = Object("secret", t, 0)] \in [Threads -> Calls]
        /\ [call EXCEPT ![t].ok = FALSE] \in [Threads -> Calls]
    BY <2>1, CallTypes, Zenon
  <2>3. call' \in [Threads -> Calls]
    BY <1>6, <2>2 DEF Compute, Fails
  <2>4. objs' \subseteq Handles \ {NoObj} /\ DOMAIN pc' = Threads
    BY <1>1, <1>2, <1>6, <2>1 DEF Compute, Fails, Goto
  <2> QED
    BY <1>1, <1>6, <2>3, <2>4 DEF Compute, wvars
<1>7. ASSUME NEW t \in Threads,
             LunaPqcKemEncap(t) \/ LunaPqcKemDecap(t) \/ luna_prov_ECDH_compute_key_ex(t)
      PROVE  Goal
  <2>1. CASE Compute(t)
    BY <1>6, <2>1
  <2>2. CASE LunaEcdhComputeKey(t)
    BY <1>1, <1>2, <2>2, CallTypes DEF LunaEcdhComputeKey, Fails, wvars, Goto
  <2>3. CASE Goto(t, "close") /\ UNCHANGED <<gen, open, objs, wvars, made, call>>
    BY <1>1, <1>2, <2>3 DEF wvars, Goto
  <2> QED
    BY <1>7, <2>1, <2>2, <2>3
       DEF LunaPqcKemEncap, LunaPqcKemDecap, luna_prov_ECDH_compute_key_ex
<1>8. ASSUME NEW t \in Threads, LunaUnwrapKeyBytes_prep(t)
      PROVE  Goal
  <2>1. CASE Prep(t)
    BY <1>1, <1>2, <2>1 DEF Prep, wvars, Goto
  <2>2. CASE luna_init_wrapping_pkey_deferred(t)
    BY <1>1, <1>2, <2>2 DEF luna_init_wrapping_pkey_deferred, Goto
  <2>3. CASE Generated(t)
    BY <1>1, <1>2, <2>3 DEF Generated, Goto
  <2>4. CASE Reset(t)
    BY <1>1, <1>2, <1>3, <2>4 DEF Reset, Goto
  <2>5. CASE Prepared(t)
    BY <1>1, <1>2, <2>5, CallTypes DEF Prepared, Fails, wvars, Goto
  <2> QED
    BY <1>8, <2>1, <2>2, <2>3, <2>4, <2>5 DEF LunaUnwrapKeyBytes_prep
<1>9. ASSUME NEW t \in Threads, LunaUnwrapKeyBytesOAEP(t)
      PROVE  Goal
  <2>0. /\ call[t].pkey \in 0..MaxKeys /\ call[t].hWrapper \in Handles
        /\ Object("wrapper", t, call[t].pkey) \in Handles \ {NoObj}
    BY <1>1, ObjectInHandles DEF Calls
  <2>1. CASE Load(t)
    <3>1. [call EXCEPT ![t].pkey = wkey] \in [Threads -> Calls]
          /\ [call EXCEPT ![t].ok = FALSE] \in [Threads -> Calls]
      BY <1>1, CallTypes, Zenon
    <3>2. call' \in [Threads -> Calls]
      BY <2>1, <3>1 DEF Load, Fails
    <3> QED
      BY <1>1, <1>2, <2>1, <3>2 DEF Load, Fails, wvars, Goto
  <2>2. CASE Check(t)
    BY <1>1, <1>2, <2>2 DEF Check, wvars, Goto
  <2>3. CASE Take(t)
    BY <1>1, <1>2, <2>3, CallTypes DEF Take, wvars, Goto
  <2>4. CASE Import(t)
    <3>0. [call EXCEPT ![t].hWrapper = Object("wrapper", t, call[t].pkey)] \in [Threads -> Calls]
          /\ [call EXCEPT ![t].ok = FALSE] \in [Threads -> Calls]
      BY <2>0, CallTypes, Zenon
    <3>1. call' \in [Threads -> Calls]
      BY <2>4, <3>0 DEF Import, Fails
    <3>2. objs' \subseteq Handles \ {NoObj} /\ DOMAIN pc' = Threads
      BY <1>1, <1>2, <2>0, <2>4 DEF Import, Fails, Goto
    <3> QED
      BY <1>1, <2>4, <3>1, <3>2 DEF Import, wvars
  <2>5. CASE Store(t)
    BY <1>1, <1>2, <2>0, <2>5 DEF Store, Goto
  <2>6. CASE Wrap(t)
    BY <1>1, <1>2, <2>6, CallTypes DEF Wrap, Fails, wvars, Goto
  <2>7. CASE Unwrap(t)
    BY <1>1, <1>2, <2>7, CallTypes DEF Unwrap, Fails, wvars, Goto
  <2> QED
    BY <1>9, <2>1, <2>2, <2>3, <2>4, <2>5, <2>6, <2>7 DEF LunaUnwrapKeyBytesOAEP
<1>10. ASSUME NEW t \in Threads, Destroy(t)
       PROVE  Goal
  BY <1>1, <1>2, <1>10 DEF Destroy, wvars, Goto
<1>11. ASSUME NEW t \in Threads, luna_close_context_w_err(t)
       PROVE  Goal
  <2>1. Local \in Calls
    BY <1>1, <1>3 DEF Local, Calls
  <2> QED
    BY <1>1, <1>2, <1>11, <2>1 DEF luna_close_context_w_err, wvars, Goto
<1>12. CASE UNCHANGED vars
  BY <1>1, <1>12 DEF vars, wvars
<1> HIDE DEF Goal
<1> QED
  BY <1>4, <1>5, <1>7, <1>8, <1>9, <1>10, <1>11, <1>12 DEF Next
==============================================================================
