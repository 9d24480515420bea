-------------------------- MODULE EngineKeyProofs --------------------------
(* Theorems about the keys of the engine, EngineKey, for any threads, sessions, objects of
   the token and configurations and any finite set of keys: where private operations are
   done, that the token is given the key's own object, and the padding of RSA operations.

   IInv is what decides where an operation is done. Inv adds what a handle rests on: the
   objects of the token and room for one more pair (ObjInv, Room), the sessions whose end
   takes objects away (SessInv), the handles that ex_data remember (ExInv) and the ones
   that calls hold (HandInv). *)
EXTENDS EngineKey, FiniteSetTheorems, FunctionTheorems, WellFoundedInduction, TLAPS

Working == {"lookup", "search", "use"}
Making == {"gen", "load"}

(* The calls a thread makes: on a key object, or to have one made. Only what is said here
   of a call matters, not its session or handle. *)
IsMaking(c) == c.pc \in Making /\ {"pc", "key"} \subseteq DOMAIN c /\ c.key \in Keys
IsWork(c) == /\ c.pc \in Working \cup {"software"} /\ {"pc", "key", "class"} \subseteq DOMAIN c
             /\ c.key \in Keys /\ c.class \in Class
IsCall(c) == c = NoCall \/ IsMaking(c) \/ IsWork(c)

Members == {"absent", "null", "one", "pattern", "real"}

(* A key object that is being made is nobody else's business, and what a call does was
   decided by the private members the key object still has. *)
Alone(t) == call[t].pc \in Making =>
    /\ app[call[t].key] = "absent"
    /\ \A u \in Threads : u # t /\ call[u].pc # "idle" => call[u].key # call[t].key
Decided(t) == call[t].pc \in Working \cup {"software"} =>
    /\ app[call[t].key] # "absent"
    /\ call[t].class = "priv" => (call[t].pc = "software" <=> app[call[t].key] = "real")

IInv == /\ app \in [Keys -> Members]
        /\ DOMAIN call = Threads
        /\ \A t \in Threads : IsCall(call[t]) /\ Alone(t) /\ Decided(t)

(* The kinds of calls are told apart by where they are. *)
LEMMA CallIs ==
    ASSUME NEW c, IsCall(c)
    PROVE  /\ c.pc = "idle" => c = NoCall
           /\ c.pc \in Making => IsMaking(c)
           /\ c.pc \in Working \cup {"software"} => IsWork(c)
           /\ c.pc # "idle" => c.key \in Keys
  BY DEF IsCall, IsMaking, IsWork, NoCall, Making, Working

LEMMA InitIInv == Init => IInv
<1> SUFFICES ASSUME Init PROVE IInv
  OBVIOUS
<1>1. app \in [Keys -> Members] /\ call = [t \in Threads |-> NoCall] /\ IsCall(NoCall)
  BY DEF Init, Members, IsCall
<1>2. \A t \in Threads : call[t] = NoCall /\ NoCall.pc = "idle"
  BY <1>1 DEF NoCall
<1> QED
  BY <1>1, <1>2 DEF IInv, Alone, Decided, Making, Working

-----------------------------------------------------------------------------
(* A call ends, or goes on where it was decided to be, or in software if it is public. *)
LEMMA GoesOn ==
    ASSUME IInv, NEW t \in Threads, NEW c, IsCall(c), app' = app,
           call' = [call EXCEPT ![t] = c],
           \/ c = NoCall
           \/ /\ call[t].pc \in Working /\ c.key = call[t].key /\ c.class = call[t].class
              /\ \/ c.pc \in Working
                 \/ c.pc = "software" /\ c.class = "pub"
    PROVE  IInv'
<1>1. /\ DOMAIN call' = Threads /\ IsCall(call[t])
      /\ \A u \in Threads : call'[u] = IF u = t THEN c ELSE call[u]
      /\ \A u \in Threads : IsCall(call'[u])
  BY DEF IInv
<1>2. NoCall.pc = "idle"
  BY DEF NoCall
<1>3. Making \cap Working = {} /\ "software" \notin Making \cup Working
      /\ "idle" \notin Making \cup Working
  BY DEF Making, Working
<1>4. ASSUME NEW u \in Threads
      PROVE  IsCall(call'[u]) /\ Alone(u)' /\ Decided(u)'
  <2>1. CASE u = t
    <3>1. Alone(u)'
      BY <1>1, <1>2, <1>3, <2>1 DEF Alone
    <3>2. Decided(u)'
      <4>1. CASE c = NoCall
        BY <1>1, <1>2, <1>3, <2>1, <4>1 DEF Decided
      <4>2. CASE c # NoCall
        <5>1. Decided(t) /\ call[t].pc \in Working /\ c.key = call[t].key /\ c.class = call[t].class
              /\ (c.pc \in Working \/ (c.pc = "software" /\ c.class = "pub"))
          BY <4>2 DEF IInv
        <5> QED
          BY <1>1, <1>3, <2>1, <5>1 DEF Decided
      <4> QED
        BY <4>1, <4>2
    <3> QED
      BY <1>1, <3>1, <3>2
  <2>2. CASE u # t
    <3>1. call'[u] = call[u] /\ Alone(u) /\ Decided(u)
      BY <1>1, <2>2 DEF IInv
    <3>2. Decided(u)'
      BY <3>1 DEF Decided
    <3>3. c.pc # "idle" => call[t].pc # "idle" /\ c.key = call[t].key
      BY <1>2, <1>3
    <3>4. Alone(u)'
      BY <1>1, <2>2, <3>1, <3>3 DEF Alone
    <3> QED
      BY <1>1, <3>2, <3>4
  <2> QED
    BY <2>1, <2>2
<1> QED
  BY <1>1, <1>4 DEF IInv

(* A call starts on a key object that is there and not being made. *)
LEMMA StartsWork ==
    ASSUME IInv, NEW t \in Threads, NEW c, IsCall(c), app' = app,
           call[t].pc = "idle", call' = [call EXCEPT ![t] = c],
           c.pc \in Working \cup {"software"}, app[c.key] # "absent",
           c.class = "priv" => (c.pc = "software" <=> app[c.key] = "real")
    PROVE  IInv'
<1>1. /\ DOMAIN call' = Threads
      /\ \A u \in Threads : call'[u] = IF u = t THEN c ELSE call[u]
      /\ \A u \in Threads : IsCall(call'[u])
  BY DEF IInv
<1>2. c.pc \notin Making
  BY DEF Making, Working
<1>3. ASSUME NEW u \in Threads
      PROVE  IsCall(call'[u]) /\ Alone(u)' /\ Decided(u)'
  <2>1. CASE u = t
    BY <1>1, <1>2, <2>1 DEF Alone, Decided
  <2>2. CASE u # t
    <3>1. call'[u] = call[u] /\ Alone(u) /\ Decided(u)
      BY <1>1, <2>2 DEF IInv
    <3>2. call[u].pc \in Making => c.key # call[u].key
      BY <3>1 DEF Alone
    <3> QED
      BY <1>1, <3>1, <3>2 DEF Alone, Decided
  <2> QED
    BY <2>1, <2>2
<1> QED
  BY <1>1, <1>3 DEF IInv

(* A call starts to make a key object that is not there. *)
LEMMA StartsMaking ==
    ASSUME IInv, NEW t \in Threads, NEW c, IsCall(c), app' = app,
           call[t].pc = "idle", call' = [call EXCEPT ![t] = c],
           c.pc \in Making, New(c.key)
    PROVE  IInv'
<1>1. /\ DOMAIN call' = Threads
      /\ \A u \in Threads : call'[u] = IF u = t THEN c ELSE call[u]
      /\ \A u \in Threads : IsCall(call'[u])
  BY DEF IInv
<1>2. c.pc \notin Working \cup {"software"}
  BY DEF Making, Working
<1>3. app[c.key] = "absent" /\ \A u \in Threads : call[u].pc # "idle" => call[u].key # c.key
  BY DEF New, Busy
<1>4. ASSUME NEW u \in Threads
      PROVE  IsCall(call'[u]) /\ Alone(u)' /\ Decided(u)'
  <2>1. CASE u = t
    BY <1>1, <1>2, <1>3, <2>1 DEF Alone, Decided
  <2>2. CASE u # t
    <3>1. call'[u] = call[u] /\ Alone(u) /\ Decided(u)
      BY <1>1, <2>2 DEF IInv
    <3>2. "idle" \notin Making
      BY DEF Making
    <3> QED
      BY <1>1, <1>3, <3>1, <3>2 DEF Alone, Decided
  <2> QED
    BY <2>1, <2>2
<1> QED
  BY <1>1, <1>4 DEF IInv

(* The private members of key k change when no other call is on k. *)
LEMMA Changes ==
    ASSUME IInv, NEW k \in Keys, NEW v \in Members, app' = [app EXCEPT ![k] = v],
           DOMAIN call' = Threads,
           \A u \in Threads : call'[u] = NoCall \/ (call'[u] = call[u] /\ call[u].key # k)
                              \/ (call'[u] = call[u] /\ call[u].pc = "idle")
    PROVE  IInv'
<1>1. NoCall.pc = "idle" /\ IsCall(NoCall)
  BY DEF NoCall, IsCall
<1>2. /\ app' \in [Keys -> Members]
      /\ \A u \in Threads : call'[u] = call[u] \/ call'[u] = NoCall
  BY <1>1 DEF IInv
<1>3. "idle" \notin Making \cup Working \cup {"software"}
  BY DEF Making, Working
<1>4. ASSUME NEW u \in Threads
      PROVE  IsCall(call'[u]) /\ Alone(u)' /\ Decided(u)'
  <2>1. CASE call'[u].pc = "idle"
    BY <1>1, <1>2, <1>3, <2>1 DEF IInv, Alone, Decided
  <2>2. CASE call'[u].pc # "idle"
    <3>1. /\ call'[u] = call[u] /\ call[u].key # k /\ Alone(u) /\ Decided(u)
          /\ IsCall(call[u])
      BY <1>1, <1>2, <2>2 DEF IInv
    <3>2. app'[call[u].key] = app[call[u].key]
      <4>1. call[u].key \in Keys
        BY <2>2, <3>1, CallIs
      <4> QED
        BY <3>1, <4>1 DEF IInv
    <3>3. Alone(u)'
      BY <1>1, <1>2, <3>1, <3>2 DEF Alone
    <3>4. Decided(u)'
      BY <3>1, <3>2 DEF Decided
    <3> QED
      BY <3>1, <3>3, <3>4
  <2> QED
    BY <2>1, <2>2
<1> QED
  BY <1>2, <1>4 DEF IInv

(* Nothing changes that the invariant is about. *)
LEMMA Same == ASSUME IInv, app' = app, call' = call PROVE IInv'
  BY DEF IInv, Alone, Decided

LEMMA Ended == ASSUME IInv, NEW t \in Threads, app' = app, Ends(t) PROVE IInv'
<1>1. call' = [call EXCEPT ![t] = NoCall] /\ IsCall(NoCall)
  BY DEF Ends, IsCall
<1> QED
  BY <1>1, GoesOn

-----------------------------------------------------------------------------
(* Opening a context adds its slot and session to the call. *)
LEMMA Opened ==
    ASSUME IInv, NEW t \in Threads, NEW S, NEW rec, Open(t, S, rec), {"pc", "key"} \subseteq DOMAIN rec
    PROVE  \E c : /\ call' = [call EXCEPT ![t] = c]
                  /\ {"pc", "key"} \subseteq DOMAIN c /\ c.pc = rec.pc /\ c.key = rec.key
                  /\ "class" \in DOMAIN rec => "class" \in DOMAIN c /\ c.class = rec.class
<1>1. PICK s \in S, h \in Sessions :
        call' = [call EXCEPT ![t] =
                    [n \in DOMAIN rec \cup {"slot", "sess"} |->
                        IF n = "slot" THEN s ELSE IF n = "sess" THEN h ELSE rec[n]]]
  BY DEF Open
<1> DEFINE c == [n \in DOMAIN rec \cup {"slot", "sess"} |->
                    IF n = "slot" THEN s ELSE IF n = "sess" THEN h ELSE rec[n]]
<1>2. /\ {"pc", "key"} \subseteq DOMAIN c /\ c.pc = rec.pc /\ c.key = rec.key
      /\ "class" \in DOMAIN rec => "class" \in DOMAIN c /\ c.class = rec.class
  OBVIOUS
<1>3. call' = [call EXCEPT ![t] = c]
  BY <1>1
<1> HIDE DEF c
<1> QED
  BY <1>2, <1>3

(* The application reads or frees a key object. *)
LEMMA FileStep ==
    ASSUME IInv, NEW k \in Keys, ReadFile(k) \/ FreeKey(k)
    PROVE  IInv'
<1>1. ~Busy(k) /\ call' = call
  BY DEF ReadFile, FreeKey, New
<1>2. PICK v \in Members : app' = [app EXCEPT ![k] = v]
  <2>1. Files[k] \in Members /\ "null" \in Members /\ "absent" \in Members
    BY KeysAssumption DEF Members
  <2> QED
    BY <2>1 DEF ReadFile, FreeKey
<1> QED
  BY <1>1, <1>2, Changes DEF Busy, IInv

LEMMA OperateStep ==
    ASSUME IInv, NEW t \in Threads, NEW k \in Keys, NEW class \in Class, Operate(t, k, class)
    PROVE  IInv'
<1> DEFINE rec == [pc |-> "lookup", key |-> k, class |-> class, h |-> NoHandle]
           soft == [pc |-> "software", key |-> k, class |-> class, h |-> NoHandle]
<1>1. call[t].pc = "idle" /\ app[k] # "absent" /\ app' = app
  BY DEF Operate, Idle
<1>2. class = "priv" => (InSoftware(k, class) <=> app[k] = "real")
  BY DEF InSoftware, luna_check_private
<1>3. CASE InSoftware(k, class)
  <2>1. call' = [call EXCEPT ![t] = soft]
    BY <1>3 DEF Operate
  <2>2. IsWork(soft) /\ soft.pc = "software" /\ soft.key = k /\ soft.class = class
    BY DEF IsWork
  <2> HIDE DEF soft
  <2> QED
    BY <1>1, <1>2, <1>3, <2>1, <2>2, StartsWork DEF IsCall
<1>4. CASE ~InSoftware(k, class)
  <2>1. Open(t, Slots, rec)
    BY <1>4 DEF Operate
  <2>2. {"pc", "key"} \subseteq DOMAIN rec /\ "class" \in DOMAIN rec /\ rec.pc = "lookup" /\ rec.key = k /\ rec.class = class
    OBVIOUS
  <2> HIDE DEF rec
  <2>3. PICK c : /\ call' = [call EXCEPT ![t] = c] /\ {"pc", "key", "class"} \subseteq DOMAIN c
                 /\ c.pc = "lookup" /\ c.key = k /\ c.class = class
    BY <2>1, <2>2, Opened
  <2>4. IsCall(c) /\ c.pc \in Working /\ c.pc # "software"
    BY <2>3 DEF IsCall, IsWork, Working
  <2> QED
    BY <1>1, <1>2, <1>4, <2>3, <2>4, StartsWork
<1> QED
  BY <1>3, <1>4

(* The steps of an operation change where the call is and the handle it has. *)
LEMMA WorkStep ==
    ASSUME IInv, NEW t \in Threads,
           Lookup(t) \/ SearchFinds(t) \/ SearchFails(t) \/ Use(t) \/ SoftwareReturns(t)
    PROVE  IInv'
<1>1. app' = app
  BY DEF Lookup, SearchFinds, SearchFails, Use, SoftwareReturns
<1>2. CASE Ends(t)
  BY <1>1, <1>2, Ended
<1>3. ASSUME call[t].pc \in Working, NEW l \in Working, NEW n,
             \/ call' = [call EXCEPT ![t].pc = l]
             \/ call' = [call EXCEPT ![t].pc = l, ![t].h = n]
      PROVE  IInv'
  <2> DEFINE c == call[t]  a == [c EXCEPT !.pc = l]  b == [c EXCEPT !.pc = l, !.h = n]
  <2>1. IsWork(c)
    BY <1>3, CallIs DEF IInv
  <2>2. IsWork(a) /\ a.pc = l /\ a.key = c.key /\ a.class = c.class
    BY <1>3, <2>1 DEF IsWork
  <2>3. IsWork(b) /\ b.pc = l /\ b.key = c.key /\ b.class = c.class
    BY <1>3, <2>1 DEF IsWork
  <2>4. call' = [call EXCEPT ![t] = a] \/ call' = [call EXCEPT ![t] = b]
    BY <1>3
  <2> HIDE DEF a, b
  <2> QED
    BY <1>1, <1>3, <2>2, <2>3, <2>4, GoesOn DEF IsCall
<1>4. CASE Lookup(t)
  <2>1. PICK n : n = ex[call[t].key][<<call[t].class, call[t].slot>>]
    OBVIOUS
  <2>2. call[t].pc \in Working /\ "use" \in Working /\ "search" \in Working
    BY <1>4 DEF Lookup, Working
  <2>3. Uses(t, n) \/ Goes(t, "search")
    BY <1>4, <2>1 DEF Lookup
  <2> QED
    BY <1>3, <2>2, <2>3 DEF Uses, Goes
<1>5. CASE SearchFinds(t)
  <2>1. PICK n : Uses(t, n)
    BY <1>5 DEF SearchFinds
  <2>2. call[t].pc \in Working /\ "use" \in Working
    BY <1>5 DEF SearchFinds, Working
  <2> QED
    BY <1>3, <2>1, <2>2 DEF Uses
<1>6. CASE SearchFails(t) /\ call[t].class # "priv"
  <2> DEFINE c == [pc |-> "software", key |-> call[t].key, class |-> call[t].class, h |-> NoHandle]
  <2>1. call' = [call EXCEPT ![t] = c] /\ call[t].pc = "search"
    BY <1>6 DEF SearchFails
  <2>2. call[t].pc \in Working
    BY <2>1 DEF Working
  <2>3. IsWork(call[t])
    BY <2>2, CallIs DEF IInv
  <2>4. IsWork(c) /\ c.pc = "software" /\ c.key = call[t].key /\ c.class = call[t].class
    BY <2>3 DEF IsWork
  <2>5. c.class = "pub"
    BY <1>6, <2>3, <2>4 DEF IsWork, Class
  <2> HIDE DEF c
  <2> QED
    BY <1>1, <2>1, <2>2, <2>4, <2>5, GoesOn DEF IsCall
<1>7. CASE SearchFails(t) /\ call[t].class = "priv"
  BY <1>2, <1>7 DEF SearchFails
<1>8. CASE Use(t) \/ SoftwareReturns(t)
  BY <1>2, <1>8 DEF Use, SoftwareReturns
<1> QED
  BY <1>4, <1>5, <1>6, <1>7, <1>8

(* A key object comes into being for the one call that makes it. *)
LEMMA StartStep ==
    ASSUME IInv, NEW t \in Threads, NEW k \in Keys, Generate(t, k) \/ Load(t, k)
    PROVE  IInv'
<1>1. New(k) /\ call[t].pc = "idle"
  BY DEF Generate, Load, Idle
<1>2. CASE Generate(t, k) /\ luna_ecdsa_keygen(t, k)
  <2>1. app' = [app EXCEPT ![k] = "real"] /\ call' = call /\ "real" \in Members
    BY <1>2 DEF luna_ecdsa_keygen, Members
  <2> QED
    BY <1>1, <2>1, Changes DEF New, Busy, IInv
<1>3. ASSUME NEW l \in Making, Open(t, {0}, [pc |-> l, key |-> k]) \/ Open(t, Slots, [pc |-> l, key |-> k]),
             app' = app
      PROVE  IInv'
  <2> DEFINE rec == [pc |-> l, key |-> k]
  <2>1. {"pc", "key"} \subseteq DOMAIN rec /\ rec.pc = l /\ rec.key = k
    OBVIOUS
  <2>2. Open(t, {0}, rec) \/ Open(t, Slots, rec)
    BY <1>3
  <2> HIDE DEF rec
  <2>3. PICK c : /\ call' = [call EXCEPT ![t] = c] /\ {"pc", "key"} \subseteq DOMAIN c
                 /\ c.pc = l /\ c.key = k
    BY <2>1, <2>2, Opened
  <2>4. IsCall(c)
    BY <2>3 DEF IsCall, IsMaking
  <2> QED
    BY <1>1, <1>3, <2>3, <2>4, StartsMaking
<1>4. "gen" \in Making /\ "load" \in Making
  BY DEF Making
<1>5. CASE Generate(t, k) /\ ~luna_ecdsa_keygen(t, k)
  BY <1>3, <1>4, <1>5 DEF Generate
<1>6. CASE Load(t, k)
  BY <1>3, <1>4, <1>6 DEF Load
<1> QED
  BY <1>2, <1>5, <1>6

LEMMA MakeStep ==
    ASSUME IInv, NEW t \in Threads,
           KeygenOk(t) \/ KeygenFails(t) \/ luna_load_anykey(t) \/ LoadFails(t)
    PROVE  IInv'
<1>1. call[t].pc \in Making /\ Ends(t) /\ call' = [call EXCEPT ![t] = NoCall]
  BY DEF KeygenOk, KeygenFails, luna_load_anykey, LoadFails, Making, Ends
<1>2. call[t].key \in Keys /\ Alone(t)
  BY <1>1, CallIs DEF IInv, IsMaking
<1>3. \A u \in Threads : call'[u] = IF u = t THEN NoCall ELSE call[u]
  BY <1>1 DEF IInv
<1>4. ASSUME NEW v \in Members, app' = [app EXCEPT ![call[t].key] = v]
      PROVE  IInv'
  <2>1. DOMAIN call' = Threads
    BY <1>1 DEF IInv
  <2>2. \A u \in Threads : u # t => call[u].pc = "idle" \/ call[u].key # call[t].key
    BY <1>1, <1>2 DEF Alone
  <2> QED
    BY <1>2, <1>3, <1>4, <2>1, <2>2, Changes
<1>5. CASE KeygenOk(t)
  <2>1. PICK p : app' = [app EXCEPT ![call[t].key] = Generated(call[t].key, p).priv]
    BY <1>5 DEF KeygenOk
  <2>2. KeyType[call[t].key] \in {"rsa", "dsa", "ec"}
    BY <1>2, KeysAssumption
  <2>3. Generated(call[t].key, p).priv \in Members
    BY <2>2 DEF Generated, luna_rsa_keygen_ex, luna_dsa_keygen_ex, luna_ec_keygen_hw_ex, Members
  <2> QED
    BY <1>4, <2>1, <2>3
<1>6. CASE KeygenFails(t) \/ LoadFails(t)
  BY <1>1, <1>6, Ended DEF KeygenFails, LoadFails
<1>7. CASE luna_load_anykey(t)
  <2>1. PICK id \in Forms, hint \in Class : \E o \in LoadFinds(t, id, hint) :
          \E new \in Loaded(o, hint) :
             /\ KnowsType(id)
             /\ app' = [app EXCEPT ![o.key] = new.priv] /\ ex' = [ex EXCEPT ![o.key] = new.ex]
    BY <1>7, Zenon DEF luna_load_anykey
  <2> PICK o \in LoadFinds(t, id, hint) :
          \E new \in Loaded(o, hint) : KnowsType(id) /\ app' = [app EXCEPT ![o.key] = new.priv]
    BY <2>1
  <2> PICK new \in Loaded(o, hint) : KnowsType(id) /\ app' = [app EXCEPT ![o.key] = new.priv]
    OBVIOUS
  <2>2. o \in Named(t, id) /\ id \in {"label pub", "label priv", "id"}
    BY DEF LoadFinds, KnowsType, Forms
  <2>3. o.key = call[t].key
    <3>1. CASE id = "id"
      BY <1>2, <2>2, <3>1, KeysAssumption DEF Named, CkaId
    <3>2. CASE id \in {"label pub", "label priv"}
      BY <1>2, <2>2, <3>2 DEF Named, Label
    <3> QED
      BY <2>2, <3>1, <3>2
  <2>4. KeyType[o.key] \in {"rsa", "dsa", "ec"}
    BY <1>2, <2>3, KeysAssumption
  <2>5. new.priv \in Members
    <3>1. Marked(hint, "one") \in Members /\ Marked(hint, "pattern") \in Members
      BY DEF Marked, Members
    <3>2. CASE KeyType[o.key] = "rsa"
      BY <3>1, <3>2 DEF Loaded, luna_load_rsa
    <3>3. CASE KeyType[o.key] = "dsa"
      BY <3>1, <3>3 DEF Loaded, luna_load_dsa
    <3>4. CASE KeyType[o.key] = "ec"
      BY <3>1, <3>4 DEF Loaded, luna_load_ecdsa_FAST
    <3> QED
      BY <2>4, <3>2, <3>3, <3>4
  <2> QED
    BY <1>4, <2>3, <2>5
<1> QED
  BY <1>5, <1>6, <1>7

LEMMA NextIInv == ASSUME IInv, [Next]_vars PROVE IInv'
<1>1. CASE Reinitialize \/ UNCHANGED vars
  BY <1>1, Same DEF Reinitialize, vars
<1> QED
  BY <1>1, FileStep, OperateStep, WorkStep, StartStep, MakeStep DEF Next

-----------------------------------------------------------------------------
(* The objects of the token have handles of their own, and a key has one object of a class
   in a slot: the ones it has from the start, and a pair in slot 0. *)
ObjInv ==
    /\ config \in Config
    /\ tok \subseteq Obj
    /\ \A o, p \in tok : o.n = p.n => o = p
    /\ \A o, p \in tok : o.key = p.key /\ o.class = p.class /\ o.slot = p.slot => o = p
    /\ \A o \in tok : <<o.key, o.class, o.slot>> \in Stored \cup (Keys \X Class \X {0})
    /\ config.token => \A o \in tok : o.owner = Token

(* A session is in one cache or in one call. *)
Fields(c) == /\ {"pc", "key", "slot", "sess"} \subseteq DOMAIN c
             /\ c.pc \in Working => {"class", "h"} \subseteq DOMAIN c
SessInv ==
    /\ cached \in [Slots -> SUBSET Sessions] /\ cached[0] \cap cached[1] = {}
    /\ \A t \in OpenCalls :
          /\ Fields(call[t]) /\ call[t].slot \in Slots
          /\ call[t].sess \in Sessions /\ call[t].sess \notin cached[0] \cup cached[1]
    /\ \A t, u \in OpenCalls : call[t].sess = call[u].sess => t = u

(* A handle leads to the object of the key if there is one. *)
Leads(k, c, s, n) ==
    ObjectsOf(k, c, s) # {} \/ config.token => n \in Numbers(ObjectsOf(k, c, s))

(* So does what the ex_data of a key remembers; an absent key remembers nothing. *)
ExInv ==
    /\ ex \in [Keys -> [Class \X Slots -> Handles \cup {NoHandle}]]
    /\ \A k \in Keys : app[k] = "absent" => ex[k] = Unknown
    /\ \A k \in Keys, c \in Class, s \in Slots :
          ex[k][<<c, s>>] # NoHandle => Leads(k, c, s, ex[k][<<c, s>>])

(* A key is generated in slot 0 while it has no object; a handle in use leads to its key. *)
Ready(c) ==
    /\ c.pc = "gen" => c.slot = 0 /\ \A o \in tok : o.key # c.key
    /\ c.pc = "use" => Leads(c.key, c.class, c.slot, c.h)
HandInv == \A t \in Threads : Ready(call[t])

Inv == IInv /\ ObjInv /\ SessInv /\ ExInv /\ HandInv

(* Objects go away, those of the token itself stay. *)
Fewer == /\ tok' \subseteq tok /\ config' = config
         /\ config.token => tok' = tok

LEMMA FewerObjects ==
    ASSUME ObjInv, Fewer
    PROVE  /\ ObjInv'
           /\ \A n : \A k \in Keys, c \in Class, s \in Slots :
                 Leads(k, c, s, n) => Leads(k, c, s, n)'
<1>1. ObjInv'
  BY DEF ObjInv, Fewer
<1>2. ASSUME NEW k \in Keys, NEW c \in Class, NEW s \in Slots, NEW n, Leads(k, c, s, n)
      PROVE  Leads(k, c, s, n)'
  <2>1. CASE config.token
    BY <1>2, <2>1 DEF Leads, ObjectsOf, Fewer
  <2>2. CASE ~config.token /\ ObjectsOf(k, c, s)' # {}
    <3>1. PICK o \in tok' : o.key = k /\ o.class = c /\ o.slot = s
      BY <2>2 DEF ObjectsOf
    <3>2. o \in tok /\ o \in ObjectsOf(k, c, s)
      BY <3>1 DEF Fewer, ObjectsOf
    <3>3. PICK p \in ObjectsOf(k, c, s) : p.n = n
      BY <1>2, <3>2 DEF Leads, Numbers
    <3>4. p = o
      BY <3>1, <3>2, <3>3 DEF ObjInv, ObjectsOf
    <3>5. o \in ObjectsOf(k, c, s)'
      BY <3>1 DEF ObjectsOf
    <3> QED
      BY <3>3, <3>4, <3>5 DEF Leads, Numbers
  <2>3. CASE ~config.token /\ ObjectsOf(k, c, s)' = {}
    BY <2>3 DEF Leads, Fewer
  <2> QED
    BY <2>1, <2>2, <2>3
<1> QED
  BY <1>1, <1>2

(* What is known of the key, class and slot of a call. *)
LEMMA CallPlaces ==
    ASSUME IInv, SessInv, NEW t \in Threads
    PROVE  /\ call[t].pc \in Inside => t \in OpenCalls /\ call[t].key \in Keys /\ call[t].slot \in Slots
           /\ call[t].pc \in Working => call[t].pc \in Inside /\ call[t].class \in Class
<1>1. IsCall(call[t])
  BY DEF IInv
<1>2. call[t].pc \in Inside => call[t].pc # "idle" /\ t \in OpenCalls
  BY DEF Inside, OpenCalls
<1>3. call[t].pc \in Working => call[t].pc \in Inside /\ call[t].class \in Class
  BY <1>1, CallIs DEF Working, Inside, IsWork
<1> QED
  BY <1>1, <1>2, <1>3, CallIs DEF SessInv

(* A step of one call that makes no object. *)
LEMMA OneCall ==
    ASSUME IInv, ObjInv, SessInv, HandInv, Fewer, NEW t \in Threads, NEW c,
           call' = [call EXCEPT ![t] = c],
           c.pc = "gen" => c.slot = 0 /\ \A o \in tok : o.key # c.key,
           c.pc = "use" => /\ c.key \in Keys /\ c.class \in Class /\ c.slot \in Slots
                           /\ Leads(c.key, c.class, c.slot, c.h)
    PROVE  ObjInv' /\ HandInv'
<1>1. \A u \in Threads : call'[u] = IF u = t THEN c ELSE call[u]
  BY DEF IInv
<1>2. tok' \subseteq tok
  BY DEF Fewer
<1>3. ASSUME NEW u \in Threads
      PROVE  Ready(call[u])'
  <2>1. CASE u = t
    <3>1. call'[u] = c
      BY <1>1, <2>1
    <3>2. c.pc = "use" => Leads(c.key, c.class, c.slot, c.h)'
      BY FewerObjects
    <3> QED
      BY <1>2, <3>1, <3>2 DEF Ready
  <2>2. CASE u # t
    <3>1. call'[u] = call[u] /\ Ready(call[u])
      BY <1>1, <2>2 DEF HandInv
    <3>2. call[u].pc = "use" =>
             Leads(call[u].key, call[u].class, call[u].slot, call[u].h)'
      <4>1. call[u].pc = "use" => call[u].pc \in Working
        BY DEF Working
      <4> QED
        BY <3>1, <4>1, CallPlaces, FewerObjects DEF Ready
    <3> QED
      BY <1>2, <3>1, <3>2 DEF Ready
  <2> QED
    BY <2>1, <2>2
<1> QED
  BY <1>3, FewerObjects DEF HandInv

(* The ex_data stay as they are. *)
LEMMA SameEx ==
    ASSUME ObjInv, ExInv, Fewer, ex' = ex, \A k \in Keys : app'[k] = "absent" => ex[k] = Unknown
    PROVE  ExInv'
<1>1. ASSUME NEW k \in Keys, NEW c \in Class, NEW s \in Slots, ex[k][<<c, s>>] # NoHandle
      PROVE  Leads(k, c, s, ex[k][<<c, s>>])'
  BY <1>1, FewerObjects DEF ExInv
<1>2. ASSUME NEW k \in Keys, NEW c \in Class, NEW s \in Slots, ex'[k][<<c, s>>] # NoHandle
      PROVE  Leads(k, c, s, ex[k][<<c, s>>])'
  BY <1>1, <1>2
<1> QED
  BY <1>2 DEF ExInv

(* A context closes: its session goes back to the cache or ends with its objects. *)
LEMMA SessionCloses ==
    ASSUME IInv, SessInv, NEW t \in OpenCalls, NEW c, c.pc \notin Inside,
           call' = [call EXCEPT ![t] = c],
           \/ cached' = cached
           \/ cached' = [cached EXCEPT ![call[t].slot] = @ \cup {call[t].sess}]
    PROVE  SessInv'
<1> DEFINE s == call[t].slot
           h == call[t].sess
<1>1. /\ t \in Threads /\ s \in Slots /\ h \in Sessions
      /\ h \notin cached[0] \cup cached[1] /\ 0 \in Slots /\ 1 \in Slots
  BY DEF SessInv, OpenCalls, Slots
<1>2. \A u \in Threads : call'[u] = IF u = t THEN c ELSE call[u]
  BY <1>1 DEF IInv
<1>3. /\ OpenCalls' = OpenCalls \ {t}
      /\ \A u \in OpenCalls' : call'[u] = call[u] /\ call[u].sess # h
  BY <1>2 DEF OpenCalls, SessInv
<1>4. CASE cached' = [cached EXCEPT ![s] = @ \cup {h}]
  <2>1. /\ cached' \in [Slots -> SUBSET Sessions]
        /\ \A v \in Slots : cached'[v] = IF v = s THEN cached[v] \cup {h} ELSE cached[v]
    BY <1>1, <1>4 DEF SessInv
  <2>2. cached'[0] \cap cached'[1] = {} /\ cached'[0] \cup cached'[1] \subseteq cached[0] \cup cached[1] \cup {h}
    BY <1>1, <2>1 DEF SessInv, Slots
  <2> QED
    BY <1>3, <2>1, <2>2 DEF SessInv
<1>5. CASE cached' = cached
  BY <1>3, <1>5 DEF SessInv
<1> QED
  BY <1>4, <1>5

LEMMA Closes ==
    ASSUME IInv, ObjInv, SessInv, NEW t \in OpenCalls,
           CloseSession(t, TRUE) \/ CloseSession(t, FALSE), config' = config,
           NEW c, c.pc \notin Inside, call' = [call EXCEPT ![t] = c]
    PROVE  SessInv' /\ Fewer
<1>1. call[t].sess # Token
  BY KeysAssumption DEF SessInv
<1>2. CASE cached' = [cached EXCEPT ![call[t].slot] = @ \cup {call[t].sess}] /\ UNCHANGED tok
  BY <1>2, SessionCloses DEF Fewer
<1>3. CASE tok' = {o \in tok : o.owner # call[t].sess} /\ UNCHANGED cached
  <2>1. config.token => tok' = tok
    BY <1>1, <1>3 DEF ObjInv
  <2> QED
    BY <1>3, <2>1, SessionCloses DEF Fewer
<1> QED
  BY <1>2, <1>3 DEF CloseSession

(* A context opens with a session of the cache or with a new one. *)
LEMMA OpensApart ==
    ASSUME IInv, SessInv, NEW t \in Threads, call[t].pc \notin Inside, NEW S \in SUBSET Slots,
           NEW rec, {"pc", "key"} \subseteq DOMAIN rec,
           rec.pc \in Working => {"class", "h"} \subseteq DOMAIN rec, Open(t, S, rec)
    PROVE  /\ SessInv'
           /\ \E c : /\ call' = [call EXCEPT ![t] = c]
                     /\ c.pc = rec.pc /\ c.key = rec.key /\ c.slot \in S
<1>1. PICK s \in S, h \in Sessions :
        /\ IF cached[s] # {} THEN h \in cached[s] ELSE h \notin Held \cup cached[0] \cup cached[1]
        /\ cached' = [cached EXCEPT ![s] = @ \ {h}]
        /\ call' = [call EXCEPT ![t] =
                    [n \in DOMAIN rec \cup {"slot", "sess"} |->
                        IF n = "slot" THEN s ELSE IF n = "sess" THEN h ELSE rec[n]]]
  BY DEF Open
<1> DEFINE c == [n \in DOMAIN rec \cup {"slot", "sess"} |->
                    IF n = "slot" THEN s ELSE IF n = "sess" THEN h ELSE rec[n]]
<1>2. /\ Fields(c) /\ c.pc = rec.pc /\ c.key = rec.key /\ c.slot = s /\ c.sess = h
  BY DEF Fields
<1>3. call' = [call EXCEPT ![t] = c]
  BY <1>1
<1> HIDE DEF c
<1>4. /\ s \in Slots /\ 0 \in Slots /\ 1 \in Slots
      /\ \A u \in OpenCalls : call[u].sess # h
  <2>1. s \in Slots /\ 0 \in Slots /\ 1 \in Slots /\ Slots = {0, 1}
    BY DEF Slots
  <2>2. CASE h \in cached[s]
    BY <2>1, <2>2 DEF SessInv
  <2>3. CASE h \notin Held
    BY <2>1, <2>3 DEF Held
  <2> QED
    BY <1>1, <2>1, <2>2, <2>3
<1>5. \A u \in Threads : call'[u] = IF u = t THEN c ELSE call[u]
  BY <1>3 DEF IInv
<1>6. /\ OpenCalls' \subseteq OpenCalls \cup {t} /\ t \notin OpenCalls
      /\ \A u \in OpenCalls' : u # t => u \in OpenCalls /\ call'[u] = call[u]
      /\ call'[t] = c
  BY <1>5 DEF OpenCalls
<1>7. /\ cached' \in [Slots -> SUBSET Sessions]
      /\ \A v \in Slots : cached'[v] = IF v = s THEN cached[v] \ {h} ELSE cached[v]
  BY <1>1, <1>4 DEF SessInv
<1>8. h \notin cached'[0] \cup cached'[1]
  BY <1>1, <1>4, <1>7 DEF SessInv, Slots
<1>9. cached'[0] \cap cached'[1] = {} /\ cached'[0] \subseteq cached[0] /\ cached'[1] \subseteq cached[1]
  BY <1>4, <1>7 DEF SessInv
<1>10. SessInv'
  <2>1. ASSUME NEW u \in OpenCalls'
        PROVE  /\ Fields(call'[u]) /\ call'[u].slot \in Slots
               /\ call'[u].sess \in Sessions /\ call'[u].sess \notin cached'[0] \cup cached'[1]
    <3>1. CASE u = t
      BY <1>1, <1>2, <1>4, <1>6, <1>8, <3>1
    <3>2. CASE u # t
      BY <1>6, <1>9, <3>2 DEF SessInv
    <3> QED
      BY <3>1, <3>2
  <2>2. \A u, v \in OpenCalls' : call'[u].sess = call'[v].sess => u = v
    BY <1>2, <1>4, <1>6 DEF SessInv
  <2> QED
    BY <1>7, <1>9, <2>1, <2>2 DEF SessInv, Fields
<1> QED
  BY <1>2, <1>3, <1>10

(* A call goes on in its context. *)
LEMMA GoesOnInside ==
    ASSUME IInv, SessInv, NEW t \in OpenCalls, NEW c, Fields(c), c.pc \in Inside,
           c.slot = call[t].slot, c.sess = call[t].sess,
           call' = [call EXCEPT ![t] = c], cached' = cached
    PROVE  SessInv'
<1>1. t \in Threads
  BY DEF OpenCalls
<1>2. \A u \in Threads : call'[u] = IF u = t THEN c ELSE call[u]
  BY <1>1 DEF IInv
<1>3. OpenCalls' = OpenCalls
  BY <1>1, <1>2 DEF OpenCalls
<1>4. \A u \in OpenCalls : call'[u] = (IF u = t THEN c ELSE call[u]) /\ call'[u].sess = call[u].sess
                            /\ call'[u].slot = call[u].slot
  BY <1>2 DEF OpenCalls
<1>5. \A u \in OpenCalls : Fields(call'[u])
  BY <1>4 DEF SessInv
<1> QED
  BY <1>3, <1>4, <1>5 DEF SessInv, Fields

(* A call that has no context ends or starts without one. *)
LEMMA StaysOutside ==
    ASSUME IInv, SessInv, NEW t \in Threads, call[t].pc \notin Inside, NEW c, c.pc \notin Inside,
           call' = [call EXCEPT ![t] = c], cached' = cached
    PROVE  SessInv'
<1>1. \A u \in Threads : call'[u] = IF u = t THEN c ELSE call[u]
  BY DEF IInv
<1>2. OpenCalls' = OpenCalls /\ \A u \in OpenCalls : call'[u] = call[u]
  BY <1>1 DEF OpenCalls
<1> QED
  BY <1>2 DEF SessInv

-----------------------------------------------------------------------------
Rest == ObjInv /\ SessInv /\ ExInv /\ HandInv

(* A search finds the object of the key, if there is one: what else has the CKA_ID of its
   public object is an object of the key as well. *)
LEMMA FindLeads ==
    ASSUME ObjInv, NEW k \in Keys, NEW c \in Class, NEW s \in Slots, NEW o \in Find(k, c, s)
    PROVE  Leads(k, c, s, o.n) /\ o.n \in Handles
<1> DEFINE own == ObjectsOf(k, c, s)
<1>1. o \in tok
  BY KeysAssumption DEF Find, luna_find_rsa_handle, luna_find_dsa_handle, luna_find_ecdsa_handle,
                        ObjectsOf, SameId
<1>2. o.n \in Handles /\ o.key \in Keys /\ o.slot \in Slots /\ o.owner \in Sessions \cup {Token}
  BY <1>1 DEF ObjInv, Obj
<1>3. o \in own => Leads(k, c, s, o.n)
  BY DEF Leads, Numbers
<1>4. ASSUME o \in SameId(ObjectsOf(k, "pub", s)), o.class = c, KeyType[k] = "dsa" \/ config.token
      PROVE  o \in own
  <2>1. PICK p \in ObjectsOf(k, "pub", s) : CkaId(o) = CkaId(p) /\ o.slot = p.slot
    BY <1>4 DEF SameId
  <2>2. p \in tok /\ p.key = k /\ p.slot = s
    BY <2>1 DEF ObjectsOf
  <2>3. ~Shared(p)
    BY <1>4, <2>2 DEF Shared, ObjInv
  <2>4. CkaId(o) = k /\ k # "temp"
    BY <2>1, <2>2, <2>3, KeysAssumption DEF CkaId
  <2>5. o.key = k
    BY <2>4 DEF CkaId
  <2> QED
    BY <1>1, <1>4, <2>1, <2>2, <2>5 DEF ObjectsOf
<1>5. CASE KeyType[k] = "rsa"
  BY <1>2, <1>3, <1>5 DEF Find, luna_find_rsa_handle
<1>6. CASE KeyType[k] = "dsa"
  <2>1. o \in luna_find_dsa_handle(k, c, s)
    BY <1>6 DEF Find
  <2>2. CASE c = "pub"
    BY <1>2, <1>3, <2>1, <2>2 DEF luna_find_dsa_handle
  <2>3. CASE c = "priv"
    BY <1>2, <1>3, <1>4, <1>6, <2>1, <2>3 DEF luna_find_dsa_handle
  <2> QED
    BY <2>2, <2>3 DEF Class
<1>7. CASE KeyType[k] = "ec"
  <2>1. o \in luna_find_ecdsa_handle(k, c, s)
    BY <1>7 DEF Find
  <2>2. CASE own # {}
    BY <1>2, <1>3, <2>1, <2>2 DEF luna_find_ecdsa_handle
  <2>3. CASE own = {} /\ config.token
    BY <1>2, <1>3, <1>4, <2>1, <2>3 DEF luna_find_ecdsa_handle
  <2>4. CASE own = {} /\ ~config.token
    BY <1>2, <2>4 DEF Leads
  <2> QED
    BY <2>2, <2>3, <2>4
<1> QED
  BY <1>5, <1>6, <1>7, KeysAssumption

LEMMA LookupRest == ASSUME Inv, NEW t \in Threads, Lookup(t) PROVE Rest'
<1> DEFINE n == ex[call[t].key][<<call[t].class, call[t].slot>>]
           c == call[t]
           a == [c EXCEPT !.pc = "use", !.h = n]
           b == [c EXCEPT !.pc = "search"]
<1>1. /\ c.pc = "lookup" /\ UNCHANGED <<config, tok, cached, app, ex>> /\ Fewer
      /\ IF n # NoHandle THEN call' = [call EXCEPT ![t] = a] ELSE call' = [call EXCEPT ![t] = b]
  BY DEF Lookup, Uses, Goes, Fewer
<1>2. /\ t \in OpenCalls /\ c.key \in Keys /\ c.class \in Class /\ c.slot \in Slots
      /\ "lookup" \in Working
  BY <1>1, CallPlaces DEF Inv, Inside, Working
<1>3. Fields(c) /\ (n # NoHandle => Leads(c.key, c.class, c.slot, n))
  BY <1>2 DEF Inv, SessInv, ExInv
<1>4. /\ Fields(a) /\ a.pc = "use" /\ a.key = c.key /\ a.class = c.class /\ a.h = n
      /\ a.slot = c.slot /\ a.sess = c.sess
  <2> HIDE DEF c, n
  <2> QED BY <1>1, <1>2, <1>3 DEF Fields
<1>5. Fields(b) /\ b.pc = "search" /\ b.slot = c.slot /\ b.sess = c.sess
  <2> HIDE DEF c
  <2> QED BY <1>1, <1>2, <1>3 DEF Fields
<1>6. "use" \in Inside /\ "search" \in Inside
  BY DEF Inside
<1>7. ExInv'
  BY <1>1, SameEx DEF Inv, ExInv
<1>8. CASE n # NoHandle
  <2>1. call' = [call EXCEPT ![t] = a] /\ Leads(a.key, a.class, a.slot, a.h)
    BY <1>1, <1>3, <1>4, <1>8
  <2> HIDE DEF a
  <2> QED
    BY <1>1, <1>2, <1>4, <1>6, <1>7, <2>1, OneCall, GoesOnInside DEF Inv, Rest
<1>9. CASE n = NoHandle
  <2>1. call' = [call EXCEPT ![t] = b]
    BY <1>1, <1>9
  <2> HIDE DEF b
  <2> QED
    BY <1>1, <1>2, <1>5, <1>6, <1>7, <2>1, OneCall, GoesOnInside DEF Inv, Rest
<1> QED
  BY <1>8, <1>9

LEMMA SearchFindsRest == ASSUME Inv, NEW t \in Threads, SearchFinds(t) PROVE Rest'
<1> DEFINE c == call[t]
           k == c.key
<1>1. c.pc = "search" /\ UNCHANGED <<config, tok, cached, app>> /\ Fewer
  BY DEF SearchFinds, Fewer
<1>2. PICK o \in Find(k, c.class, c.slot) :
          Uses(t, o.n) /\ ex' = [ex EXCEPT ![k][<<c.class, c.slot>>] = o.n]
  BY DEF SearchFinds
<1> DEFINE a == [c EXCEPT !.pc = "use", !.h = o.n]
<1>3. /\ t \in OpenCalls /\ k \in Keys /\ c.class \in Class /\ c.slot \in Slots
      /\ "search" \in Working
  BY <1>1, CallPlaces DEF Inv, Inside, Working
<1>4. Leads(k, c.class, c.slot, o.n) /\ o.n \in Handles
  BY <1>3, FindLeads DEF Inv
<1>5. Fields(c) /\ app[k] # "absent"
  BY <1>1, <1>3 DEF Inv, SessInv, IInv, Decided
<1>6. /\ Fields(a) /\ a.pc = "use" /\ a.key = k /\ a.class = c.class /\ a.h = o.n
      /\ a.slot = c.slot /\ a.sess = c.sess
  <2> HIDE DEF c
  <2> QED BY <1>1, <1>3, <1>5 DEF Fields
<1>7. call' = [call EXCEPT ![t] = a]
  BY <1>2 DEF Uses
<1>8. ExInv'
  <2>1. /\ ex \in [Keys -> [Class \X Slots -> Handles \cup {NoHandle}]]
        /\ <<c.class, c.slot>> \in Class \X Slots
    BY <1>3 DEF Inv, ExInv
  <2> DEFINE at == <<c.class, c.slot>>
  <2>2. ex' = [ex EXCEPT ![k] = [ex[k] EXCEPT ![at] = o.n]]
    BY <1>2, <2>1
  <2>3. [ex[k] EXCEPT ![at] = o.n] \in [Class \X Slots -> Handles \cup {NoHandle}]
    BY <1>3, <1>4, <2>1
  <2>4. ex' \in [Keys -> [Class \X Slots -> Handles \cup {NoHandle}]]
    BY <2>1, <2>2, <2>3
  <2>5. \A j \in Keys, d \in Class, v \in Slots :
           ex'[j][<<d, v>>] = IF j = k /\ d = c.class /\ v = c.slot THEN o.n ELSE ex[j][<<d, v>>]
    BY <1>3, <2>1, <2>2
  <2>6. \A j \in Keys : j # k => ex'[j] = ex[j]
    BY <2>1, <2>2
  <2>7. \A j \in Keys : app'[j] = "absent" => ex'[j] = Unknown
    BY <1>1, <1>5, <2>6 DEF Inv, ExInv
  <2>8. ASSUME NEW j \in Keys, NEW d \in Class, NEW v \in Slots, NEW n, n = ex'[j][<<d, v>>], n # NoHandle
        PROVE  Leads(j, d, v, n)'
    <3>1. Leads(j, d, v, n)
      BY <1>4, <2>5, <2>8 DEF Inv, ExInv
    <3> QED
      BY <3>1, <1>1, FewerObjects DEF Inv
  <2> QED
    BY <2>4, <2>7, <2>8 DEF ExInv
<1>9. Leads(a.key, a.class, a.slot, a.h) /\ "use" \in Inside
  BY <1>4, <1>6 DEF Inside
<1> HIDE DEF a
<1> QED
  BY <1>1, <1>3, <1>6, <1>7, <1>8, <1>9, OneCall, GoesOnInside DEF Inv, Rest

(* A call that ends or goes on in software closes its context. *)
LEMMA ClosesRest ==
    ASSUME Inv, NEW t \in Threads, call[t].pc \in Inside,
           CloseSession(t, TRUE) \/ CloseSession(t, FALSE),
           NEW c, c.pc = "idle" \/ c.pc = "software", call' = [call EXCEPT ![t] = c],
           config' = config, app' = app, ex' = ex
    PROVE  Rest'
<1>1. t \in OpenCalls /\ c.pc \notin Inside /\ c.pc # "gen" /\ c.pc # "use"
  BY DEF OpenCalls, Inside
<1>2. SessInv' /\ Fewer
  BY <1>1, Closes DEF Inv
<1>3. ObjInv' /\ HandInv'
  BY <1>1, <1>2, OneCall DEF Inv
<1>4. ExInv'
  BY <1>2, SameEx DEF Inv, ExInv
<1> QED
  BY <1>2, <1>3, <1>4 DEF Rest

LEMMA WorkEndsRest ==
    ASSUME Inv, NEW t \in Threads, SearchFails(t) \/ Use(t) \/ LoadFails(t) \/ SoftwareReturns(t)
    PROVE  Rest'
<1>1. NoCall.pc = "idle"
  BY DEF NoCall
<1>2. CASE SearchFails(t)
  <2> DEFINE c == [pc |-> "software", key |-> call[t].key, class |-> call[t].class, h |-> NoHandle]
  <2>1. call[t].pc \in Inside /\ UNCHANGED <<config, app, ex>>
    BY <1>2 DEF SearchFails, Inside
  <2>2. \/ CloseSession(t, FALSE) /\ call' = [call EXCEPT ![t] = NoCall]
        \/ CloseSession(t, TRUE) /\ call' = [call EXCEPT ![t] = c]
    BY <1>2 DEF SearchFails, Ends
  <2>3. c.pc = "software"
    OBVIOUS
  <2> HIDE DEF c
  <2> QED
    BY <1>1, <2>1, <2>2, <2>3, ClosesRest
<1>3. CASE Use(t)
  <2>1. CloseSession(t, TRUE) \/ CloseSession(t, FALSE)
    <3>1. PICK ok \in BOOLEAN : CloseSession(t, ok)
      BY <1>3 DEF Use
    <3> QED
      BY <3>1 DEF CloseSession
  <2>2. /\ call[t].pc \in Inside /\ UNCHANGED <<config, app, ex>>
        /\ call' = [call EXCEPT ![t] = NoCall]
    BY <1>3 DEF Use, Ends, Inside
  <2> QED
    BY <1>1, <2>1, <2>2, ClosesRest
<1>4. CASE LoadFails(t)
  <2>1. /\ call[t].pc \in Inside /\ UNCHANGED <<config, app, ex>> /\ CloseSession(t, FALSE)
        /\ call' = [call EXCEPT ![t] = NoCall]
    BY <1>4 DEF LoadFails, Ends, Inside
  <2> QED
    BY <1>1, <2>1, ClosesRest
<1>5. CASE SoftwareReturns(t)
  <2>1. /\ call[t].pc \notin Inside /\ NoCall.pc \notin Inside
        /\ call' = [call EXCEPT ![t] = NoCall] /\ UNCHANGED <<config, tok, cached, app, ex>> /\ Fewer
    BY <1>1, <1>5 DEF SoftwareReturns, Ends, Inside, Fewer
  <2>2. ObjInv' /\ HandInv'
    BY <1>1, <2>1, OneCall DEF Inv
  <2>3. SessInv'
    BY <2>1, StaysOutside DEF Inv
  <2>4. ExInv'
    BY <2>1, SameEx DEF Inv, ExInv
  <2> QED
    BY <2>2, <2>3, <2>4 DEF Rest
<1> QED
  BY <1>2, <1>3, <1>4, <1>5

LEMMA OpensRest ==
    ASSUME Inv, NEW t \in Threads, call[t].pc = "idle", NEW S \in SUBSET Slots,
           NEW rec, {"pc", "key"} \subseteq DOMAIN rec,
           rec.pc \in Working => {"class", "h"} \subseteq DOMAIN rec, Open(t, S, rec),
           rec.pc # "use", rec.pc = "gen" => S = {0} /\ \A o \in tok : o.key # rec.key,
           config' = config, tok' = tok, app' = app, ex' = ex
    PROVE  Rest'
<1>1. call[t].pc \notin Inside
  BY DEF Inside
<1>2. SessInv'
  BY <1>1, OpensApart DEF Inv
<1>3. PICK c : /\ call' = [call EXCEPT ![t] = c]
               /\ c.pc = rec.pc /\ c.key = rec.key /\ c.slot \in S
  BY <1>1, OpensApart DEF Inv
<1>4. Fewer
  BY DEF Fewer
<1>5. ObjInv' /\ HandInv'
  BY <1>3, <1>4, OneCall DEF Inv
<1>6. ExInv'
  BY <1>4, SameEx DEF Inv, ExInv
<1> QED
  BY <1>2, <1>5, <1>6 DEF Rest

LEMMA OperateRest ==
    ASSUME Inv, NEW t \in Threads, NEW k \in Keys, NEW class \in Class, Operate(t, k, class)
    PROVE  Rest'
<1> DEFINE rec == [pc |-> "lookup", key |-> k, class |-> class, h |-> NoHandle]
           soft == [rec EXCEPT !.pc = "software"]
<1>1. call[t].pc = "idle" /\ config' = config /\ tok' = tok /\ app' = app /\ ex' = ex
  BY DEF Operate, Idle
<1>2. CASE InSoftware(k, class)
  <2>1. call' = [call EXCEPT ![t] = soft] /\ cached' = cached /\ soft.pc = "software"
    BY <1>2 DEF Operate
  <2>2. call[t].pc \notin Inside /\ soft.pc \notin Inside /\ Fewer
    BY <1>1, <2>1 DEF Inside, Fewer
  <2> HIDE DEF soft
  <2>3. ObjInv' /\ HandInv'
    BY <2>1, <2>2, OneCall DEF Inv
  <2>4. SessInv'
    BY <2>1, <2>2, StaysOutside DEF Inv
  <2>5. ExInv'
    BY <1>1, <2>2, SameEx DEF Inv, ExInv
  <2> QED
    BY <2>3, <2>4, <2>5 DEF Rest
<1>3. CASE ~InSoftware(k, class)
  <2>1. Open(t, Slots, rec)
    BY <1>3 DEF Operate
  <2>2. {"pc", "key"} \subseteq DOMAIN rec /\ {"class", "h"} \subseteq DOMAIN rec /\ rec.pc = "lookup"
    OBVIOUS
  <2> HIDE DEF rec
  <2> QED
    BY <1>1, <2>1, <2>2, OpensRest
<1> QED
  BY <1>2, <1>3

LEMMA StartRest ==
    ASSUME Inv, NEW t \in Threads, NEW k \in Keys, Generate(t, k) \/ Load(t, k)
    PROVE  Rest'
<1>1. call[t].pc = "idle" /\ config' = config /\ tok' = tok /\ ex' = ex
  BY DEF Generate, Load, Idle
<1>2. CASE Generate(t, k) /\ luna_ecdsa_keygen(t, k)
  <2>1. app' = [app EXCEPT ![k] = "real"] /\ cached' = cached /\ call' = call /\ Fewer
    BY <1>1, <1>2 DEF luna_ecdsa_keygen, Fewer
  <2>2. \A j \in Keys : app'[j] = "absent" => ex[j] = Unknown
    BY <2>1 DEF Inv, IInv, ExInv
  <2>3. ExInv'
    BY <1>1, <2>1, <2>2, SameEx DEF Inv
  <2> QED
    BY <1>1, <2>1, <2>3 DEF Inv, Rest, ObjInv, SessInv, HandInv, Ready, OpenCalls, Leads, ObjectsOf
<1>3. CASE Generate(t, k) /\ ~luna_ecdsa_keygen(t, k)
  <2> DEFINE rec == [pc |-> "gen", key |-> k]
  <2>1. Open(t, {0}, rec) /\ app' = app /\ \A o \in tok : o.key # k
    BY <1>3 DEF Generate
  <2>2. /\ {"pc", "key"} \subseteq DOMAIN rec /\ rec.pc = "gen" /\ rec.key = k
        /\ rec.pc \notin Working /\ {0} \in SUBSET Slots
    BY DEF Working, Slots
  <2> HIDE DEF rec
  <2> QED
    BY <1>1, <2>1, <2>2, OpensRest
<1>4. CASE Load(t, k)
  <2> DEFINE rec == [pc |-> "load", key |-> k]
  <2>1. Open(t, Slots, rec) /\ app' = app
    BY <1>4 DEF Load
  <2>2. /\ {"pc", "key"} \subseteq DOMAIN rec /\ rec.pc = "load"
        /\ rec.pc \notin Working /\ Slots \in SUBSET Slots
    BY DEF Working
  <2> HIDE DEF rec
  <2> QED
    BY <1>1, <2>1, <2>2, OpensRest
<1> QED
  BY <1>2, <1>3, <1>4

(* Handles that are forgotten lead nowhere else. *)
LEMMA UnknownIs == /\ Unknown \in [Class \X Slots -> Handles \cup {NoHandle}]
                   /\ \A c \in Class, s \in Slots : Unknown[<<c, s>>] = NoHandle
  BY DEF Unknown

LEMMA NewEx ==
    ASSUME ObjInv, ExInv, Fewer, NEW k \in Keys, NEW new \in [Class \X Slots -> Handles \cup {NoHandle}],
           ex' = [ex EXCEPT ![k] = new],
           \A j \in Keys : app'[j] = "absent" => IF j = k THEN new = Unknown ELSE app[j] = "absent",
           \A c \in Class, s \in Slots : new[<<c, s>>] # NoHandle => Leads(k, c, s, new[<<c, s>>])
    PROVE  ExInv'
<1>1. /\ ex' \in [Keys -> [Class \X Slots -> Handles \cup {NoHandle}]]
      /\ \A j \in Keys : ex'[j] = IF j = k THEN new ELSE ex[j]
  BY DEF ExInv
<1>2. \A j \in Keys : app'[j] = "absent" => ex'[j] = Unknown
  BY <1>1 DEF ExInv
<1>3. ASSUME NEW j \in Keys, NEW c \in Class, NEW s \in Slots, NEW n, n = ex'[j][<<c, s>>], n # NoHandle
      PROVE  Leads(j, c, s, n)'
  <2>1. Leads(j, c, s, n)
    BY <1>1, <1>3 DEF ExInv
  <2> QED
    BY <2>1, FewerObjects
<1> QED
  BY <1>1, <1>2, <1>3 DEF ExInv

LEMMA FileRest ==
    ASSUME Inv, NEW k \in Keys, ReadFile(k) \/ FreeKey(k)
    PROVE  Rest'
<1>1. UNCHANGED <<config, tok, cached, call>> /\ Fewer
  BY DEF ReadFile, FreeKey, Fewer
<1>2. app \in [Keys -> Members]
  BY DEF Inv, IInv
<1>3. ExInv'
  <2>1. CASE ReadFile(k)
    <3>1. app[k] = "absent" /\ ex' = ex /\ \A j \in Keys : app'[j] = "absent" => app[j] = "absent"
      BY <1>2, <2>1 DEF ReadFile, New
    <3> QED
      BY <1>1, <3>1, SameEx DEF Inv, ExInv
  <2>2. CASE FreeKey(k)
    <3>1. /\ ex' = [ex EXCEPT ![k] = Unknown]
          /\ \A j \in Keys : app'[j] = "absent" => j = k \/ app[j] = "absent"
      BY <1>2, <2>2 DEF FreeKey
    <3> QED
      BY <1>1, <3>1, UnknownIs, NewEx DEF Inv
  <2> QED
    BY <2>1, <2>2
<1>4. HandInv'
  BY <1>1 DEF Inv, HandInv, Ready, Leads, ObjectsOf
<1>5. ObjInv' /\ SessInv'
  BY <1>1 DEF Inv, ObjInv, SessInv, OpenCalls
<1> QED
  BY <1>3, <1>4, <1>5 DEF Rest

LEMMA ReinitializeRest == ASSUME Inv, Reinitialize PROVE Rest'
<1>1. /\ OpenCalls = {} /\ cached' = [s \in Slots |-> {}]
      /\ tok' = {o \in tok : o.owner = Token} /\ ex' = [k \in Keys |-> Unknown]
      /\ UNCHANGED <<config, app, call>>
  BY DEF Reinitialize
<1>2. Fewer
  BY <1>1 DEF Fewer, Inv, ObjInv
<1>3. ObjInv'
  BY <1>2, FewerObjects DEF Inv
<1>4. \A k \in Keys : ex'[k] = Unknown
  BY <1>1
<1>5. ExInv'
  <2>1. ex' \in [Keys -> [Class \X Slots -> Handles \cup {NoHandle}]]
    BY <1>1, UnknownIs
  <2> QED
    BY <1>4, <2>1, UnknownIs DEF ExInv
<1>6. OpenCalls' = {}
  BY <1>1 DEF OpenCalls
<1>7. SessInv'
  BY <1>1, <1>6 DEF SessInv, Slots
<1>8. \A t \in Threads : call'[t].pc # "gen" /\ call'[t].pc # "use"
  BY <1>1 DEF OpenCalls, Inside
<1>9. HandInv'
  BY <1>8 DEF HandInv, Ready
<1> QED
  BY <1>3, <1>5, <1>7, <1>9 DEF Rest

LEMMA LoadRest == ASSUME Inv, NEW t \in Threads, luna_load_anykey(t) PROVE Rest'
<1>1. /\ call[t].pc = "load" /\ CloseSession(t, TRUE) /\ config' = config
      /\ call' = [call EXCEPT ![t] = NoCall]
  BY DEF luna_load_anykey, Ends
<1>2. PICK id \in Forms, hint \in Class : \E o \in LoadFinds(t, id, hint) :
          \E new \in Loaded(o, hint) :
             /\ KnowsType(id)
             /\ app' = [app EXCEPT ![o.key] = new.priv] /\ ex' = [ex EXCEPT ![o.key] = new.ex]
  BY Zenon DEF luna_load_anykey
<1>3. PICK o \in LoadFinds(t, id, hint) : \E new \in Loaded(o, hint) :
             /\ app' = [app EXCEPT ![o.key] = new.priv] /\ ex' = [ex EXCEPT ![o.key] = new.ex]
  BY <1>2
<1>4. PICK new \in Loaded(o, hint) :
             /\ app' = [app EXCEPT ![o.key] = new.priv] /\ ex' = [ex EXCEPT ![o.key] = new.ex]
  BY <1>3
<1>5. o \in tok /\ o.key \in Keys /\ o.class \in Class /\ o.slot \in Slots /\ o.n \in Handles
  <2>1. o \in tok
    BY DEF LoadFinds, Named
  <2> QED
    BY <2>1 DEF Inv, ObjInv, Obj
<1>6. new.priv # "absent" /\ new.ex \in {Unknown, Remember(o)}
  <2>1. Marked(hint, "one") # "absent" /\ Marked(hint, "pattern") # "absent"
    BY DEF Marked
  <2>2. CASE KeyType[o.key] = "rsa"
    BY <2>1, <2>2 DEF Loaded, luna_load_rsa
  <2>3. CASE KeyType[o.key] = "dsa"
    BY <2>1, <2>3 DEF Loaded, luna_load_dsa
  <2>4. CASE KeyType[o.key] = "ec"
    BY <2>1, <2>4 DEF Loaded, luna_load_ecdsa_FAST
  <2> QED
    BY <1>5, <2>2, <2>3, <2>4, KeysAssumption
<1>7. /\ Remember(o) \in [Class \X Slots -> Handles \cup {NoHandle}]
      /\ \A c \in Class, s \in Slots :
            Remember(o)[<<c, s>>] = IF c = o.class /\ s = o.slot THEN o.n ELSE NoHandle
  BY <1>5, UnknownIs DEF Remember
<1>8. Leads(o.key, o.class, o.slot, o.n)
  BY <1>5 DEF Leads, ObjectsOf, Numbers
<1>9. /\ new.ex \in [Class \X Slots -> Handles \cup {NoHandle}]
      /\ \A c \in Class, s \in Slots :
            new.ex[<<c, s>>] # NoHandle => Leads(o.key, c, s, new.ex[<<c, s>>])
  BY <1>6, <1>7, <1>8, UnknownIs
<1>10. t \in OpenCalls /\ NoCall.pc \notin Inside /\ NoCall.pc = "idle"
  BY <1>1 DEF OpenCalls, Inside, NoCall
<1>11. SessInv' /\ Fewer
  BY <1>1, <1>10, Closes DEF Inv
<1>12. \A j \in Keys : app'[j] = "absent" => j # o.key /\ app[j] = "absent"
  BY <1>4, <1>5, <1>6 DEF Inv, IInv
<1>13. ExInv'
  <2> DEFINE k == o.key  e == new.ex
  <2>1. k \in Keys /\ ex' = [ex EXCEPT ![k] = e]
    BY <1>4, <1>5
  <2>2. /\ e \in [Class \X Slots -> Handles \cup {NoHandle}]
        /\ \A c \in Class, s \in Slots : e[<<c, s>>] # NoHandle => Leads(k, c, s, e[<<c, s>>])
    BY <1>9
  <2>3. \A j \in Keys : app'[j] = "absent" => IF j = k THEN e = Unknown ELSE app[j] = "absent"
    BY <1>12
  <2> HIDE DEF k, e
  <2> QED
    BY <1>11, <2>1, <2>2, <2>3, NewEx DEF Inv
<1>14. ObjInv' /\ HandInv'
  BY <1>1, <1>10, <1>11, OneCall DEF Inv
<1> QED
  BY <1>11, <1>13, <1>14 DEF Rest

-----------------------------------------------------------------------------
(* There are handles enough for the pair of a key that has no object. *)
LEMMA Least == ASSUME NEW S \in SUBSET Nat, S # {} PROVE \E n \in S : \A m \in S : n <= m
<1> DEFINE R == {p \in Nat \X Nat : p[1] < p[2]}
<1>1. IsWellFoundedOn(R, Nat)
  BY NatLessThanWellFounded DEF OpToRel
<1> HIDE DEF R
<1>2. PICK x \in S : \A y \in S : ~ (<<y, x>> \in R)
  BY <1>1, WFMin
<1>3. \A y \in S : ~(y < x)
  BY <1>2 DEF R
<1> QED
  BY <1>3

LEMMA Finite ==
    /\ IsFiniteSet(Keys) /\ Cardinality(Keys) \in Nat
    /\ IsFiniteSet(Class) /\ Cardinality(Class) = 2
    /\ IsFiniteSet(Stored) /\ Cardinality(Stored) \in Nat
    /\ IsFiniteSet(Handles) /\ Cardinality(Handles) = 2 * Cardinality(Keys) + Cardinality(Stored)
    /\ Handles \subseteq Nat \ {0}
<1>1. IsFiniteSet(Keys) /\ Cardinality(Keys) \in Nat
  BY KeysAssumption, FS_CardinalityType
<1>2. IsFiniteSet(Class) /\ Cardinality(Class) = 2
  <2> DEFINE S == {"pub"}
  <2>1. Class = S \cup {"priv"} /\ "priv" \notin S
    BY DEF Class
  <2>2. IsFiniteSet(S) /\ Cardinality(S) = 1
    BY FS_Singleton
  <2> HIDE DEF S
  <2> QED
    BY <2>1, <2>2, FS_AddElement
<1>3. IsFiniteSet(Slots)
  <2> DEFINE S == {0}
  <2>1. Slots = S \cup {1}
    BY DEF Slots
  <2>2. IsFiniteSet(S)
    BY FS_Singleton
  <2> HIDE DEF S
  <2> QED
    BY <2>1, <2>2, FS_AddElement
<1>4. IsFiniteSet(Stored) /\ Cardinality(Stored) \in Nat
  <2> DEFINE P == (Keys \X Class) \X Slots
             f == [p \in Stored |-> <<<<p[1], p[2]>>, p[3]>>]
  <2>1. IsFiniteSet(P)
    BY <1>1, <1>2, <1>3, FS_Product
  <2>2. Stored \subseteq Keys \X Class \X Slots
    BY KeysAssumption
  <2>3. f \in Injection(Stored, P)
    <3>1. f \in [Stored -> P]
      BY <2>2
    <3>2. \A p, q \in Stored : f[p] = f[q] => p = q
      BY <2>2
    <3> HIDE DEF f
    <3> QED
      BY <3>1, <3>2 DEF Injection, IsInjective
  <2> HIDE DEF f, P
  <2> QED
    BY <2>1, <2>3, FS_Injection, FS_CardinalityType
<1>5. IsFiniteSet(Handles) /\ Cardinality(Handles) = 2 * Cardinality(Keys) + Cardinality(Stored)
  <2> DEFINE n == 2 * Cardinality(Keys) + Cardinality(Stored)
  <2>1. n \in Nat /\ Handles = 1 .. n
    BY <1>1, <1>4 DEF Handles
  <2> HIDE DEF n
  <2>2. IsFiniteSet(1 .. n) /\ Cardinality(1 .. n) = n
    BY <2>1, FS_Interval
  <2> QED
    BY <2>1, <2>2 DEF n
<1>6. Handles \subseteq Nat \ {0}
  BY <1>1, <1>4 DEF Handles
<1> QED
  BY <1>1, <1>2, <1>4, <1>5, <1>6

LEMMA TokenFinite ==
    ASSUME ObjInv
    PROVE  /\ IsFiniteSet(tok) /\ IsFiniteSet(Numbers(tok))
           /\ Numbers(tok) \subseteq Handles
           /\ Cardinality(tok) \in Nat /\ Cardinality(Numbers(tok)) = Cardinality(tok)
<1> DEFINE f == [o \in tok |-> o.n]
<1>1. Numbers(tok) \subseteq Handles
  BY DEF ObjInv, Obj, Numbers
<1>2. IsFiniteSet(Numbers(tok))
  BY <1>1, Finite, FS_Subset
<1>3. f \in Injection(tok, Numbers(tok)) /\ f \in Surjection(tok, Numbers(tok))
  <2>1. f \in [tok -> Numbers(tok)]
    BY DEF Numbers
  <2>2. \A o, p \in tok : f[o] = f[p] => o = p
    BY DEF ObjInv
  <2>3. \A n \in Numbers(tok) : \E o \in tok : f[o] = n
    BY DEF Numbers
  <2> HIDE DEF f
  <2> QED
    BY <2>1, <2>2, <2>3 DEF Injection, IsInjective, Surjection
<1> HIDE DEF f
<1>4. IsFiniteSet(tok) /\ Cardinality(tok) = Cardinality(Numbers(tok))
  BY <1>2, <1>3, FS_Injection
<1> QED
  BY <1>1, <1>2, <1>4, FS_CardinalityType

LEMMA Room ==
    ASSUME ObjInv, NEW k \in Keys, \A o \in tok : o.key # k
    PROVE  Cardinality(tok) <= Cardinality(Handles) - 2
<1> DEFINE T1 == {o \in tok : <<o.key, o.class, o.slot>> \in Stored}
           T2 == {o \in tok : <<o.key, o.class, o.slot>> \notin Stored}
           P == (Keys \ {k}) \X Class
           f == [o \in T1 |-> <<o.key, o.class, o.slot>>]
           g == [o \in T2 |-> <<o.key, o.class>>]
<1>1. \A o \in tok : o.key \in Keys \ {k} /\ o.class \in Class /\ o.slot \in Slots
  BY DEF ObjInv, Obj
<1>2. \A o \in T2 : o.slot = 0
  BY DEF ObjInv
<1>3. \A o, p \in tok : o.key = p.key /\ o.class = p.class /\ o.slot = p.slot => o = p
  BY DEF ObjInv
<1>4. f \in Injection(T1, Stored)
  <2>1. f \in [T1 -> Stored]
    OBVIOUS
  <2>2. \A o, p \in T1 : f[o] = f[p] => o = p
    BY <1>3
  <2> HIDE DEF f
  <2> QED
    BY <2>1, <2>2 DEF Injection, IsInjective
<1>5. g \in Injection(T2, P)
  <2>1. g \in [T2 -> P]
    BY <1>1
  <2>2. \A o, p \in T2 : g[o] = g[p] => o = p
    BY <1>2, <1>3
  <2> HIDE DEF g
  <2> QED
    BY <2>1, <2>2 DEF Injection, IsInjective
<1>6. tok = T1 \cup T2
  OBVIOUS
<1> HIDE DEF f, g, T1, T2
<1>7. IsFiniteSet(P) /\ Cardinality(P) = (Cardinality(Keys) - 1) * 2
  <2>1. IsFiniteSet(Keys \ {k}) /\ Cardinality(Keys \ {k}) = Cardinality(Keys) - 1
    BY Finite, FS_RemoveElement
  <2>2. IsFiniteSet(P) /\ Cardinality(P) = Cardinality(Keys \ {k}) * Cardinality(Class)
    BY <2>1, Finite, FS_Product
  <2> HIDE DEF P
  <2> QED
    BY <2>1, <2>2, Finite
<1> HIDE DEF P
<1>8. /\ IsFiniteSet(T1) /\ Cardinality(T1) <= Cardinality(Stored)
      /\ IsFiniteSet(T2) /\ Cardinality(T2) <= Cardinality(P)
  BY <1>4, <1>5, <1>7, Finite, FS_Injection
<1>9. /\ Cardinality(tok) = Cardinality(T1) + Cardinality(T2) - Cardinality(T1 \cap T2)
      /\ Cardinality(T1) \in Nat /\ Cardinality(T2) \in Nat /\ Cardinality(T1 \cap T2) \in Nat
  BY <1>6, <1>8, FS_Union, FS_Intersection, FS_CardinalityType
<1> QED
  BY <1>7, <1>8, <1>9, Finite

(* The pair that is made is new. *)
LEMMA PairIsNew ==
    ASSUME Inv, NEW t \in Threads, call[t].pc = "gen"
    PROVE  LET p == Pair(t)  k == call[t].key IN
           /\ k \in Keys /\ \A o \in tok : o.key # k
           /\ DOMAIN p = Class
           /\ p.pub \in Obj /\ p.priv \in Obj /\ p.pub.n # p.priv.n
           /\ \A c \in Class : /\ p[c].key = k /\ p[c].class = c /\ p[c].slot = 0
                               /\ p[c].n \notin Numbers(tok) /\ p[c] \notin tok
                               /\ p[c].owner = IF config.token THEN Token ELSE call[t].sess
<1> DEFINE k == call[t].key
           free == Handles \ Numbers(tok)
           n1 == CHOOSE n \in free : \A m \in free : n <= m
           n2 == CHOOSE n \in free \ {n1} : \A m \in free \ {n1} : n <= m
           owner == IF config.token THEN Token ELSE call[t].sess
           Made(c, n) == [key |-> k, class |-> c, slot |-> 0, n |-> n, owner |-> owner]
<1>1. /\ k \in Keys /\ \A o \in tok : o.key # k
      /\ owner \in Sessions \cup {Token}
  BY CallPlaces DEF Inv, HandInv, Ready, SessInv, Inside
<1>2. /\ IsFiniteSet(free) /\ Cardinality(free) >= 2 /\ Cardinality(free) \in Nat
      /\ free \subseteq Nat /\ free \subseteq Handles
  <2>1. Cardinality(tok) <= Cardinality(Handles) - 2
    BY <1>1, Room DEF Inv
  <2>2. /\ Numbers(tok) \subseteq Handles /\ Cardinality(Numbers(tok)) = Cardinality(tok)
        /\ Cardinality(tok) \in Nat
    BY TokenFinite DEF Inv
  <2>3. Handles \cap Numbers(tok) = Numbers(tok)
    BY <2>2
  <2>4. /\ IsFiniteSet(free)
        /\ Cardinality(free) = Cardinality(Handles) - Cardinality(Numbers(tok))
    <3> DEFINE N == Numbers(tok)
    <3>1. IsFiniteSet(Handles)
      BY Finite
    <3> HIDE DEF N
    <3>2. /\ IsFiniteSet(Handles \ N)
          /\ Cardinality(Handles \ N) = Cardinality(Handles) - Cardinality(Handles \cap N)
      BY <3>1, FS_Difference
    <3> QED
      BY <2>3, <3>2 DEF N
  <2>5. free \subseteq Nat /\ free \subseteq Handles
    BY Finite
  <2> HIDE DEF free
  <2>6. Cardinality(Handles) \in Int
    BY Finite
  <2> QED
    BY <2>1, <2>2, <2>4, <2>5, <2>6
<1>3. \A n \in free : n \notin Numbers(tok)
  OBVIOUS
<1> HIDE DEF free
<1>4. n1 \in free
  <2>1. free # {}
    BY <1>2, FS_EmptySet
  <2>2. \E n \in free : \A m \in free : n <= m
    BY <1>2, <2>1, Least
  <2> QED
    BY <2>2
<1> HIDE DEF n1
<1>5. n2 \in free \ {n1}
  <2>1. free \ {n1} # {}
    <3>1. Cardinality(free \ {n1}) = Cardinality(free) - 1
      BY <1>2, <1>4, FS_RemoveElement
    <3> QED
      BY <1>2, <3>1, FS_EmptySet
  <2>2. \E n \in free \ {n1} : \A m \in free \ {n1} : n <= m
    BY <1>2, <2>1, Least
  <2> QED
    BY <2>2
<1> HIDE DEF n2
<1>6. Pair(t) = [pub |-> Made("pub", n1), priv |-> Made("priv", n2)]
  BY DEF Pair, free, n1, n2
<1>7. \A c \in Class, n \in free :
         /\ Made(c, n) \in Obj /\ Made(c, n).key = k /\ Made(c, n).class = c /\ Made(c, n).slot = 0
         /\ Made(c, n).n = n /\ Made(c, n).owner = owner /\ Made(c, n) \notin tok
  <2> HIDE DEF owner, k
  <2> QED
    BY <1>1, <1>2, <1>3 DEF Obj, Slots, Numbers
<1> HIDE DEF Made, owner, k
<1>8. Class = {"pub", "priv"}
  BY DEF Class
<1> QED
  BY <1>1, <1>3, <1>4, <1>5, <1>6, <1>7, <1>8 DEF owner, k

(* A generation ends, and may leave its pair in the token. *)
Made(t) == /\ tok' \subseteq tok \cup {Pair(t).pub, Pair(t).priv} /\ config' = config
           /\ config.token => tok \subseteq tok'
           /\ call' = [call EXCEPT ![t] = NoCall]

LEMMA MadeObjects ==
    ASSUME Inv, NEW t \in Threads, call[t].pc = "gen", Made(t)
    PROVE  /\ ObjInv' /\ HandInv'
           /\ \A n : \A k \in Keys \ {call[t].key}, c \in Class, s \in Slots :
                 Leads(k, c, s, n) => Leads(k, c, s, n)'
<1> DEFINE p == Pair(t)
           key == call[t].key
<1>1. /\ key \in Keys /\ \A o \in tok : o.key # key
      /\ p.pub \in Obj /\ p.priv \in Obj /\ p.pub.n # p.priv.n
      /\ \A c \in Class : /\ p[c].key = key /\ p[c].class = c /\ p[c].slot = 0
                          /\ p[c].n \notin Numbers(tok) /\ p[c] \notin tok
                          /\ p[c].owner = IF config.token THEN Token ELSE call[t].sess
  BY PairIsNew
<1>2. Class = {"pub", "priv"} /\ tok' \subseteq tok \cup {p.pub, p.priv} /\ config' = config
      /\ \A c \in Class : p[c] \in {p.pub, p.priv}
  BY DEF Class, Made
<1> HIDE DEF p, key
<1>3. ObjInv'
  <2>1. tok' \subseteq Obj
    BY <1>1, <1>2 DEF Inv, ObjInv
  <2>2. \A o, q \in tok' : o.n = q.n => o = q
    BY <1>1, <1>2 DEF Inv, ObjInv, Numbers
  <2>3. \A o, q \in tok' : o.key = q.key /\ o.class = q.class /\ o.slot = q.slot => o = q
    BY <1>1, <1>2 DEF Inv, ObjInv
  <2>4. ASSUME NEW o \in tok'
        PROVE  <<o.key, o.class, o.slot>> \in Stored \cup (Keys \X Class \X {0})
    <3>1. CASE o \in tok
      BY <3>1 DEF Inv, ObjInv
    <3>2. CASE o \notin tok
      <4>1. PICK c \in Class : o = p[c]
        BY <1>2, <3>2
      <4>2. o.key \in Keys /\ o.class \in Class /\ o.slot = 0
        BY <1>1, <4>1
      <4> QED
        BY <4>2
    <3> QED
      BY <3>1, <3>2
  <2>5. config.token => \A o \in tok' : o.owner = Token
    BY <1>1, <1>2 DEF Inv, ObjInv
  <2> QED
    BY <1>2, <2>1, <2>2, <2>3, <2>4, <2>5 DEF ObjInv, Inv
<1>4. ASSUME NEW n, NEW k \in Keys \ {key}, NEW c \in Class, NEW s \in Slots, Leads(k, c, s, n)
      PROVE  Leads(k, c, s, n)'
  <2>1. ObjectsOf(k, c, s)' \subseteq ObjectsOf(k, c, s)
    BY <1>1, <1>2 DEF ObjectsOf
  <2>2. config.token => ObjectsOf(k, c, s)' = ObjectsOf(k, c, s)
    BY <2>1 DEF ObjectsOf, Made
  <2>3. \A o, q \in ObjectsOf(k, c, s) : o = q
    BY DEF Inv, ObjInv, ObjectsOf
  <2>4. CASE config.token
    BY <1>2, <1>4, <2>2, <2>4 DEF Leads, Numbers
  <2>5. CASE ~config.token
    BY <1>2, <1>4, <2>1, <2>3, <2>5 DEF Leads, Numbers
  <2> QED
    BY <2>4, <2>5
<1>5. \A u \in Threads : call'[u] = IF u = t THEN NoCall ELSE call[u]
  BY DEF Made, Inv, IInv
<1>6. ASSUME NEW u \in Threads
      PROVE  Ready(call[u])'
  <2>1. CASE u = t
    BY <1>5, <2>1 DEF Ready, NoCall
  <2>2. CASE u # t
    <3>1. call'[u] = call[u] /\ Ready(call[u])
      BY <1>5, <2>2 DEF Inv, HandInv
    <3>2. call[u].pc \in {"gen", "use"} => call[u].key # key
      BY <2>2 DEF Inv, IInv, Alone, Making, key
    <3>3. call[u].pc = "gen" => \A o \in tok' : o.key # call[u].key
      BY <1>1, <1>2, <3>1, <3>2 DEF Ready
    <3>4. call[u].pc = "use" => Leads(call[u].key, call[u].class, call[u].slot, call[u].h)'
      <4>1. call[u].pc = "use" => /\ call[u].key \in Keys /\ call[u].class \in Class
                                 /\ call[u].slot \in Slots
        BY CallPlaces DEF Inv, Working
      <4> QED
        BY <1>4, <3>1, <3>2, <4>1 DEF Ready
    <3> QED
      BY <3>1, <3>3, <3>4 DEF Ready
  <2> QED
    BY <2>1, <2>2
<1> QED
  BY <1>3, <1>4, <1>6 DEF HandInv, key

LEMMA KeygenOkRest == ASSUME Inv, NEW t \in Threads, KeygenOk(t) PROVE Rest'
<1> DEFINE gone == {o \in tok : ~config.cache /\ o.owner = call[t].sess}
<1>0. PICK p, k, e : p = Pair(t) /\ k = call[t].key /\ e = Generated(k, p).ex
  OBVIOUS
<1>1. /\ call[t].pc = "gen" /\ config' = config /\ call' = [call EXCEPT ![t] = NoCall]
      /\ tok' = (IF config.token \/ config.cache THEN tok \cup {p.pub, p.priv} ELSE tok) \ gone
      /\ cached' = IF config.cache THEN [cached EXCEPT ![0] = @ \cup {call[t].sess}] ELSE cached
      /\ app' = [app EXCEPT ![k] = Generated(k, p).priv] /\ ex' = [ex EXCEPT ![k] = e]
  BY <1>0 DEF KeygenOk, Ends
<1>2. /\ t \in OpenCalls /\ call[t].slot = 0 /\ call[t].sess # Token
      /\ NoCall.pc \notin Inside
  <2>1. t \in OpenCalls /\ NoCall.pc \notin Inside
    BY <1>1 DEF OpenCalls, Inside, NoCall
  <2> QED
    BY <1>1, <2>1, KeysAssumption DEF Inv, HandInv, Ready, SessInv
<1>3. SessInv'
  BY <1>1, <1>2, SessionCloses DEF Inv
<1>4. config.token => gone = {}
  BY <1>2 DEF Inv, ObjInv
<1>5. Made(t)
  BY <1>0, <1>1, <1>4 DEF Made
<1>6. /\ k \in Keys /\ \A o \in tok : o.key # k
      /\ p.pub \in Obj /\ p.priv \in Obj
      /\ \A c \in Class : p[c].key = k /\ p[c].class = c /\ p[c].slot = 0 /\ p[c] \notin tok
  BY <1>0, <1>1, PairIsNew
<1>7. /\ Generated(k, p).priv # "absent"
      /\ e \in {Unknown, [q \in DOMAIN Unknown |-> IF q[2] = 0 THEN p[q[1]].n ELSE NoHandle]}
  <2>1. KeyType[k] \in {"rsa", "dsa", "ec"}
    BY <1>6, KeysAssumption
  <2> QED
    BY <1>0, <2>1 DEF Generated, luna_rsa_keygen_ex, luna_dsa_keygen_ex, luna_ec_keygen_hw_ex
<1>8. Class = {"pub", "priv"} /\ \A c \in Class : p[c] \in {p.pub, p.priv} /\ p[c].n \in Handles
  BY <1>6 DEF Class, Obj
<1>9. /\ e \in [Class \X Slots -> Handles \cup {NoHandle}]
      /\ \A c \in Class, s \in Slots :
            e[<<c, s>>] # NoHandle => s = 0 /\ e[<<c, s>>] = p[c].n
  BY <1>7, <1>8, UnknownIs DEF Unknown
<1>10. ASSUME NEW c \in Class
       PROVE  Leads(k, c, 0, p[c].n)'
  <2>1. CASE config.token \/ config.cache
    <3>1. p[c] \in tok'
      BY <1>1, <1>6, <1>8, <2>1
    <3>2. p[c] \in ObjectsOf(k, c, 0)'
      BY <1>6, <3>1 DEF ObjectsOf
    <3> QED
      BY <3>2 DEF Leads, Numbers
  <2>2. CASE ~(config.token \/ config.cache)
    <3>1. tok' \subseteq tok
      BY <1>1, <2>2
    <3>2. ObjectsOf(k, c, 0)' = {}
      BY <1>6, <3>1 DEF ObjectsOf
    <3> QED
      BY <1>1, <2>2, <3>2 DEF Leads
  <2> QED
    BY <2>1, <2>2
<1>11. ObjInv' /\ HandInv'
  BY <1>1, <1>5, MadeObjects
<1>12. ExInv'
  <2>1. /\ ex' \in [Keys -> [Class \X Slots -> Handles \cup {NoHandle}]]
        /\ \A j \in Keys : ex'[j] = IF j = k THEN e ELSE ex[j]
    BY <1>1, <1>9 DEF Inv, ExInv
  <2>2. \A j \in Keys : app'[j] = "absent" => ex'[j] = Unknown
    BY <1>1, <1>6, <1>7, <2>1 DEF Inv, IInv, ExInv
  <2>3. ASSUME NEW j \in Keys, NEW c \in Class, NEW s \in Slots, NEW n, n = ex'[j][<<c, s>>], n # NoHandle
        PROVE  Leads(j, c, s, n)'
    <3>1. CASE j = k
      BY <1>9, <1>10, <2>1, <2>3, <3>1
    <3>2. CASE j # k
      <4>1. Leads(j, c, s, n)
        BY <2>1, <2>3, <3>2 DEF Inv, ExInv
      <4> QED
        BY <1>0, <1>1, <1>5, <3>2, <4>1, MadeObjects
    <3> QED
      BY <3>1, <3>2
  <2> QED
    BY <2>1, <2>2, <2>3 DEF ExInv
<1> QED
  BY <1>3, <1>11, <1>12 DEF Rest

LEMMA KeygenFailsRest == ASSUME Inv, NEW t \in Threads, KeygenFails(t) PROVE Rest'
<1>1. /\ call[t].pc = "gen" /\ UNCHANGED <<config, cached, app, ex>>
      /\ call' = [call EXCEPT ![t] = NoCall]
  BY DEF KeygenFails, Ends
<1>2. t \in OpenCalls /\ NoCall.pc \notin Inside
  BY <1>1 DEF OpenCalls, Inside, NoCall
<1>3. SessInv'
  BY <1>1, <1>2, SessionCloses DEF Inv
<1>4. Made(t)
  <2>1. call[t].sess # Token
    BY <1>2, KeysAssumption DEF Inv, SessInv
  <2>2. PICK made \in BOOLEAN :
          tok' = {o \in tok \cup (IF made THEN {Pair(t).pub, Pair(t).priv} ELSE {}) : o.owner # call[t].sess}
    BY DEF KeygenFails
  <2> QED
    BY <1>1, <2>1, <2>2 DEF Made, Inv, ObjInv
<1>5. call[t].key \in Keys /\ app[call[t].key] = "absent"
  BY <1>1, PairIsNew DEF Inv, IInv, Alone, Making
<1>6. ExInv'
  <2>1. ASSUME NEW j \in Keys, NEW c \in Class, NEW s \in Slots, NEW n, n = ex[j][<<c, s>>], n # NoHandle
        PROVE  Leads(j, c, s, n)'
    <3>1. j # call[t].key
      BY <1>5, <2>1, UnknownIs DEF Inv, ExInv
    <3>2. Leads(j, c, s, n)
      BY <2>1 DEF Inv, ExInv
    <3> QED
      BY <1>1, <1>4, <3>1, <3>2, MadeObjects
  <2> QED
    BY <1>1, <2>1 DEF Inv, ExInv
<1> QED
  BY <1>1, <1>3, <1>4, <1>6, MadeObjects DEF Rest

-----------------------------------------------------------------------------
(* At the start: the token has what is stored there, each object with a handle of its own. *)
LEMMA InitNumbers ==
    /\ \A o \in InitialObjects : /\ o \in Obj /\ o.owner = Token
                                 /\ <<o.key, o.class, o.slot>> \in Stored
    /\ \A o, p \in InitialObjects :
          \/ o.n = p.n
          \/ o.key = p.key /\ o.class = p.class /\ o.slot = p.slot
          => o = p
<1> DEFINE I == {f \in [Stored -> 1..Cardinality(Stored)] : \A p, q \in Stored : f[p] = f[q] => p = q}
           num == CHOOSE f \in [Stored -> 1..Cardinality(Stored)] :
                     \A p, q \in Stored : f[p] = f[q] => p = q
           object(p) == [key |-> p[1], class |-> p[2], slot |-> p[3], n |-> num[p], owner |-> Token]
<1>1. num \in I
  <2>1. ExistsBijection(Stored, 1..Cardinality(Stored))
    BY Finite, FS_CardinalityType, Fun_ExistsBijSymmetric
  <2>2. PICK f : f \in Injection(Stored, 1..Cardinality(Stored))
    BY <2>1 DEF ExistsBijection, Bijection
  <2>3. f \in I
    BY <2>2 DEF Injection, IsInjective
  <2> QED
    BY <2>3
<1>2. \A p \in Stored : num[p] \in Handles
  BY <1>1, Finite DEF Handles
<1>3. \A p \in Stored : p \in Keys \X Class \X Slots
  BY KeysAssumption
<1>4. \A p \in Stored : p = <<p[1], p[2], p[3]>> /\ p[1] \in Keys /\ p[2] \in Class /\ p[3] \in Slots
  BY <1>3
<1>5. \A p, q \in Stored : num[p] = num[q] => p = q
  BY <1>1
<1>6. InitialObjects = {object(p) : p \in Stored}
  BY DEF InitialObjects
<1> HIDE DEF num
<1>7. \A p \in Stored : /\ object(p).key = p[1] /\ object(p).class = p[2] /\ object(p).slot = p[3]
                        /\ object(p).n = num[p] /\ object(p).owner = Token /\ object(p) \in Obj
  BY <1>2, <1>4 DEF Obj
<1> HIDE DEF object
<1>8. ASSUME NEW o \in InitialObjects, NEW p \in InitialObjects,
             \/ o.n = p.n
             \/ o.key = p.key /\ o.class = p.class /\ o.slot = p.slot
      PROVE  o = p
  <2>1. PICK a \in Stored, b \in Stored : o = object(a) /\ p = object(b)
    BY <1>6
  <2>2. num[a] = num[b] \/ <<a[1], a[2], a[3]>> = <<b[1], b[2], b[3]>>
    BY <1>7, <1>8, <2>1
  <2> QED
    BY <1>4, <1>5, <2>1, <2>2
<1>9. ASSUME NEW o \in InitialObjects
      PROVE  o \in Obj /\ o.owner = Token /\ <<o.key, o.class, o.slot>> \in Stored
  BY <1>4, <1>6, <1>7
<1> QED
  BY <1>8, <1>9

LEMMA InvInit == Init => Inv
<1> SUFFICES ASSUME Init PROVE Inv
  OBVIOUS
<1>1. /\ config \in Config /\ tok = InitialObjects /\ cached = [s \in Slots |-> {}]
      /\ ex = [k \in Keys |-> Unknown] /\ call = [t \in Threads |-> NoCall]
  BY KeysAssumption DEF Init
<1>2. ObjInv
  <2>1. tok \subseteq Obj
    BY <1>1, InitNumbers
  <2>2. \A o, p \in tok : o.n = p.n => o = p
    BY <1>1, InitNumbers
  <2>3. \A o, p \in tok : o.key = p.key /\ o.class = p.class /\ o.slot = p.slot => o = p
    BY <1>1, InitNumbers
  <2>4. \A o \in tok : o.owner = Token /\ <<o.key, o.class, o.slot>> \in Stored
    BY <1>1, InitNumbers
  <2> QED
    BY <1>1, <2>1, <2>2, <2>3, <2>4 DEF ObjInv
<1>3. \A t \in Threads : call[t] = NoCall /\ call[t].pc = "idle"
  BY <1>1 DEF NoCall
<1>4. SessInv
  BY <1>1, <1>3 DEF SessInv, OpenCalls, Inside, Slots
<1>5. ExInv
  BY <1>1, UnknownIs DEF ExInv
<1>6. HandInv
  BY <1>3 DEF HandInv, Ready
<1> QED
  BY <1>2, <1>4, <1>5, <1>6, InitIInv DEF Inv

LEMMA InvStep == ASSUME Inv, [Next]_vars PROVE Inv'
<1>1. IInv'
  BY NextIInv DEF Inv
<1>2. CASE UNCHANGED vars
  <2>1. UNCHANGED <<config, tok, cached, app, ex, call>>
    BY <1>2 DEF vars
  <2>2. ObjInv' /\ SessInv'
    BY <2>1 DEF Inv, ObjInv, SessInv, OpenCalls
  <2>3. ExInv'
    BY <2>1 DEF Inv, ExInv, Leads, ObjectsOf
  <2>4. HandInv'
    BY <2>1 DEF Inv, HandInv, Ready, Leads, ObjectsOf
  <2> QED
    BY <1>1, <2>2, <2>3, <2>4 DEF Inv
<1>3. CASE Next
  <2>1. Rest'
    BY <1>3, LookupRest, SearchFindsRest, WorkEndsRest, OperateRest, StartRest, FileRest,
       ReinitializeRest, LoadRest, KeygenOkRest, KeygenFailsRest DEF Next
  <2> QED
    BY <1>1, <2>1 DEF Inv, Rest
<1> QED
  BY <1>2, <1>3

LEMMA AlwaysInv == Spec => []Inv
  BY InvInit, InvStep, PTL DEF Spec

-----------------------------------------------------------------------------
(* The engine's bookkeeping of token objects and sessions keeps its shape: every object of
   the token has a handle of its own, a session that a context holds is in no cache of
   luna_open_context, and ex_data hold handles the token has given out. *)
THEOREM TypesAreKept == Spec => []TypeOK
<1>1. ASSUME Inv PROVE TypeOK
  <2>1. config \in Config /\ tok \subseteq Obj /\ Cardinality(Numbers(tok)) = Cardinality(tok)
    BY <1>1, TokenFinite DEF Inv, ObjInv
  <2>2. cached \in [Slots -> SUBSET Sessions] /\ Held \cap (cached[0] \cup cached[1]) = {}
    BY <1>1 DEF Inv, SessInv, Held
  <2>3. app \in [Keys -> {"absent", "null", "one", "pattern", "real"}]
    BY <1>1 DEF Inv, IInv, Members
  <2>4. ex \in [Keys -> [Class \X Slots -> Handles \cup {NoHandle}]]
    BY <1>1 DEF Inv, ExInv
  <2>5. \A t \in Threads : call[t].pc \in Inside \cup {"idle", "software"}
    BY <1>1 DEF Inv, IInv, IsCall, IsMaking, IsWork, NoCall, Making, Working, Inside
  <2> QED
    BY <2>1, <2>2, <2>3, <2>4, <2>5 DEF TypeOK
<1> QED
  BY <1>1, AlwaysInv, PTL

(* The token is given a handle of the key itself, wherever the handle comes from: the
   ex_data that luna_find_rsa_handle_FAST and its like trust without a search, the first
   match of luna_find_dsa_handle or luna_find_ecdsa_handle by an id that objects share, a
   key that was generated or one that was loaded. Keys that live in the token have their
   object always; a session key whose session has ended may be left with an old handle. *)
THEOREM TokenGetsOwnObject == Spec => []OwnObject
<1>1. ASSUME Inv PROVE OwnObject
  BY <1>1 DEF Inv, HandInv, Ready, Leads, OwnObject
<1> QED
  BY <1>1, AlwaysInv, PTL

(* A private operation is done in software if and only if the key object has its real
   private members, whatever other threads load, generate, free and search meanwhile: the
   guess of luna_rsa_check_private and its like holds to the end of the operation. *)
THEOREM PrivateOperationsInPlace == Spec => []PrivateInItsPlace
<1>1. IInv => PrivateInItsPlace
  BY DEF IInv, Decided, PrivateInItsPlace, Working
<1> QED
  BY <1>1, InitIInv, NextIInv, PTL DEF Spec

(* Engine and token together apply the padding the caller asked for exactly once: true of
   every plan, so in every state. *)
THEOREM PaddingIsStandard == Spec => []StandardPadding
<1>1. ASSUME NEW op \in {"priv_enc", "pub_enc", "priv_dec", "pub_dec"}, NEW pad \in Paddings,
             Plan(op, pad)[1] # "error"
      PROVE  TokenPads(Plan(op, pad)[1]) \cup ({Plan(op, pad)[2]} \ {"raw"}) = Standard(op, pad)
  <2>1. CASE op = "priv_enc"
    BY <1>1, <2>1 DEF Paddings, Plan, luna_rsa_priv_enc_pkcs, TokenPads, Standard
  <2>2. CASE op = "pub_enc"
    BY <1>1, <2>2 DEF Paddings, Plan, luna_rsa_pub_enc_x509, TokenPads, Standard
  <2>3. CASE op = "priv_dec"
    BY <1>1, <2>3 DEF Paddings, Plan, luna_rsa_priv_dec_x509, TokenPads, Standard
  <2>4. CASE op = "pub_dec"
    BY <1>1, <2>4 DEF Paddings, Plan, luna_rsa_pub_dec_x509, TokenPads, Standard
  <2> QED
    BY <2>1, <2>2, <2>3, <2>4
<1>2. {o \in Ops : OpType(o) = "rsa"} \subseteq {"priv_enc", "pub_enc", "priv_dec", "pub_dec"}
  BY DEF Ops, OpType
<1>3. StandardPadding
  BY <1>1, <1>2 DEF StandardPadding
<1> QED
  BY <1>3, PTL
=============================================================================
