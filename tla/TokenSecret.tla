------------------------------ MODULE TokenSecret ------------------------------
(* How a secret computed in the token reaches the caller (lunaPqcKem.c, lunaCommon.c):
   an encapsulation or decapsulation leaves it in a temporary object, the object is
   wrapped under an RSA key pair of this process and unwrapped in software; an ECDH
   exchange derives and wraps in one call.

   The key pair is generated, and its public half imported into the token, by the first
   calls that need it, under no lock: the steps below are the loads and stores of the
   source. A session object goes with the session that made it; calls that fail close
   their session (Session). An RSA key is a number, 0 is no key; OAEP detects unwrapping
   with another key. *)
EXTENDS Integers

CONSTANTS
    Threads,
    Sessions,
    Ops,          \* "encap", "decap", "ecdh"
    MaxInit,      \* bound on the initializations of the library
    MaxKeys       \* bound on the RSA keys generated
VARIABLES
    gen,          \* luna_count_c_init
    open,         \* sessions of the token
    objs,         \* its objects
    wkey,         \* luna_wrapping_pkey
    werror,       \* luna_wrapping_error
    whandle,      \* luna_wrapping_handle
    wcount,       \* luna_wrapping_count_c_init
    made,         \* RSA keys generated so far
    pc, call      \* where each thread is, its operation and local variables
wvars == <<wkey, werror, whandle, wcount>>
vars == <<gen, open, objs, wvars, made, pc, call>>

NoObj == [kind |-> "none", home |-> 0, key |-> 0, gen |-> 0]
Local == [op |-> "none", sess |-> 0, temp |-> NoObj, pkey |-> 0, hWrapper |-> NoObj, ok |-> TRUE]

Init == /\ gen = 1 /\ open = {} /\ objs = {}
        /\ wkey = 0 /\ werror = FALSE /\ whandle = NoObj /\ wcount = 0 /\ made = 0
        /\ pc = [t \in Threads |-> "idle"]
        /\ call = [t \in Threads |-> Local]

Goto(t, p) == pc' = [pc EXCEPT ![t] = p]
Fails(t, p) == Goto(t, p) /\ call' = [call EXCEPT ![t].ok = FALSE]
Object(kind, t, key) == [kind |-> kind, home |-> call[t].sess, key |-> key, gen |-> gen]
Idle == \A t \in Threads : pc[t] = "idle"
------------------------------------------------------------------------------
(* The library is initialized again, and the engine loaded again, outside of calls. *)
Reinit == /\ Idle /\ gen < MaxInit
          /\ gen' = gen + 1 /\ open' = {} /\ objs' = {}
          /\ UNCHANGED <<wvars, made, pc, call>>

luna_init_ecdh == /\ Idle
                  /\ wkey' = 0 /\ werror' = FALSE /\ whandle' = NoObj /\ wcount' = 0
                  /\ UNCHANGED <<gen, open, objs, made, pc, call>>

(* A call takes a session that no call uses, cached or new. *)
luna_open_context(t, s) ==
    /\ pc[t] = "idle" /\ \A u \in Threads : call[u].sess # s
    /\ open' = open \cup {s}
    /\ \E o \in Ops :
          /\ call' = [call EXCEPT ![t] = [Local EXCEPT !.op = o, !.sess = s]]
          /\ Goto(t, "compute")
    /\ UNCHANGED <<gen, objs, wvars, made>>

(* C_DeriveKey, CA_EncapsulateKey or CA_DecapsulateKey leave the secret in an object, if
   neither the key nor the arguments are refused before. *)
Compute(t) ==
    /\ \/ /\ objs' = objs \cup {Object("secret", t, 0)}
          /\ call' = [call EXCEPT ![t].temp = Object("secret", t, 0)]
          /\ Goto(t, "prep")
       \/ Fails(t, "close") /\ UNCHANGED objs
    /\ UNCHANGED <<gen, open, wvars, made>>

LunaPqcKemDecap(t) == pc[t] = "compute" /\ call[t].op = "decap" /\ Compute(t)

(* An encapsulation may also ask for the length of the ciphertext only. *)
LunaPqcKemEncap(t) ==
    /\ pc[t] = "compute" /\ call[t].op = "encap"
    /\ \/ Compute(t)
       \/ Goto(t, "close") /\ UNCHANGED <<gen, open, objs, wvars, made, call>>

(* An ECDH exchange leaves nothing in the token: the secret is derived when it is wrapped.
   The handle of the key may be missing or stale. *)
LunaEcdhComputeKey(t) ==
    /\ (Goto(t, "prep") /\ UNCHANGED call) \/ Fails(t, "close")
    /\ UNCHANGED <<gen, open, objs, wvars, made>>

luna_prov_ECDH_compute_key_ex(t) ==
    pc[t] = "compute" /\ call[t].op = "ecdh" /\ LunaEcdhComputeKey(t)

(* LunaUnwrapKeyBytes_prep: "generate the software wrapping keypair once". *)
Prep(t) ==
    /\ pc[t] = "prep"
    /\ Goto(t, IF wkey = 0 /\ ~werror THEN "generate" ELSE "prepared")
    /\ UNCHANGED <<gen, open, objs, wvars, made, call>>

luna_init_wrapping_pkey_deferred(t) ==
    /\ pc[t] = "generate"
    /\ \/ made < MaxKeys /\ made' = made + 1 /\ wkey' = made + 1
       \/ wkey' = 0 /\ UNCHANGED made
    /\ Goto(t, "generated")
    /\ UNCHANGED <<gen, open, objs, werror, whandle, wcount, call>>

Generated(t) ==
    /\ pc[t] = "generated"
    /\ werror' = (werror \/ wkey = 0)
    /\ Goto(t, "reset")
    /\ UNCHANGED <<gen, open, objs, wkey, whandle, wcount, made, call>>

(* The count is reset after the handle. *)
Reset(t) ==
    /\ \/ pc[t] = "reset" /\ whandle' = NoObj /\ UNCHANGED wcount /\ Goto(t, "resetcount")
       \/ pc[t] = "resetcount" /\ wcount' = 0 /\ UNCHANGED whandle /\ Goto(t, "prepared")
    /\ UNCHANGED <<gen, open, objs, wkey, werror, made, call>>

Prepared(t) ==
    /\ pc[t] = "prepared"
    /\ IF werror THEN Fails(t, "destroy") ELSE Goto(t, "load") /\ UNCHANGED call
    /\ UNCHANGED <<gen, open, objs, wvars, made>>

LunaUnwrapKeyBytes_prep(t) ==
    Prep(t) \/ luna_init_wrapping_pkey_deferred(t) \/ Generated(t) \/ Reset(t) \/ Prepared(t)
------------------------------------------------------------------------------
(* LunaUnwrapKeyBytesOAEP. *)
Load(t) ==
    /\ pc[t] = "load"
    /\ IF wkey = 0 THEN Fails(t, "destroy")
       ELSE /\ call' = [call EXCEPT ![t].pkey = wkey]
            /\ Goto(t, "check")
    /\ UNCHANGED <<gen, open, objs, wvars, made>>

(* The public half is imported again after every initialization of the library. *)
Check(t) ==
    /\ \/ pc[t] = "check" /\ Goto(t, IF whandle = NoObj THEN "import" ELSE "checkcount")
       \/ pc[t] = "checkcount" /\ Goto(t, IF wcount # gen THEN "import" ELSE "take")
    /\ UNCHANGED <<gen, open, objs, wvars, made, call>>

Take(t) ==
    /\ pc[t] = "take"
    /\ call' = [call EXCEPT ![t].hWrapper = whandle]
    /\ Goto(t, "wrap")
    /\ UNCHANGED <<gen, open, objs, wvars, made>>

Import(t) ==
    /\ pc[t] = "import"
    /\ \/ /\ objs' = objs \cup {Object("wrapper", t, call[t].pkey)}
          /\ call' = [call EXCEPT ![t].hWrapper = Object("wrapper", t, call[t].pkey)]
          /\ Goto(t, "store")
       \/ Fails(t, "destroy") /\ UNCHANGED objs
    /\ UNCHANGED <<gen, open, wvars, made>>

(* Mutant: the count is stored first. *)
Stores_CountFirst == <<"count", "handle">>

(* The count vouches for the handle, which is stored before it. *)
Stores == <<"handle", "count">>

Store(t) ==
    /\ \E i \in 1..2 :
          /\ pc[t] = <<"store", "storenext">>[i]
          /\ whandle' = IF Stores[i] = "handle" THEN call[t].hWrapper ELSE whandle
          /\ wcount' = IF Stores[i] = "count" THEN gen ELSE wcount
          /\ Goto(t, <<"storenext", "wrap">>[i])
    /\ UNCHANGED <<gen, open, objs, wkey, werror, made, call>>

(* C_WrapKey, or CA_DeriveKeyAndWrap: the token refuses a handle that names no object. *)
Wrap(t) ==
    /\ pc[t] = "wrap"
    /\ \/ /\ call[t].hWrapper \in objs
          /\ call[t].op = "ecdh" \/ call[t].temp \in objs
          /\ Goto(t, "unwrap") /\ UNCHANGED call
       \/ Fails(t, "destroy")
    /\ UNCHANGED <<gen, open, objs, wvars, made>>

Unwrap(t) ==
    /\ pc[t] = "unwrap"
    /\ \/ /\ call[t].hWrapper.key = call[t].pkey
          /\ Goto(t, "destroy") /\ UNCHANGED call
       \/ Fails(t, "destroy")
    /\ UNCHANGED <<gen, open, objs, wvars, made>>

LunaUnwrapKeyBytesOAEP(t) ==
    Load(t) \/ Check(t) \/ Take(t) \/ Import(t) \/ Store(t) \/ Wrap(t) \/ Unwrap(t)
------------------------------------------------------------------------------
(* The temporary object is destroyed, whatever happened to it. *)
Destroyed(t) == {call[t].temp}

Destroy(t) ==
    /\ pc[t] = "destroy"
    /\ objs' = objs \ Destroyed(t)
    /\ Goto(t, "close")
    /\ UNCHANGED <<gen, open, wvars, made, call>>

luna_close_context_w_err(t) ==
    /\ pc[t] = "close"
    /\ IF call[t].ok THEN UNCHANGED <<open, objs>>
       ELSE /\ open' = open \ {call[t].sess}
            /\ objs' = {o \in objs : o.home # call[t].sess}
    /\ call' = [call EXCEPT ![t] = Local]
    /\ Goto(t, "idle")
    /\ UNCHANGED <<gen, wvars, made>>

Next ==
    \/ Reinit \/ luna_init_ecdh
    \/ \E t \in Threads :
          \/ \E s \in Sessions : luna_open_context(t, s)
          \/ LunaPqcKemEncap(t) \/ LunaPqcKemDecap(t)
          \/ luna_prov_ECDH_compute_key_ex(t)
          \/ LunaUnwrapKeyBytes_prep(t) \/ LunaUnwrapKeyBytesOAEP(t)
          \/ Destroy(t) \/ luna_close_context_w_err(t)
Spec == Init /\ [][Next]_vars
------------------------------------------------------------------------------
Handles == [kind : {"none", "secret", "wrapper"}, home : Sessions \cup {0},
            key : 0..MaxKeys, gen : 0..MaxInit]

TypeOK ==
    /\ gen \in 1..MaxInit /\ open \subseteq Sessions /\ objs \subseteq Handles \ {NoObj}
    /\ wkey \in 0..MaxKeys /\ werror \in BOOLEAN /\ whandle \in Handles
    /\ wcount \in 0..MaxInit /\ made \in 0..MaxKeys
    /\ DOMAIN pc = Threads
    /\ call \in [Threads -> [op : Ops \cup {"none"}, sess : Sessions \cup {0}, temp : Handles,
                             pkey : 0..MaxKeys, hWrapper : Handles, ok : BOOLEAN]]

(* A secret is never wrapped with a handle of an earlier initialization of the library,
   which may name another key by now: the count vouches for the handle although both are
   read and written without a lock. *)
WrapperFresh ==
    \A t \in Threads :
        pc[t] = "wrap" /\ call[t].hWrapper # NoObj => call[t].hWrapper.gen = gen

(* Whatever fails on the way of a secret out of the token, no temporary object stays in it
   after the call. *)
NoSecretStays ==
    \A o \in objs : o.kind = "secret" => \E t \in Threads : call[t].temp = o
==============================================================================
