----------------------------- MODULE EngineKey -----------------------------
(* RSA, DSA and EC keys of the engine (engine/e_gem.c): generation, loading by an
   identifier, the choice between token and software, the search for the object of
   a key and the cache of its handle in the ex_data of the key, and the padding of
   RSA operations. Session is the specification of the contexts: here a context is
   opened and closed in one step, and the library is finalized only while none is
   open (Session!SessionsLive).

   A key object of the process stands for a key pair k of Keys. Its public members
   name k; its private members are null, "one" (the marker of sautil and of loaded
   keys), "pattern" (the marker of loaded EC keys) or real. *)
EXTENDS Integers, FiniteSets

CONSTANTS
    Threads, Keys, Sessions,
    KeyType,            \* [Keys -> {"rsa", "dsa", "ec"}]
    Files,              \* [Keys -> private members of the key in a PEM file]
    Stored,             \* token objects at the start: subset of Keys \X Class \X Slots
    Configs             \* configurations: a set of Config

Slots == {0, 1}
Class == {"pub", "priv"}
Token == "token"        \* owner of an object that outlives its session
NoHandle == 0
Handles == 1 .. 2 * Cardinality(Keys) + Cardinality(Stored)
Paddings == {"pkcs1", "none", "x931", "oaep", "pss", "other"}

Config == [token : BOOLEAN,       \* EnableTokenObject
           cache : BOOLEAN,       \* DisableSessionCache = 0
           public : BOOLEAN,      \* DisablePublicCrypto = 0
           hostPads : BOOLEAN,    \* rsaPkcsPaddingType 1 or 2
           ecGen : BOOLEAN,       \* EnableEcGenKeyPair
           rsaOnly : BOOLEAN]     \* only RSA is enabled

(* No key and no session has the name that stands for a CKA_ID or an owner. *)
ASSUME KeysAssumption ==
    /\ IsFiniteSet(Keys) /\ "temp" \notin Keys /\ Token \notin Sessions
    /\ KeyType \in [Keys -> {"rsa", "dsa", "ec"}]
    /\ Files \in [Keys -> {"null", "one", "real"}]
    /\ Stored \subseteq Keys \X Class \X Slots
    /\ Configs \subseteq Config

VARIABLES
    config,
    tok,        \* objects of the token
    cached,     \* cached sessions of each slot
    app,        \* private members of the key objects of the process
    ex,         \* handles in their ex_data
    call        \* what each thread does
vars == <<config, tok, cached, app, ex, call>>

Obj == [key : Keys, class : Class, slot : Slots, n : Handles, owner : Sessions \cup {Token}]

Ops == {"priv_enc", "priv_dec", "pub_enc", "pub_dec", "dsa_sign", "dsa_verify",
        "ecdsa_sign", "ecdsa_verify"}
OpType(op) == IF op \in {"dsa_sign", "dsa_verify"} THEN "dsa"
              ELSE IF op \in {"ecdsa_sign", "ecdsa_verify"} THEN "ec" ELSE "rsa"
ClassOf(op) ==
    IF op \in {"priv_enc", "priv_dec", "dsa_sign", "ecdsa_sign"} THEN "priv" ELSE "pub"
Forms == {"label pub", "label priv", "id", "modulus", "value", "point"}

NoCall == [pc |-> "idle"]
Inside == {"load", "gen", "lookup", "search", "use"}
OpenCalls == {t \in Threads : call[t].pc \in Inside}
Held == {call[t].sess : t \in OpenCalls}

Numbers(S) == {o.n : o \in S}
ObjectsOf(k, c, s) == {o \in tok : o.key = k /\ o.class = c /\ o.slot = s}

(* The attributes that identify an object: a random CKA_ID, and labels made of it
   that name the class; EC session objects all share one CKA_ID and one label. *)
Shared(o) == KeyType[o.key] = "ec" /\ o.owner # Token
CkaId(o) == IF Shared(o) THEN "temp" ELSE o.key
Label(o) == IF Shared(o) THEN <<"temp", "temp">> ELSE <<o.key, o.class>>
SameId(S) == {o \in tok : \E p \in S : CkaId(o) = CkaId(p) /\ o.slot = p.slot}
------------------------------------------------------------------------------
(* Where an operation is done. Null private members count as hardware in a private
   operation and as software in a public one. *)
luna_check_private_NullIsSoftware(k) == IF app[k] \in {"real", "null"} THEN "software" ELSE "hardware"
luna_check_private(k) == IF app[k] = "real" THEN "software" ELSE "hardware"
luna_check_public(k) == IF app[k] \in {"real", "null"} THEN "software" ELSE "hardware"

InSoftware(k, class) ==
    IF class = "priv" THEN luna_check_private(k) = "software"
    ELSE luna_check_public(k) = "software" \/ ~config.public

(* The objects a search may return; the first of them is taken. *)
luna_find_rsa_handle(k, c, s) == ObjectsOf(k, c, s)

luna_find_dsa_handle(k, c, s) ==
    IF c = "pub" THEN ObjectsOf(k, c, s)
    ELSE {o \in SameId(ObjectsOf(k, "pub", s)) : o.class = "priv"}

(* Private objects carry CKA_EC_POINT or not; the second search is the way out. *)
luna_find_ecdsa_handle(k, c, s) ==
    IF ObjectsOf(k, c, s) # {} THEN ObjectsOf(k, c, s)
    ELSE {o \in SameId(ObjectsOf(k, "pub", s)) : o.class = c /\ KeyType[o.key] = "ec"}

Find(k, c, s) ==
    CASE KeyType[k] = "rsa" -> luna_find_rsa_handle(k, c, s)
      [] KeyType[k] = "dsa" -> luna_find_dsa_handle(k, c, s)
      [] KeyType[k] = "ec" -> luna_find_ecdsa_handle(k, c, s)

Unknown == [p \in Class \X Slots |-> NoHandle]

(* Opening takes a cached session or one that is not in use; closing gives it back
   only if nothing failed, else the session ends, and with it the objects it owns. *)
Open_KeepsCached(t, S, rec) ==
    \E s \in S :
        /\ \E h \in Sessions :
              /\ IF cached[s] # {} THEN h \in cached[s]
                 ELSE h \notin Held \cup cached[0] \cup cached[1]
              /\ UNCHANGED cached
              /\ call' = [call EXCEPT ![t] =
                    [n \in DOMAIN rec \cup {"slot", "sess"} |->
                        IF n = "slot" THEN s ELSE IF n = "sess" THEN h ELSE rec[n]]]

Open(t, S, rec) ==
    \E s \in S :
        /\ \E h \in Sessions :
              /\ IF cached[s] # {} THEN h \in cached[s]
                 ELSE h \notin Held \cup cached[0] \cup cached[1]
              /\ cached' = [cached EXCEPT ![s] = @ \ {h}]
              /\ call' = [call EXCEPT ![t] =
                    [n \in DOMAIN rec \cup {"slot", "sess"} |->
                        IF n = "slot" THEN s ELSE IF n = "sess" THEN h ELSE rec[n]]]

CloseSession(t, ok) ==
    LET s == call[t].slot  h == call[t].sess IN
    IF ok /\ config.cache
    THEN cached' = [cached EXCEPT ![s] = @ \cup {h}] /\ UNCHANGED tok
    ELSE tok' = {o \in tok : o.owner # h} /\ UNCHANGED cached
------------------------------------------------------------------------------
(* RSA paddings. A plan names the mechanism of the token and the padding that the
   engine adds or checks itself ("raw": none). *)
luna_rsa_priv_enc_pkcs(pad) ==
    CASE pad = "none" -> <<"X_509", "none">>
      [] pad = "pkcs1" -> IF config.hostPads THEN <<"X_509", "type1">> ELSE <<"PKCS_sign", "raw">>
      [] pad = "x931" -> <<"X9_31", "raw">>
      [] pad = "pss" -> <<"PKCS_PSS", "raw">>
      [] OTHER -> <<"error", "raw">>

luna_rsa_pub_enc_x509_Type1(pad) ==
    CASE pad = "none" -> <<"X_509", "none">>
      [] pad = "pkcs1" -> IF config.hostPads THEN <<"X_509", "type1">> ELSE <<"PKCS_enc", "raw">>
      [] pad = "oaep" -> <<"OAEP", "raw">>
      [] OTHER -> <<"error", "raw">>

luna_rsa_pub_enc_x509(pad) ==
    CASE pad = "none" -> <<"X_509", "none">>
      [] pad = "pkcs1" -> IF config.hostPads THEN <<"X_509", "type2">> ELSE <<"PKCS_enc", "raw">>
      [] pad = "oaep" -> <<"OAEP", "raw">>
      [] OTHER -> <<"error", "raw">>

luna_rsa_priv_dec_x509(pad) ==
    CASE pad = "none" -> <<"X_509", "none">>
      [] pad = "pkcs1" -> IF config.hostPads THEN <<"X_509", "type2">> ELSE <<"PKCS_enc", "raw">>
      [] pad = "oaep" -> <<"OAEP", "raw">>
      [] OTHER -> <<"error", "raw">>

(* The token cannot decrypt with a public key: it encrypts, and the padding is
   checked by the engine. *)
luna_rsa_pub_dec_x509(pad) ==
    CASE pad = "none" -> <<"X_509", "none">>
      [] pad = "pkcs1" -> <<"X_509", "type1">>
      [] pad = "x931" -> <<"X_509", "x931">>
      [] OTHER -> <<"error", "raw">>

Plan(op, pad) ==
    CASE op = "priv_enc" -> luna_rsa_priv_enc_pkcs(pad)
      [] op = "pub_enc" -> luna_rsa_pub_enc_x509(pad)
      [] op = "priv_dec" -> luna_rsa_priv_dec_x509(pad)
      [] op = "pub_dec" -> luna_rsa_pub_dec_x509(pad)
      [] OTHER -> <<"DSS", "raw">>

(* What the token itself adds or removes. *)
TokenPads(mech) ==
    CASE mech = "X_509" -> {} [] mech = "PKCS_sign" -> {"type1"} [] mech = "PKCS_enc" -> {"type2"}
      [] mech = "X9_31" -> {"x931"} [] mech = "OAEP" -> {"oaep"}
      [] mech = "PKCS_PSS" -> {"pss"} [] OTHER -> {}
------------------------------------------------------------------------------
InitialObjects ==
    LET num == CHOOSE f \in [Stored -> 1..Cardinality(Stored)] : \A p, q \in Stored : f[p] = f[q] => p = q
    IN {[key |-> p[1], class |-> p[2], slot |-> p[3], n |-> num[p], owner |-> Token] : p \in Stored}

Init ==
    /\ config \in Configs
    /\ tok = InitialObjects /\ cached = [s \in Slots |-> {}]
    /\ app = [k \in Keys |-> "absent"] /\ ex = [k \in Keys |-> Unknown]
    /\ call = [t \in Threads |-> NoCall]

Busy(k) == \E t \in Threads : call[t].pc # "idle" /\ call[t].key = k
Idle(t) == call[t].pc = "idle"
New(k) == app[k] = "absent" /\ ~Busy(k)
Ends(t) == call' = [call EXCEPT ![t] = NoCall]
Goes(t, pc) == call' = [call EXCEPT ![t].pc = pc]

(* The application parses a PEM file, or frees a key object. *)
ReadFile(k) ==
    /\ New(k) /\ \E v \in {Files[k], "null"} : app' = [app EXCEPT ![k] = v]
    /\ UNCHANGED <<config, tok, cached, ex, call>>

FreeKey(k) ==
    /\ app[k] # "absent" /\ ~Busy(k)
    /\ app' = [app EXCEPT ![k] = "absent"] /\ ex' = [ex EXCEPT ![k] = Unknown]
    /\ UNCHANGED <<config, tok, cached, call>>
------------------------------------------------------------------------------
(* An operation on the public or private object: software at once, or the handle
   from the ex_data, or a search. Which operation it is matters in Use only. *)
Operate(t, k, class) ==
    /\ Idle(t) /\ app[k] # "absent"
    /\ LET rec == [pc |-> "lookup", key |-> k, class |-> class, h |-> NoHandle] IN
       IF InSoftware(k, class)
       THEN call' = [call EXCEPT ![t] = [rec EXCEPT !.pc = "software"]] /\ UNCHANGED cached
       ELSE Open(t, Slots, rec)
    /\ UNCHANGED <<config, tok, app, ex>>

Uses(t, n) == call' = [call EXCEPT ![t].pc = "use", ![t].h = n]

(* luna_find_rsa_handle_FAST and the like: the handle in the ex_data is taken as it
   is, a handle found by a search is put there. A failed search ends a private
   operation; a public one closes its context and goes on in software. *)
Lookup_FirstSlot(t) ==
    /\ call[t].pc = "lookup"
    /\ LET n == ex[call[t].key][<<call[t].class, 0>>] IN
       IF n # NoHandle THEN Uses(t, n) ELSE Goes(t, "search")
    /\ UNCHANGED <<config, tok, cached, app, ex>>

Lookup(t) ==
    /\ call[t].pc = "lookup"
    /\ LET n == ex[call[t].key][<<call[t].class, call[t].slot>>] IN
       IF n # NoHandle THEN Uses(t, n) ELSE Goes(t, "search")
    /\ UNCHANGED <<config, tok, cached, app, ex>>

SearchFinds(t) ==
    /\ call[t].pc = "search"
    /\ LET k == call[t].key  c == call[t].class  s == call[t].slot IN
       \E o \in Find(k, c, s) : Uses(t, o.n) /\ ex' = [ex EXCEPT ![k][<<c, s>>] = o.n]
    /\ UNCHANGED <<config, tok, cached, app>>

SearchFails(t) ==
    /\ call[t].pc = "search"
    /\ IF call[t].class = "priv" THEN CloseSession(t, FALSE) /\ Ends(t)
       ELSE CloseSession(t, TRUE) /\ call' = [call EXCEPT ![t] =
               [pc |-> "software", key |-> @.key, class |-> @.class, h |-> NoHandle]]
    /\ UNCHANGED <<config, app, ex>>

(* The call on the token, and the end of the context. *)
Use(t) ==
    /\ call[t].pc = "use"
    /\ \E ok \in BOOLEAN : CloseSession(t, ok) /\ (ok => \E op \in Ops, pad \in Paddings :
          /\ OpType(op) = KeyType[call[t].key] /\ ClassOf(op) = call[t].class
          /\ Plan(op, pad)[1] # "error")
    /\ Ends(t) /\ UNCHANGED <<config, app, ex>>

SoftwareReturns(t) ==
    call[t].pc = "software" /\ Ends(t) /\ UNCHANGED <<config, tok, cached, app, ex>>
------------------------------------------------------------------------------
(* Key generation, always in slot 0. *)
luna_ecdsa_keygen(t, k) ==
    /\ KeyType[k] = "ec" /\ ~config.ecGen
    /\ app' = [app EXCEPT ![k] = "real"] /\ UNCHANGED <<cached, call>>

Generate(t, k) ==
    /\ Idle(t) /\ New(k) /\ \A o \in tok : o.key # k
    /\ \/ luna_ecdsa_keygen(t, k)
       \/ /\ KeyType[k] = "ec" => config.ecGen
          /\ Open(t, {0}, [pc |-> "gen", key |-> k]) /\ UNCHANGED app
    /\ UNCHANGED <<config, tok, ex>>

(* The pair that C_GenerateKeyPair makes, with the lowest handles that are free. *)
Pair(t) ==
    LET free == Handles \ Numbers(tok)
        n1 == CHOOSE n \in free : \A m \in free : n <= m
        n2 == CHOOSE n \in free \ {n1} : \A m \in free \ {n1} : n <= m
        Made(c, n) == [key |-> call[t].key, class |-> c, slot |-> 0, n |-> n,
                       owner |-> IF config.token THEN Token ELSE call[t].sess]
    IN [pub |-> Made("pub", n1), priv |-> Made("priv", n2)]

(* luna_ckatab_pre_keygen: no object has the label or the id already. *)
luna_ckatab_pre_keygen(p) ==
    \A o \in tok : o.slot = 0 /\ ~Shared(p) => Label(o) # Label(p) /\ CkaId(o) # CkaId(p)

(* What the new key object holds: its private members and the handles that came
   with it. A copied RSA or DSA object has no ex_data, a copied EC object has. *)
luna_rsa_keygen_ex(p) == [priv |-> "one", ex |-> Unknown]
luna_dsa_keygen_ex(p) == [priv |-> "one", ex |-> Unknown]
luna_ec_keygen_hw_ex(p) ==
    [priv |-> "pattern",
     ex |-> [q \in DOMAIN Unknown |-> IF q[2] = 0 THEN p[q[1]].n ELSE NoHandle]]
Generated(k, p) ==
    CASE KeyType[k] = "rsa" -> luna_rsa_keygen_ex(p) [] KeyType[k] = "dsa" -> luna_dsa_keygen_ex(p)
      [] KeyType[k] = "ec" -> luna_ec_keygen_hw_ex(p)

KeygenOk(t) ==
    LET p == Pair(t)  k == call[t].key IN
    /\ call[t].pc = "gen" /\ luna_ckatab_pre_keygen(p.priv)
    /\ tok' = (IF config.token \/ config.cache THEN tok \cup {p.pub, p.priv} ELSE tok)
               \ {o \in tok : ~config.cache /\ o.owner = call[t].sess}
    /\ cached' = IF config.cache THEN [cached EXCEPT ![0] = @ \cup {call[t].sess}] ELSE cached
    /\ app' = [app EXCEPT ![k] = Generated(k, p).priv]
    /\ ex' = [ex EXCEPT ![k] = Generated(k, p).ex]
    /\ Ends(t) /\ UNCHANGED config

(* A failure before the pair is made, or after it: then objects of the token stay. *)
KeygenFails(t) ==
    /\ call[t].pc = "gen"
    /\ \E made \in BOOLEAN :
          tok' = {o \in tok \cup (IF made THEN {Pair(t).pub, Pair(t).priv} ELSE {}) : o.owner # call[t].sess}
    /\ Ends(t) /\ UNCHANGED <<config, cached, app, ex>>
------------------------------------------------------------------------------
(* Loading by an identifier of the key k: the label of one of the two objects, the
   id, or one of the public values. *)
Load(t, k) ==
    /\ Idle(t) /\ New(k) /\ Open(t, Slots, [pc |-> "load", key |-> k])
    /\ UNCHANGED <<config, tok, app, ex>>

(* luna_attribute_from_string: what the identifier matches. The public values come
   with the key type. *)
Named(t, id) ==
    LET k == call[t].key IN
    {o \in tok : /\ o.slot = call[t].slot /\ config.rsaOnly => KeyType[o.key] = "rsa"
                 /\ CASE id = "label pub" -> Label(o) = <<k, "pub">>
                      [] id = "label priv" -> Label(o) = <<k, "priv">>
                      [] id = "id" -> CkaId(o) = k
                      [] id = "modulus" -> o.key = k /\ KeyType[k] = "rsa"
                      [] id = "value" -> o.key = k /\ KeyType[k] = "dsa" /\ o.class = "pub"
                      [] id = "point" -> o.key = k /\ KeyType[k] = "ec" /\ o.class = "pub"}

(* The class that was asked for, else the other one. *)
LoadFinds(t, id, hint) ==
    LET asked == {o \in Named(t, id) : o.class = hint} IN IF asked = {} THEN Named(t, id) ELSE asked

(* The key type is known to the search when the identifier implies it, and then not
   to the switch that needs it. *)
KnowsType(id) == id \notin {"modulus", "value", "point"}

Marked(hint, marker) == IF hint = "pub" THEN "null" ELSE marker
Remember(o) == [Unknown EXCEPT ![<<o.class, o.slot>>] = o.n]
PublicOf(o) == {q \in SameId({o}) : q.class = "pub" /\ KeyType[q.key] = KeyType[o.key]}

luna_load_rsa(o, hint) == {[priv |-> Marked(hint, "one"), ex |-> Remember(o)]}
luna_load_dsa(o, hint) ==
    {[priv |-> Marked(hint, "one"), ex |-> Unknown] : q \in IF o.class = "pub" THEN {o} ELSE PublicOf(o)}
(* The point is read from the private object if it is there. *)
luna_load_ecdsa_FAST(o, hint) == {[priv |-> Marked(hint, "pattern"), ex |-> Remember(o)]}

Loaded(o, hint) ==
    CASE KeyType[o.key] = "rsa" -> luna_load_rsa(o, hint) [] KeyType[o.key] = "dsa" -> luna_load_dsa(o, hint)
      [] KeyType[o.key] = "ec" -> luna_load_ecdsa_FAST(o, hint)

luna_load_anykey(t) ==
    /\ call[t].pc = "load"
    /\ \E id \in Forms, hint \in Class : \E o \in LoadFinds(t, id, hint) : \E new \in Loaded(o, hint) :
          /\ KnowsType(id)
          /\ app' = [app EXCEPT ![o.key] = new.priv] /\ ex' = [ex EXCEPT ![o.key] = new.ex]
    /\ CloseSession(t, TRUE) /\ Ends(t) /\ UNCHANGED config

LoadFails(t) ==
    call[t].pc = "load" /\ CloseSession(t, FALSE) /\ Ends(t) /\ UNCHANGED <<config, app, ex>>
------------------------------------------------------------------------------
(* The library is finalized and initialized again (luna_fini_p11, and
   luna_init_p11_deferred at the next call): the sessions and their objects are
   gone, and with new indices of ex_data the old handles are out of reach. *)
Reinitialize ==
    /\ OpenCalls = {} /\ cached' = [s \in Slots |-> {}]
    /\ tok' = {o \in tok : o.owner = Token} /\ ex' = [k \in Keys |-> Unknown]
    /\ UNCHANGED <<config, app, call>>

Next ==
    \/ Reinitialize
    \/ \E k \in Keys : ReadFile(k) \/ FreeKey(k)
    \/ \E t \in Threads :
        \/ Lookup(t) \/ SearchFinds(t) \/ SearchFails(t) \/ Use(t) \/ SoftwareReturns(t)
        \/ KeygenOk(t) \/ KeygenFails(t) \/ luna_load_anykey(t) \/ LoadFails(t)
        \/ \E k \in Keys :
            Generate(t, k) \/ Load(t, k) \/ \E class \in Class : Operate(t, k, class)

Spec == Init /\ [][Next]_vars
------------------------------------------------------------------------------
TypeOK ==
    /\ config \in Config /\ tok \subseteq Obj /\ Cardinality(Numbers(tok)) = Cardinality(tok)
    /\ cached \in [Slots -> SUBSET Sessions] /\ Held \cap (cached[0] \cup cached[1]) = {}
    /\ app \in [Keys -> {"absent", "null", "one", "pattern", "real"}]
    /\ ex \in [Keys -> [Class \X Slots -> Handles \cup {NoHandle}]]
    /\ \A t \in Threads : call[t].pc \in Inside \cup {"idle", "software"}

(* Whatever was found, cached, generated or loaded: when the key has an object of
   the class in the slot of the call, the token is given a handle of such an object
   and not one of another key. Keys in the token have one always. *)
OwnObject ==
    \A t \in Threads : call[t].pc = "use" =>
        LET own == ObjectsOf(call[t].key, call[t].class, call[t].slot) IN
        own # {} \/ config.token => call[t].h \in Numbers(own)

(* Software gets a private operation only with the real private members, and the
   token never one of a key that has them: a key object of the token stays one
   however it came about, and when its caches are empty. *)
PrivateInItsPlace ==
    \A t \in Threads : call[t].pc \in {"software", "lookup", "search", "use"} /\ call[t].class = "priv" =>
        (call[t].pc = "software" <=> app[call[t].key] = "real")

(* What the engine and the token do to the data together is the padding the caller
   asked for, once, and of the type of the operation. *)
Standard(op, pad) ==
    CASE pad = "pkcs1" -> IF op \in {"priv_enc", "pub_dec"} THEN {"type1"} ELSE {"type2"}
      [] pad = "none" -> {"none"} [] OTHER -> {pad}
StandardPadding ==
    \A t \in Threads : call[t].pc = "use" => \A op \in {o \in Ops : OpType(o) = "rsa"}, pad \in Paddings :
        LET plan == Plan(op, pad) IN
        plan[1] # "error" => TokenPads(plan[1]) \cup ({plan[2]} \ {"raw"}) = Standard(op, pad)
=============================================================================
