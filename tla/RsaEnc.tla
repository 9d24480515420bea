------------------------------- MODULE RsaEnc -------------------------------
(* RSA encryption contexts of the provider (lunaRsaEnc.c) and the decryption of the
   engine (luna_rsa_decrypt of e_gem.c, whose contexts are those of libcrypto).

   libcrypto creates a context for every initialization and frees it when that fails.
   What a context encrypts is a ciphertext that carries the parameters used; what a
   context decrypts is the message, the padded block, random bytes, nothing at all
   ("empty"), or a failure. *)
EXTENDS Integers, FiniteSets

CONSTANTS
    Ctxs,
    Keys,           \* a set of Key
    ParamLists,     \* a set of Params
    TokenDigests    \* digests the mechanism of the token knows
Null == "null"

Key == [name : STRING, type : {"rsa", "pss"}, place : {"token", "software", "engine"}]
Pads == {"pkcs1", "none", "oaep", "tls", "x931", "pss", "unknown"}

(* A list of parameters; Null and 0 are parameters that are not given, and "nodigest" is
   a name no digest has. *)
Digests == {"sha1", "sha256", "md5"}
Params == [oaep : Digests \cup {"nodigest", Null}, pad : Pads \cup {Null},
           mgf1 : Digests \cup {"nodigest", Null}, label : {"label", Null}, version : 0 .. 1]

VARIABLES ctx, refs
vars == <<ctx, refs>>

Free == [op |-> "free"]
Live(c) == c.op # "free"

rsa_newctx == [op |-> "none", key |-> Null, pad |-> Null, oaep |-> Null, mgf1 |-> Null,
               label |-> Null, version |-> 0]
------------------------------------------------------------------------------
LUNAPROV_EVP_MD_fetch(name) == IF name \in Digests THEN name ELSE Null

(* The name of the MGF1 digest is copied to where the name of the OAEP digest was meant
   to be replaced: in a list that names both, the OAEP digest serves for both. *)
Mgf1Name(p) == IF p.oaep # Null THEN p.oaep ELSE p.mgf1

(* The steps of a list, each of which may refuse the rest and keeps what was set. *)
SetOaep(c, p) ==
    IF p.oaep = Null THEN c ELSE [c EXCEPT !.oaep = LUNAPROV_EVP_MD_fetch(p.oaep)]
SetPad(c, p) ==
    IF p.pad = Null THEN c
    ELSE [c EXCEPT !.pad = p.pad,
                   !.oaep = IF p.pad = "oaep" /\ @ = Null THEN "sha1" ELSE @]
SetMgf1(c, p) ==
    IF p.mgf1 = Null THEN c ELSE [c EXCEPT !.mgf1 = LUNAPROV_EVP_MD_fetch(Mgf1Name(p))]
SetRest(c, p) ==
    [c EXCEPT !.label = IF p.label = Null THEN @ ELSE p.label,
              !.version = IF p.version = 0 THEN @ ELSE p.version]

rsa_set_ctx_params(c, p) ==
    LET oaep == SetOaep(c, p)  pad == SetPad(oaep, p)  mgf1 == SetMgf1(pad, p)
        Refuse(d) == [ok |-> FALSE, ctx |-> d]
    IN IF (p.oaep # Null /\ oaep.oaep = Null) \/ p.pad = "pss" THEN Refuse(oaep)
       ELSE IF p.mgf1 # Null /\ mgf1.mgf1 = Null THEN Refuse(mgf1)
       ELSE [ok |-> TRUE, ctx |-> SetRest(mgf1, p)]

(* The contexts of an engine key are libcrypto's, set by one control call for each
   parameter; the engine only decrypts. *)
Lists(k) ==
    {p \in ParamLists : k.place = "engine" =>
        Cardinality({f \in {"oaep", "pad", "mgf1", "label"} : p[f] # Null}) <= 1 /\ p.pad # "tls"}

rsa_init(op, k, p) ==
    LET new == [rsa_newctx EXCEPT !.op = op, !.key = k, !.pad = "pkcs1"]
    IN IF k.type # "rsa" THEN [ok |-> FALSE, ctx |-> new] ELSE rsa_set_ctx_params(new, p)
------------------------------------------------------------------------------
NoCipher == [pad |-> Null]

(* What the context encrypts a message to. OAEP without a digest fetches SHA-1 for the
   next call and fails, and without an MGF1 digest it fails. *)
rsa_encrypt(c) ==
    CASE c.pad = "oaep" /\ c.oaep # Null /\ c.mgf1 # Null ->
            [pad |-> "oaep", oaep |-> c.oaep, mgf1 |-> c.mgf1, label |-> c.label]
      [] c.pad \in {"pkcs1", "none"} -> [pad |-> c.pad]
      [] OTHER -> NoCipher

Opens(c, oaep, mgf1, label) == c = [pad |-> "oaep", oaep |-> oaep, mgf1 |-> mgf1, label |-> label]

(* The TLS padding is removed in software from what the key of either place decrypts; a
   wrong padding gives random bytes. *)
TlsPremaster(c, cipher) ==
    IF c.version = 0 THEN "failure" ELSE IF cipher.pad = "pkcs1" THEN "message" ELSE "random"

Decrypted(ok) == IF ok THEN "message" ELSE "failure"

(* Without padding a context gets the block as it is, the padding of another included; the
   paddings of signatures are refused. *)
Unpadded(c, cipher) ==
    CASE c.pad = "pkcs1" -> Decrypted(cipher.pad = "pkcs1")
      [] c.pad = "none" -> IF cipher.pad = "none" THEN "message" ELSE "block"
      [] OTHER -> "failure"

(* In software, OAEP without a digest takes SHA-1. *)
DecryptSoftware(c, cipher) ==
    CASE c.pad = "oaep" ->
            Decrypted(c.mgf1 # Null
                      /\ Opens(cipher, IF c.oaep = Null THEN "sha1" ELSE c.oaep, c.mgf1, c.label))
      [] c.pad = "tls" -> TlsPremaster(c, cipher)
      [] OTHER -> Unpadded(c, cipher)

(* The parameters of the mechanism CKM_RSA_PKCS_OAEP. *)
luna_from_oaep_params(oaep, mgf1, label) ==
    [ok |-> {oaep, mgf1} \subseteq TokenDigests, oaep |-> oaep, mgf1 |-> mgf1, label |-> label]

luna_rsa_priv_dec_x509(params, cipher) ==
    Decrypted(params.ok /\ Opens(cipher, params.oaep, params.mgf1, params.label))

(* With a key of the token, OAEP without an MGF1 digest gives a message of no bytes. *)
DecryptToken(c, cipher) ==
    CASE c.pad = "oaep" ->
            IF c.oaep = Null \/ c.mgf1 = Null THEN "empty"
            ELSE luna_rsa_priv_dec_x509(luna_from_oaep_params(c.oaep, c.mgf1, c.label), cipher)
      [] c.pad = "tls" -> TlsPremaster(c, cipher)
      [] OTHER -> Unpadded(c, cipher)

(* The engine reads the digests from the context and assumes there is no label; every
   other padding is left to libcrypto, which knows the engine's RSA methods. *)
luna_to_oaep_params(c) ==
    [oaep |-> IF c.oaep = Null THEN "sha1" ELSE c.oaep,
     mgf1 |-> IF c.mgf1 # Null THEN c.mgf1 ELSE IF c.oaep = Null THEN "sha1" ELSE c.oaep]

luna_rsa_decrypt(c, cipher) ==
    IF c.pad # "oaep" THEN DecryptSoftware(c, cipher)
    ELSE LET p == luna_to_oaep_params(c)
         IN luna_rsa_priv_dec_x509(luna_from_oaep_params(p.oaep, p.mgf1, Null), cipher)

rsa_decrypt(c, cipher) ==
    CASE c.key.place = "software" -> DecryptSoftware(c, cipher)
      [] c.key.place = "token" -> DecryptToken(c, cipher)
      [] OTHER -> luna_rsa_decrypt(c, cipher)
------------------------------------------------------------------------------
Count(S) == Cardinality(S)

Init == ctx = [x \in Ctxs |-> Free] /\ refs = [k \in Keys |-> 1]

(* The initialization takes its reference before it looks at the type and the list;
   freeing the context gives it back. *)
EncInit(x) ==
    /\ ~Live(ctx[x])
    /\ \E k \in Keys, op \in {"encrypt", "decrypt"} : \E p \in Lists(k) :
          LET r == rsa_init(op, k, p)
          IN /\ k.place = "engine" => op = "decrypt"
             /\ ctx' = [ctx EXCEPT ![x] = IF r.ok THEN r.ctx ELSE Free]
             /\ refs' = [refs EXCEPT ![k] = IF r.ok THEN @ + 1 ELSE @]

SetParams(x) ==
    /\ Live(ctx[x])
    /\ \E p \in Lists(ctx[x].key) : ctx' = [ctx EXCEPT ![x] = rsa_set_ctx_params(@, p).ctx]
    /\ UNCHANGED refs

(* A call with data may leave SHA-1 as the digest. *)
Crypt(x) ==
    LET c == ctx[x] IN
    /\ Live(c) /\ c.pad = "oaep" /\ c.oaep = Null
    /\ c.op = "decrypt" => c.key.place = "software"    \* the others fail before
    /\ ctx' = [ctx EXCEPT ![x].oaep = "sha1"]
    /\ UNCHANGED refs

rsa_dupctx(x, y) ==
    /\ Live(ctx[x]) /\ ~Live(ctx[y])
    /\ ctx' = [ctx EXCEPT ![y] = ctx[x]]
    /\ refs' = [refs EXCEPT ![ctx[x].key] = @ + 1]

rsa_freectx(x) ==
    /\ Live(ctx[x])
    /\ ctx' = [ctx EXCEPT ![x] = Free]
    /\ refs' = [refs EXCEPT ![ctx[x].key] = @ - 1]

Next ==
    \E x \in Ctxs :
        EncInit(x) \/ SetParams(x) \/ Crypt(x) \/ (\E y \in Ctxs : rsa_dupctx(x, y))
        \/ rsa_freectx(x)

Spec == Init /\ [][Next]_vars
------------------------------------------------------------------------------
(* A context is free or has a padding that is not for signatures. *)
TypeOK ==
    /\ refs \in [Keys -> Nat]
    /\ \A x \in Ctxs : Live(ctx[x]) =>
          ctx[x].key.type = "rsa" /\ ctx[x].pad \in Pads \ {"pss"} /\ ctx[x].oaep # "nodigest"

(* A key object lives as long as a context refers to it (the application keeps its own
   reference), through refused initializations and copies. *)
RefsExact ==
    \A k \in Keys : refs[k] = 1 + Count({x \in Ctxs : Live(ctx[x]) /\ ctx[x].key = k})

Same(c, d) == /\ c.pad = d.pad /\ c.oaep = d.oaep /\ c.mgf1 = d.mgf1 /\ c.label = d.label
Supported(c) ==
    c.pad = "oaep" => CASE c.key.place = "token" -> {c.oaep, c.mgf1} \subseteq TokenDigests
                        [] c.key.place = "engine" -> {c.oaep, c.mgf1} \subseteq TokenDigests
                                                     /\ c.label = Null
                        [] OTHER -> TRUE

(* What one context encrypts, a context of the same key that has the same parameters
   decrypts, whatever lists the two got them by and wherever the key is; the mechanism
   of the token must know the digests, and the engine knows no label. *)
DecryptsSame ==
    \A x, y \in Ctxs :
        /\ Live(ctx[x]) /\ ctx[x].op = "encrypt" /\ rsa_encrypt(ctx[x]) # NoCipher
        /\ Live(ctx[y]) /\ ctx[y].op = "decrypt"
        /\ ctx[x].key.name = ctx[y].key.name /\ Same(ctx[x], ctx[y]) /\ Supported(ctx[y])
        => rsa_decrypt(ctx[y], rsa_encrypt(ctx[x])) = "message"

(* And a context whose OAEP parameters differ does not get the message. *)
OthersRefused ==
    \A x, y \in Ctxs :
        /\ Live(ctx[x]) /\ ctx[x].op = "encrypt" /\ rsa_encrypt(ctx[x]) # NoCipher
        /\ Live(ctx[y]) /\ ctx[y].op = "decrypt" /\ ctx[y].key.place # "engine"
        /\ rsa_decrypt(ctx[y], rsa_encrypt(ctx[x])) = "message"
        => \/ Same(ctx[x], ctx[y])
           \/ ctx[x].pad = "pkcs1" /\ ctx[y].pad \in {"pkcs1", "tls"}
           \/ ctx[x].pad = "none" /\ ctx[y].pad = "none"
           \/ ctx[y].oaep = Null /\ Same(ctx[x], [ctx[y] EXCEPT !.oaep = "sha1"])
=============================================================================
