------------------------------- MODULE RsaSig -------------------------------
(* RSA signature contexts of the provider (lunaRsaSig.c), with the part of the
   engine that makes the signature (e_gem.c, lunaCommon.c).

   libcrypto owns the contexts. It creates one for every initialization, frees it
   when the initialization fails, and initializes a context again only for the same
   digest operation and without a key. The contexts keep their own reference to the
   key; those are counted in OpContext. A message is a number of chunks. *)
EXTENDS Integers, FiniteSets

CONSTANTS
    Ctxs,
    Keys,           \* a set of Key
    Names,          \* digests named by an initialization
    InitLists,      \* parameter lists of an initialization,
    ParamLists,     \* and of the calls that set parameters: sets of Params
    MaxSets,        \* calls that set parameters
    MaxChunks       \* chunks fed to one context

Null == "null"
Size == [sha1 |-> 20, sha256 |-> 32, sha3_256 |-> 32]
Digests == DOMAIN Size
X931Digests == {"sha1", "sha256"}       \* digests that have an X9.31 identifier
Default == "sha1"                       \* RSA_DEFAULT_DIGEST_NAME

(* RSA_PSS_SALTLEN_DIGEST, _AUTO and _MAX; -9 is a parameter that is not given. *)
SaltDigest == -1
Auto == -2
SaltMax == -3
NoSalt == -9
NoMin == -1

Pads == {"pkcs1", "pss", "x931", "raw", "oaep"}

Key == [type : {"rsa", "pss"}, bits : Nat, place : {"token", "software"},
        min : Int, md : Digests \cup {Null}, mgf1 : Digests \cup {Null}]
Restricted(k) == k.min # NoMin

Params == [some : BOOLEAN, pad : Pads \cup {Null}, salt : Int,
           md : Digests \cup {Null, "shake128"}, mgf1 : Digests \cup {Null}]

VARIABLES
    ctx,        \* the contexts
    sets        \* parameter calls left
vars == <<ctx, sets>>

NoStream == [alg |-> Null, n |-> 0, done |-> FALSE]

Free == [op |-> "free"]
Live(c) == c.op # "free"
Digesting(c) == Live(c) /\ c.digest

(* PROV_RSA_CTX; digest tells the operations of EVP_DigestSign from those of
   EVP_PKEY_sign, and fed counts the chunks accepted since the initialization. *)
rsa_newctx == [op |-> "none", key |-> Null, digest |-> FALSE, allow |-> TRUE, mgf1Set |-> FALSE,
               md |-> Null, mdctx |-> NoStream, mgf1 |-> Null, pad |-> Null,
               salt |-> Auto, min |-> NoMin, fed |-> 0]
------------------------------------------------------------------------------
Ok(c) == [ok |-> TRUE, ctx |-> c]
Fail(c) == [ok |-> FALSE, ctx |-> c]
Then(r, Next1(_)) == IF r.ok THEN Next1(r.ctx) ELSE r

RSA_size(k) == (k.bits + 7) \div 8
Spare(k) == IF k.bits % 8 = 1 THEN 1 ELSE 0     \* the encoded message has a byte less
MaxSalt(k, md) == RSA_size(k) - Spare(k) - Size[md] - 2

rsa_check_padding(c, md, mgf1, mdnid) ==
    /\ c.pad = "raw" => md = Null /\ mdnid = Null
    /\ c.pad = "x931" => mdnid \in X931Digests
    /\ c.pad = "pss" /\ c.min # NoMin => md \in {Null, c.md} /\ mgf1 \in {Null, c.mgf1}

rsa_check_parameters(c, min) ==
    IF c.pad # "pss" THEN Ok(c)
    ELSE IF min \in 0 .. RSA_size(c.key) - Size[c.md] - Spare(c.key)
         THEN Ok([c EXCEPT !.min = min]) ELSE Fail(c)

(* A digest named while the digest is locked is accepted when it is the same. *)
rsa_setup_md(c, md) ==
    IF md \notin Digests \/ ~rsa_check_padding(c, md, Null, md) THEN Fail(c)
    ELSE IF ~c.allow THEN IF c.md \in {Null, md} THEN Ok(c) ELSE Fail(c)
    ELSE Ok([c EXCEPT !.md = md, !.mdctx = NoStream,
                      !.mgf1 = IF c.mgf1Set THEN @ ELSE md])

rsa_setup_mgf1_md(c, md) ==
    IF rsa_check_padding(c, Null, md, md)
    THEN Ok([c EXCEPT !.mgf1 = md, !.mgf1Set = TRUE]) ELSE Fail(c)

PadAllowed(c, pad) ==
    \/ pad = Null
    \/ pad = "pss" /\ c.op \in {"sign", "verify"}
    \/ pad \in {"pkcs1", "raw", "x931"} /\ c.key.type = "rsa"

SaltAllowed_AutoForVerify(c, pad, salt) ==
    \/ salt = NoSalt
    \/ /\ pad = "pss"
       /\ salt >= SaltMax
       /\ c.min # NoMin => /\ salt = SaltDigest => c.min <= Size[c.md]
                           /\ salt >= 0 => salt >= c.min

SaltAllowed(c, pad, salt) ==
    \/ salt = NoSalt
    \/ /\ pad = "pss"
       /\ salt >= SaltMax
       /\ c.min # NoMin =>
             /\ salt = Auto => c.op # "verify"
             /\ salt = SaltDigest => c.min <= Size[c.md]
             /\ salt >= 0 => salt >= c.min

(* Padding mode and salt length are assigned before the digests are looked at: they
   stay when a digest is refused. *)
rsa_set_ctx_params(c, p) ==
    LET pad == IF p.pad = Null THEN c.pad ELSE p.pad
        salt == IF p.salt = NoSalt THEN c.salt ELSE p.salt
        md == IF p.md = Null /\ c.md = Null /\ pad = "pss" THEN Default ELSE p.md
        Mgf1(d) == IF p.mgf1 = Null THEN Ok(d) ELSE rsa_setup_mgf1_md(d, p.mgf1)
        Digest(d) == IF md # Null THEN rsa_setup_md(d, md)
                     ELSE IF rsa_check_padding(d, Null, Null, d.md) THEN Ok(d) ELSE Fail(d)
    IN IF ~p.some THEN Ok(c)
       ELSE IF PadAllowed(c, p.pad) /\ SaltAllowed(c, pad, p.salt)
               /\ (p.mgf1 = Null \/ pad = "pss")
            THEN Then(Mgf1([c EXCEPT !.pad = pad, !.salt = salt]), Digest)
            ELSE Fail(c)

(* A restricted key brings its digests before its minimum takes effect. *)
rsa_signverify_init(c, k, op, p) ==
    LET begun == [c EXCEPT !.key = k, !.op = op, !.min = NoMin,
                           !.salt = IF Restricted(k) THEN k.min ELSE Auto,
                           !.pad = IF k.type = "rsa" THEN "pkcs1" ELSE "pss"]
        Md(d) == rsa_setup_md(d, k.md)
        Min(d) == rsa_check_parameters(d, k.min)
        Given(d) == rsa_set_ctx_params(d, p)
    IN Then(IF Restricted(k) THEN Then(Then(rsa_setup_mgf1_md(begun, k.mgf1), Md), Min)
            ELSE Ok(begun), Given)

(* The call sets the digest unless the context names it already; EVP_DigestInit_ex2
   starts the stream again and fails without a digest. *)
rsa_digest_signverify_init(c, k, op, md, p) ==
    LET Md(d) == IF d.md = md THEN Ok(d) ELSE rsa_setup_md(d, md)
        Stream(d) == Ok([d EXCEPT !.digest = TRUE, !.allow = FALSE, !.fed = 0,
                                  !.mdctx = [alg |-> d.md, n |-> 0, done |-> FALSE]])
    IN Then(Then(rsa_signverify_init(c, k, op, p), Md), Stream)
------------------------------------------------------------------------------
(* What is signed: the digest with algorithm alg of the first n chunks. *)
NoSig == [pad |-> Null]
NoLen == -1

luna_from_pss_params_AutoIsDigest(c) ==
    CASE c.salt \in {Auto, SaltDigest} -> Size[c.md]
      [] c.salt = SaltMax -> MaxSalt(c.key, c.md)
      [] OTHER -> c.salt

(* The engine's PSS parameters for the token, RSA_padding_add_PKCS1_PSS_mgf1 for a
   software key, and the length that goes into the AlgorithmIdentifier. *)
luna_from_pss_params(c) ==
    CASE c.salt = SaltDigest -> Size[c.md]
      [] c.salt \in {Auto, SaltMax} ->
            IF RSA_size(c.key) - Spare(c.key) < Size[c.md] + 2 THEN NoLen
            ELSE RSA_size(c.key) - Spare(c.key) - Size[c.md] - 2
      [] OTHER -> c.salt

SoftwareSalt(c) ==
    IF c.salt = SaltDigest THEN Size[c.md]
    ELSE IF c.salt \in {Auto, SaltMax} THEN MaxSalt(c.key, c.md) ELSE c.salt

rsa_pss_compute_saltlen(c) ==
    LET salt == CASE c.salt = SaltDigest -> Size[c.md]
                  [] c.salt \in {Auto, SaltMax} ->
                        RSA_size(c.key) - Size[c.md] - 2 - Spare(c.key)
                  [] OTHER -> c.salt
    IN IF salt < 0 \/ salt < c.min THEN NoLen ELSE salt

PssSalt(c) == IF c.key.place = "token" THEN luna_from_pss_params(c) ELSE SoftwareSalt(c)

rsa_generate_signature_aid(c) ==
    CASE c.pad = "pkcs1" /\ c.md # Null -> [pad |-> c.pad, md |-> c.md]
      [] c.pad = "pss" /\ c.md # Null /\ rsa_pss_compute_saltlen(c) # NoLen ->
            [pad |-> c.pad, md |-> c.md, mgf1 |-> c.mgf1, salt |-> rsa_pss_compute_saltlen(c)]
      [] OTHER -> NoSig

(* PKCS #1 signatures wrap the digest in a DigestInfo that names its algorithm. *)
luna_prov_RSA_sign(c, tbs) == [pad |-> "pkcs1", md |-> c.md, tbs |-> tbs]
luna_prov_rsa_verify(c, sig, tbs) == sig = luna_prov_RSA_sign(c, tbs)

(* Without a digest the data goes to the key as it is. The token and software both
   refuse a salt that does not fit. *)
rsa_sign(c, tbs) ==
    IF c.md = Null
    THEN IF c.pad = "pss" THEN NoSig ELSE [pad |-> c.pad, md |-> Null, tbs |-> tbs]
    ELSE IF Size[tbs.alg] # Size[c.md] THEN NoSig
    ELSE CASE c.pad = "pkcs1" -> luna_prov_RSA_sign(c, tbs)
           [] c.pad = "x931" -> [pad |-> "x931", md |-> c.md, tbs |-> tbs]
           [] /\ c.pad = "pss" /\ PssSalt(c) \in 0 .. MaxSalt(c.key, c.md)
              /\ c.min # NoMin => /\ c.salt = SaltDigest => c.min <= Size[c.md]
                                  /\ c.salt >= 0 => c.salt >= c.min ->
                [pad |-> "pss", md |-> c.md, mgf1 |-> c.mgf1, salt |-> PssSalt(c), tbs |-> tbs]
           [] OTHER -> NoSig

SaltMatches(c, salt) ==
    CASE c.salt = Auto -> TRUE
      [] c.salt = SaltDigest -> salt = Size[c.md]
      [] c.salt = SaltMax -> salt = MaxSalt(c.key, c.md)
      [] OTHER -> salt = c.salt

rsa_verify(c, sig, tbs) ==
    /\ sig.pad = c.pad /\ sig.tbs = tbs
    /\ IF c.md = Null THEN c.pad # "pss" /\ sig.md = Null
       ELSE CASE c.pad = "pkcs1" -> luna_prov_rsa_verify(c, sig, tbs)
              [] c.pad = "x931" -> sig.md = c.md /\ c.md \in X931Digests
              [] c.pad = "pss" -> /\ Size[tbs.alg] = Size[c.md]
                                  /\ sig.md = c.md /\ sig.mgf1 = c.mgf1
                                  /\ SaltMatches(c, sig.salt)
              [] OTHER -> FALSE

(* The final calls fail without a stream, or with one that was finished before. *)
FinalReaches(c) == Digesting(c) /\ c.mdctx # NoStream /\ ~c.mdctx.done
Tbs(c) == [alg |-> c.mdctx.alg, n |-> c.mdctx.n]
rsa_digest_sign_final(c) == IF FinalReaches(c) THEN rsa_sign(c, Tbs(c)) ELSE NoSig
------------------------------------------------------------------------------
Init == ctx = [c \in Ctxs |-> Free] /\ sets = MaxSets

Put(c, r) == ctx' = [ctx EXCEPT ![c] = IF r.ok THEN r.ctx ELSE Free] /\ UNCHANGED sets

SignInit(c) ==
    /\ ~Live(ctx[c])
    /\ \E k \in Keys, op \in {"sign", "verify", "recover"}, p \in InitLists :
          Put(c, rsa_signverify_init(rsa_newctx, k, op, p))

DigestInit(c) ==
    /\ ~Live(ctx[c])
    /\ \E k \in Keys, op \in {"sign", "verify"}, md \in Names, p \in InitLists :
          Put(c, rsa_digest_signverify_init(rsa_newctx, k, op, md, p))

DigestReinit(c) ==
    /\ Digesting(ctx[c])
    /\ \E md \in Names, p \in InitLists :
          Put(c, rsa_digest_signverify_init(ctx[c], ctx[c].key, ctx[c].op, md, p))

(* A call that is refused leaves the context to the application. *)
SetParams(c) ==
    /\ Live(ctx[c]) /\ sets > 0 /\ sets' = sets - 1
    /\ \E p \in ParamLists : ctx' = [ctx EXCEPT ![c] = rsa_set_ctx_params(@, p).ctx]

Update(c) ==
    /\ FinalReaches(ctx[c]) /\ ctx[c].fed < MaxChunks
    /\ ctx' = [ctx EXCEPT ![c].mdctx.n = @ + 1, ![c].fed = @ + 1]
    /\ UNCHANGED sets

(* The size of the signature, asked with a final call that has no buffer. *)
SizeQuery(c) ==
    /\ Digesting(ctx[c]) /\ ctx[c].op = "sign"
    /\ ctx' = [ctx EXCEPT ![c].allow = TRUE]
    /\ UNCHANGED sets

Final(c) ==
    /\ Digesting(ctx[c])
    /\ ctx' = [ctx EXCEPT ![c].allow = TRUE,
                          ![c].mdctx.done = IF FinalReaches(ctx[c]) THEN TRUE ELSE @]
    /\ UNCHANGED sets

rsa_dupctx(c, d) ==
    /\ Live(ctx[c]) /\ ~Live(ctx[d])
    /\ ctx' = [ctx EXCEPT ![d] = ctx[c]]
    /\ UNCHANGED sets

rsa_freectx(c) ==
    /\ Live(ctx[c])
    /\ ctx' = [ctx EXCEPT ![c] = Free]
    /\ UNCHANGED sets

Next ==
    \E c \in Ctxs :
        \/ SignInit(c) \/ DigestInit(c) \/ DigestReinit(c)
        \/ SetParams(c) \/ Update(c) \/ SizeQuery(c) \/ Final(c)
        \/ \E d \in Ctxs : rsa_dupctx(c, d)
        \/ rsa_freectx(c)

Spec == Init /\ [][Next]_vars
------------------------------------------------------------------------------
(* A context holds a key, the digests and the parameters the calls may leave. *)
TypeOK ==
    /\ sets \in 0 .. MaxSets
    /\ \A c \in Ctxs : Live(ctx[c]) =>
          /\ ctx[c].key \in Keys
          /\ ctx[c].op \in {"sign", "verify", "recover"}
          /\ ctx[c].md \in Digests \cup {Null} /\ ctx[c].mgf1 \in Digests \cup {Null}
          /\ ctx[c].pad \in Pads \ {"oaep"}
          /\ ctx[c].salt >= SaltMax /\ ctx[c].fed \in 0 .. MaxChunks

(* A signature that a final call makes covers every chunk the context accepted since
   its initialization, under the digest the context names, whatever parameters,
   size queries, copies and new initializations came between. *)
WholeMessage ==
    \A c \in Ctxs : rsa_digest_sign_final(ctx[c]) # NoSig =>
        Tbs(ctx[c]) = [alg |-> ctx[c].md, n |-> ctx[c].fed]

(* No call sequence makes a context of a restricted RSA-PSS key sign or accept with
   another padding, another digest, or a salt shorter than the key's minimum. Keys
   whose minimum no signature reaches are left out: rsa_check_parameters lets
   two bytes more pass than the encoding has. *)
RestrictionsHold ==
    \A c \in Ctxs :
        LET k == ctx[c].key
            s == rsa_sign(ctx[c], [alg |-> k.md, n |-> 0])
            probe == [pad |-> "pss", md |-> k.md, mgf1 |-> k.mgf1, salt |-> k.min - 1,
                      tbs |-> [alg |-> k.md, n |-> 0]]
        IN Live(ctx[c]) /\ Restricted(k) /\ k.min <= MaxSalt(k, k.md) =>
              /\ ctx[c].pad = "pss" /\ ctx[c].md = k.md /\ ctx[c].mgf1 = k.mgf1
              /\ s # NoSig => s.salt >= k.min
              /\ ctx[c].op = "verify" => ~rsa_verify(ctx[c], probe, probe.tbs)

(* What one context signs, in the token or in software, a context with the same key
   and parameters verifies, and the AlgorithmIdentifier the signer hands out describes
   the signature. Left out is X9.31 with a digest that has no identifier: a refused
   call leaves it behind, and rsa_sign then writes the identifier -1. *)
SignaturesVerify ==
    \A c, d \in Ctxs :
        LET sig == rsa_digest_sign_final(ctx[c])
            aid == rsa_generate_signature_aid(ctx[c])
        IN /\ Live(ctx[c]) /\ ctx[c].op = "sign" /\ sig # NoSig
           /\ ctx[c].pad = "x931" => ctx[c].md \in X931Digests
           =>
              /\ aid # NoSig => \A n \in DOMAIN aid : aid[n] = sig[n]
              /\ /\ Live(ctx[d]) /\ ctx[d].op = "verify" /\ FinalReaches(ctx[d])
                 /\ \A n \in {"key", "pad", "md", "mgf1", "salt", "mdctx"} : ctx[c][n] = ctx[d][n]
                 => rsa_verify(ctx[d], sig, Tbs(ctx[d]))
=============================================================================
