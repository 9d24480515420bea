------------------------------ MODULE OpContext ------------------------------
(* Signature contexts of DSA, EC, EdDSA and OQS keys (lunaDsaSig.c, lunaEcSig.c,
   lunaEddsaSig.c, oqs_sig.c) and exchange contexts of EC and ECX keys (lunaEcdh.c,
   lunaEcx.c), with the references they hold to key objects.

   libcrypto creates a context for every initialization, frees it when that fails, and
   initializes a digest context again, for the same operation, without a key. *)
EXTENDS Integers, FiniteSets

CONSTANTS
    Ctxs,
    Keys,       \* a set of Key
    AppKeys,    \* the sets of keys that applications start with
    Names,      \* digests
    DigestSize, \* their lengths
    Strings,    \* context strings of EdDSA
    MaxChunks   \* chunks fed to one context
Null == "null"

Key == [name : STRING, type : {"dsa", "ec", "oqs", "ed25519", "ed448", "ecx"},
        place : {"token", "software"}]
NoKey == [name |-> "", type |-> Null, place |-> Null]
Instances == {"Ed25519", "Ed25519ctx", "Ed25519ph", "Ed448", "Ed448ph"}
Edwards(k) == k.type \in {"ed25519", "ed448"}
Streams(k) == k.type \in {"dsa", "ec", "oqs"}

VARIABLES
    ctx,    \* the contexts
    refs,   \* the reference counts of the key objects
    app     \* the keys the application holds
vars == <<ctx, refs, app>>

Free == [op |-> "free"]
Freed == "freed"
Live(c) == c.op # "free"
Digesting(c) == Live(c) /\ c.digest
NoStream == [alg |-> Null, n |-> 0, done |-> FALSE]

(* PROV_DSA_CTX, PROV_ECDSA_CTX, PROV_EDDSA_CTX, PROV_OQSSIG_CTX, PROV_ECDH_CTX and
   PROV_ECX_CTX. aid is the context whose buffer the identifier is read from: what lies
   in the buffer of a context always names the digest of that context. data counts the
   chunks an OQS context collects itself, fed those accepted since the initialization. *)
newctx(op, k) ==
    [op |-> op, digest |-> FALSE, key |-> k, peer |-> NoKey, allow |-> TRUE, md |-> Null,
     size |-> 0, mdctx |-> NoStream, data |-> 0, aid |-> Null,
     instance |-> IF k.type = "ed448" THEN "Ed448" ELSE "Ed25519", string |-> Null, fed |-> 0]
------------------------------------------------------------------------------
Ok(c) == [ok |-> TRUE, ctx |-> c]
Fail(c) == [ok |-> FALSE, ctx |-> c]
Then(r, Next1(_)) == IF r.ok THEN Next1(r.ctx) ELSE r

ecdsa_setup_md_KeepsStream(c, x, md) ==
    IF md = Null THEN Ok(c)
    ELSE IF ~c.allow THEN IF c.md \in {Null, md} THEN Ok(c) ELSE Fail(c)
    ELSE Ok([c EXCEPT !.md = md, !.size = DigestSize[md], !.aid = x])

(* Naming the digest of a locked context again changes nothing. *)
ecdsa_setup_md(c, x, md) ==
    IF md = Null THEN Ok(c)
    ELSE IF ~c.allow THEN IF c.md \in {Null, md} THEN Ok(c) ELSE Fail(c)
    ELSE Ok([c EXCEPT !.md = md, !.mdctx = NoStream, !.size = DigestSize[md],
                      !.aid = x])

oqs_sig_setup_md(c, x, md) ==
    IF md = Null THEN Ok(c)
    ELSE Ok([c EXCEPT !.md = md, !.mdctx = NoStream, !.aid = x])

(* A parameter list names a digest, a length (EC), or an instance and a context string
   (EdDSA). An instance of the other curve is refused before the flags change; setting
   an instance leaves the string. *)
NoParams == [md |-> Null, size |-> 0, instance |-> Null, string |-> Null]

ecdsa_set_ctx_params(c, x, p) ==
    LET Length(d) == IF p.size = 0 \/ d.key.type # "ec" THEN Ok(d)
                     ELSE IF ~d.allow /\ p.size # d.size THEN Fail(d)
                     ELSE Ok([d EXCEPT !.size = p.size])
    IN Then(ecdsa_setup_md(c, x, p.md), Length)

oqs_sig_set_ctx_params(c, x, p) ==
    IF p.md # Null /\ ~c.allow THEN Fail(c) ELSE oqs_sig_setup_md(c, x, p.md)

OfCurve(k, instance) == (k.type = "ed448") = (instance \in {"Ed448", "Ed448ph"})

eddsa_set_ctx_params(c, p) ==
    IF p.instance # Null /\ ~OfCurve(c.key, p.instance) THEN Fail(c)
    ELSE Ok([c EXCEPT !.instance = IF p.instance = Null THEN @ ELSE p.instance,
                      !.string = IF p.string = Null THEN @ ELSE p.string])

set_ctx_params(c, x, p) ==
    CASE c.key.type = "oqs" -> oqs_sig_set_ctx_params(c, x, p)
      [] c.key.type \in {"dsa", "ec"} /\ c.op # "derive" -> ecdsa_set_ctx_params(c, x, p)
      [] Edwards(c.key) -> eddsa_set_ctx_params(c, p)
      [] OTHER -> Ok(c)

(* The stream starts with the digest of the context; DigestInit fails without one. *)
ecdsa_digest_init(c, x, md, p) ==
    LET Setup(d) == ecdsa_setup_md(d, x, md)
        Stream(d) == IF d.md = Null THEN Fail(d)
                     ELSE Ok([d EXCEPT !.digest = TRUE, !.allow = FALSE, !.fed = 0,
                                       !.mdctx = [alg |-> d.md, n |-> 0, done |-> FALSE]])
    IN Then(Then(ecdsa_set_ctx_params(c, x, p), Setup), Stream)

(* An OQS context ignores the parameters and stays unlocked until the first update;
   without a digest it collects the message. *)
oqs_sig_digest_init(c, x, md) ==
    LET Stream(d) == Ok([d EXCEPT !.digest = TRUE, !.mdctx.alg = md])
    IN Then(oqs_sig_setup_md(c, x, md), Stream)

eddsa_digest_init(c, x, md, p) ==
    IF md # Null THEN Fail(c)
    ELSE Then([Ok(c) EXCEPT !.ctx.digest = TRUE, !.ctx.aid = x],
              LAMBDA d : eddsa_set_ctx_params(d, p))

digest_init(c, x, md, p) ==
    CASE c.key.type = "oqs" -> oqs_sig_digest_init(c, x, md)
      [] Edwards(c.key) -> eddsa_digest_init(c, x, md, p)
      [] OTHER -> ecdsa_digest_init(c, x, md, p)
------------------------------------------------------------------------------
(* What a final call signs: the digest alg of n chunks, or the chunks themselves. *)
NoSig == [alg |-> "none"]
Finalizes(c) == c.mdctx # NoStream /\ ~c.mdctx.done

Signed(c) ==
    IF c.mdctx = NoStream
    THEN IF c.key.type = "oqs" THEN [alg |-> Null, n |-> c.data] ELSE NoSig
    ELSE IF ~Finalizes(c) \/ (c.key.type = "ec" /\ DigestSize[c.mdctx.alg] # c.size) THEN NoSig
    ELSE [alg |-> c.mdctx.alg, n |-> c.mdctx.n]

(* Ed25519 hashes the instance and the string in front of the message except for its
   pure instance, Ed448 always; the pure Ed25519 wants no string and Ed25519ctx wants one
   (ossl_ed25519_sign and ossl_ed25519_verify of libcrypto). The mechanism of the token is
   given the message alone: it knows the pure instances, and the prehash was made before. *)
Pure(c) == c.instance \in {"Ed25519", "Ed448"}
Prehash(c) == c.instance \in {"Ed25519ph", "Ed448ph"}
Dom(c) == IF c.instance = "Ed25519" THEN <<>> ELSE <<c.instance, c.string>>
StringFits(c) ==
    /\ c.instance = "Ed25519" => c.string = Null
    /\ c.instance = "Ed25519ctx" => c.string # Null

ed25519_digest_sign(c) ==
    IF c.key.place = "token"
    THEN [dom |-> IF c.key.type = "ed448" THEN <<"Ed448", Null>> ELSE <<>>, hashed |-> Prehash(c)]
    ELSE IF ~StringFits(c) THEN NoSig
    ELSE [dom |-> Dom(c), hashed |-> Prehash(c)]

ed25519_digest_verify(c, sig) ==
    StringFits(c) /\ sig = [dom |-> Dom(c), hashed |-> Prehash(c)]
------------------------------------------------------------------------------
Count(S) == Cardinality(S)

Init ==
    /\ app \in AppKeys /\ refs = [k \in Keys |-> IF k \in app THEN 1 ELSE 0]
    /\ ctx = [x \in Ctxs |-> Free]

ParamLists(k) ==
    {NoParams} \cup
    CASE Edwards(k) -> [md : {Null}, size : {0}, instance : Instances, string : Strings \cup {Null}]
      [] k.type = "ec" -> [md : Names \cup {Null}, size : {0, 20},
                           instance : {Null}, string : {Null}]
      [] k.type \in {"dsa", "oqs"} ->
            [md : Names, size : {0}, instance : {Null}, string : {Null}]
      [] OTHER -> {}

(* An initialization does not read the list of an OQS key, nor that of an EdDSA key whose
   digest it refuses. *)
InitParams(k, md) ==
    IF k.type = "oqs" \/ (Edwards(k) /\ md # Null) THEN {NoParams} ELSE ParamLists(k)

(* The initialization takes its reference first; libcrypto frees a context whose
   initialization failed, and that gives the reference back. *)
Begin(x, r) ==
    /\ ctx' = [ctx EXCEPT ![x] = IF r.ok THEN r.ctx ELSE Free]
    /\ refs' = [refs EXCEPT ![r.ctx.key] = IF r.ok THEN @ + 1 ELSE @]
    /\ UNCHANGED app

DigestInit(x) ==
    /\ ~Live(ctx[x])
    /\ \E k \in app, op \in {"sign", "verify"}, md \in Names \cup {Null} :
          /\ k.type # "ecx"
          /\ \E p \in InitParams(k, md) : Begin(x, digest_init(newctx(op, k), x, md, p))

DeriveInit(x) ==
    /\ ~Live(ctx[x])
    /\ \E k \in app : k.type \in {"ec", "ecx"} /\ Begin(x, Ok(newctx("derive", k)))

Drop(x, c) ==
    /\ ctx' = [y \in Ctxs |-> IF y = x THEN Free
                              ELSE IF Live(ctx[y]) /\ ctx[y].aid = x
                                   THEN [ctx[y] EXCEPT !.aid = Freed] ELSE ctx[y]]
    /\ refs' = [k \in Keys |-> refs[k] - Count({f \in {"key", "peer"} : c[f] = k})]

(* A digest context begins again with the key it has; an OQS context insists on one. *)
DigestReinit(x) ==
    /\ Digesting(ctx[x])
    /\ \E md \in Names \cup {Null} : \E p \in InitParams(ctx[x].key, md) :
          LET c == ctx[x]
              again == CASE c.key.type = "oqs" -> Fail(c)
                         [] Edwards(c.key) ->
                               IF md # Null THEN Fail(c) ELSE eddsa_set_ctx_params(c, p)
                         [] OTHER -> ecdsa_digest_init(c, x, md, p)
          IN IF again.ok THEN ctx' = [ctx EXCEPT ![x] = again.ctx] /\ UNCHANGED refs
             ELSE Drop(x, c)
    /\ UNCHANGED app

(* A refused list leaves the context to the application. *)
SetParams(x) ==
    /\ Live(ctx[x])
    /\ \E p \in ParamLists(ctx[x].key) :
          ctx' = [ctx EXCEPT ![x] = set_ctx_params(@, x, p).ctx]
    /\ UNCHANGED <<refs, app>>

Update(x) ==
    LET c == ctx[x] IN
    /\ Digesting(c) /\ Streams(c.key) /\ c.fed < MaxChunks
    /\ IF c.mdctx # NoStream
       THEN /\ ~c.mdctx.done
            /\ ctx' = [ctx EXCEPT ![x].mdctx.n = @ + 1, ![x].fed = @ + 1,
                                  ![x].allow = IF c.key.type = "oqs" THEN FALSE ELSE @]
       ELSE /\ c.key.type = "oqs"
            /\ ctx' = [ctx EXCEPT ![x].data = @ + 1, ![x].fed = @ + 1, ![x].allow = FALSE]
    /\ UNCHANGED <<refs, app>>

(* A final call without a buffer only gives the size, and unlocks the digest. *)
SizeQuery(x) ==
    LET c == ctx[x] IN
    /\ Digesting(c) /\ c.op = "sign" /\ Streams(c.key)
    /\ c.key.type = "oqs" \/ c.mdctx # NoStream
    /\ ctx' = [ctx EXCEPT ![x].allow = TRUE]
    /\ UNCHANGED <<refs, app>>

Final(x) ==
    LET c == ctx[x] IN
    /\ Digesting(c) /\ Streams(c.key)
    /\ \/ /\ Finalizes(c)
          /\ ctx' = [ctx EXCEPT ![x].allow = TRUE, ![x].mdctx.done = TRUE]
       \/ /\ c.key.type = "oqs" /\ c.mdctx = NoStream /\ c.op = "sign"
          /\ ctx' = [ctx EXCEPT ![x].allow = TRUE]
    /\ UNCHANGED <<refs, app>>

ecdh_set_peer_NoUpRef(x) ==
    LET c == ctx[x] IN
    /\ Live(c) /\ c.op = "derive"
    /\ \E k \in app :
          /\ k.type = c.key.type
          /\ ctx' = [ctx EXCEPT ![x].peer = k]
          /\ refs' = [n \in Keys |-> refs[n] - (IF n = c.peer THEN 1 ELSE 0)]
    /\ UNCHANGED app

(* A peer of another curve is refused; a second peer replaces the first. *)
ecdh_set_peer(x) ==
    LET c == ctx[x] IN
    /\ Live(c) /\ c.op = "derive"
    /\ \E k \in app :
          /\ k.type = c.key.type
          /\ ctx' = [ctx EXCEPT ![x].peer = k]
          /\ refs' = [n \in Keys |-> refs[n] + (IF n = k THEN 1 ELSE 0)
                                             - (IF n = c.peer THEN 1 ELSE 0)]
    /\ UNCHANGED app

(* The identifier of a DSA, EC or EdDSA copy stays in the buffer of the original; an
   OQS context copies it. *)
dupctx(x, y) ==
    LET c == ctx[x] IN
    /\ Live(c) /\ ~Live(ctx[y])
    /\ ctx' = [ctx EXCEPT ![y] = [c EXCEPT !.aid = IF c.key.type = "oqs" /\ @ # Null THEN y ELSE @]]
    /\ refs' = [k \in Keys |-> refs[k] + Count({f \in {"key", "peer"} : c[f] = k})]
    /\ UNCHANGED app

freectx(x) == Live(ctx[x]) /\ Drop(x, ctx[x]) /\ UNCHANGED app

(* The application gives up its reference to a key. *)
FreeKey(k) ==
    /\ k \in app
    /\ app' = app \ {k} /\ refs' = [refs EXCEPT ![k] = @ - 1]
    /\ UNCHANGED ctx

Next ==
    \/ \E x \in Ctxs :
          \/ DigestInit(x) \/ DeriveInit(x) \/ DigestReinit(x) \/ SetParams(x)
          \/ Update(x) \/ SizeQuery(x) \/ Final(x) \/ ecdh_set_peer(x)
          \/ \E y \in Ctxs : dupctx(x, y)
          \/ freectx(x)
    \/ \E k \in Keys : FreeKey(k)

Spec == Init /\ [][Next]_vars
------------------------------------------------------------------------------
(* Contexts are free or hold a key; reference counts do not become negative. *)
TypeOK ==
    /\ app \subseteq Keys /\ refs \in [Keys -> Nat]
    /\ \A x \in Ctxs : Live(ctx[x]) =>
          /\ ctx[x].key \in Keys /\ ctx[x].peer \in Keys \cup {NoKey}
          /\ ctx[x].md \in Names \cup {Null} /\ ctx[x].fed \in 0 .. MaxChunks
          /\ ctx[x].aid \in Ctxs \cup {Null, Freed}
          /\ Digesting(ctx[x]) /\ Edwards(ctx[x].key) => OfCurve(ctx[x].key, ctx[x].instance)

(* A key object lives exactly as long as the application or a context holds it, as key
   or as peer, through failed initializations, copies and replaced peers. *)
RefsExact ==
    \A k \in Keys :
        refs[k] = Count({k} \cap app)
                  + Count({x \in Ctxs : Live(ctx[x]) /\ ctx[x].key = k})
                  + Count({x \in Ctxs : Live(ctx[x]) /\ ctx[x].peer = k})

Whole(c) == Signed(c) # NoSig => Signed(c) = [alg |-> c.md, n |-> c.fed]

(* What a DSA or ECDSA context signs at its end is the digest it names over all it was
   fed since its initialization. *)
WholeMessage ==
    \A x \in Ctxs : Digesting(ctx[x]) /\ ctx[x].key.type \in {"dsa", "ec"} => Whole(ctx[x])

(* What a context y of the key accepts of the EdDSA signatures that a context x makes. A
   key in software separates the instances and the strings. A key of the token does not:
   whatever instance and string it was asked for, what it signed without a prehash passes
   for a pure signature without a string, and nothing else it signs is ever accepted. *)
Accepts(y, x) ==
    IF x.key.place = "software"
    THEN y.instance = x.instance /\ y.string = x.string
    ELSE Pure(y) /\ y.string = Null /\ ~Prehash(x)

EdVerifies ==
    \A x, y \in {ctx[z] : z \in {w \in Ctxs : Digesting(ctx[w])}} :
        /\ Edwards(x.key) /\ y.key = x.key
        /\ ed25519_digest_sign(x) # NoSig
        => (ed25519_digest_verify(y, ed25519_digest_sign(x)) <=> Accepts(y, x))
=============================================================================
