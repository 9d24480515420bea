------------------------------- MODULE OqsKey -------------------------------
(* The keys of the oqs part of the provider (oqsprov_keys.c, oqs_kmgmt.c,
   oqs_encode_key2any.c), and what oqs_kem.c and oqs_sig.c do with them.

   A key has a post-quantum part, and hybrid and composite keys have a classical one.
   Both halves of a key are buffers in which the parts lie one after the other; the
   classical part of a private buffer may be shorter than the space it has. Pointers
   into the buffers, and an EVP_PKEY of the classical part, are kept beside them. The
   models of the key lock and of the use of a key (KeyLock, KeyUse) say where the
   post-quantum part is and who may look at it. *)
EXTENDS Integers, Sequences, FiniteSets

CONSTANTS
    Keys,       \* key objects that exist at a time
    Pairs,      \* key pairs generated, a set of numbers
    Faults      \* parts whose generation may fail: a subset of {"classic", "pq"}

VARIABLES
    alg,        \* the algorithm: keys of two algorithms do not meet
    key         \* the key objects
vars == <<alg, key>>

Algs == {"mlkem", "p256_mlkem", "x25519_mlkem", "falcon512", "p256_falcon512",
         "rsa3072_falcon512", "mldsa44_rsa2048", "mldsa65_ed25519"}
Kem == alg \in {"mlkem", "p256_mlkem", "x25519_mlkem"}
Composite == alg \in {"mldsa44_rsa2048", "mldsa65_ed25519"}
Single == alg \in {"mlkem", "falcon512"}
Hybrid == ~Single /\ ~Composite
Rsa == alg \in {"rsa3072_falcon512", "mldsa44_rsa2048"}

(* Hybrid keys store the classical part first, composite keys in the order of their name. *)
numkeys == IF Single THEN 1 ELSE 2
Pq == IF Hybrid THEN 2 ELSE 1
Classic == IF Hybrid THEN 1 ELSE 2

(* A buffer is a sequence of cells. Four bytes of a length are one, and parts have
   different sizes. Only the private parts of RSA keys vary in length. *)
LengthSize == 1
PartSize == [cpub |-> 2, cpriv |-> 3, qpub |-> 1, qpriv |-> 2]
Actual(kind, p) == PartSize[kind] - (IF kind = "cpriv" /\ Rsa THEN p % 2 ELSE 0)
Part(kind, p) == [i \in 1..Actual(kind, p) |-> <<kind, p, i>>]
Length(n) == <<"length", n, 0>>
Zeros(n) == [i \in 1..n |-> <<"zero", 0, 0>>]
Write(buf, at, s) ==
    [i \in 1..Len(buf) |-> IF i \in at..(at + Len(s) - 1) THEN s[i - at + 1] ELSE buf[i]]
Slice(buf, at, n) == SubSeq(buf, at, at + n - 1)

(* The pair whose part is at a place, or 0; encodings say themselves where they end. *)
Holds(buf, at, kind) ==
    LET ps == {p \in Pairs : /\ at >= 1 /\ at + Actual(kind, p) - 1 <= Len(buf)
                             /\ Slice(buf, at, Actual(kind, p)) = Part(kind, p)}
    IN  IF ps = {} THEN 0 ELSE CHOOSE p \in ps : TRUE

Size(classic, pq) ==
    PartSize[pq] + (IF Single THEN 0 ELSE PartSize[classic]) + (IF Hybrid THEN LengthSize ELSE 0)
pubkeylen == Size("cpub", "qpub")
privkeylen == Size("cpriv", "qpriv")

(* Pointers: 0 is NULL, and Stray points to no part of the buffer. *)
Null == <<>>
Stray == -1
NoEvp == [of |-> 0, private |-> FALSE]
Free == [of |-> 0]
oqsx_key_new ==
    [of |-> 0, pub |-> Null, priv |-> Null, comp_pub |-> <<Stray, Stray>>,
     comp_priv |-> <<Stray, Stray>>, classical |-> NoEvp, cmplen |-> PartSize["cpriv"]]
Live(x) == key[x] # Free
------------------------------------------------------------------------------
(* Layout of the buffers. *)
Offsets(buf, first) ==
    IF buf = Null THEN <<0, 0>>
    ELSE IF Single THEN <<1, 0>>
    ELSE IF Composite THEN <<1, 1 + first>>
    ELSE <<1 + LengthSize, 1 + LengthSize + buf[1][2]>>

oqsx_key_set_composites(k) ==
    [k EXCEPT !.comp_priv = Offsets(k.priv, PartSize["qpriv"]),
              !.comp_pub = Offsets(k.pub, PartSize["qpub"])]

oqsx_key_allocate_keymaterial(k, private) ==
    IF private
    THEN IF k.priv # Null THEN k
         ELSE [k EXCEPT !.priv = Zeros(privkeylen + IF Composite THEN 0 ELSE LengthSize)]
    ELSE IF k.pub # Null THEN k ELSE [k EXCEPT !.pub = Zeros(pubkeylen)]

(* The EVP_PKEY of the classical part is made again from its encoding, and the public
   half of that part from the private one; an object that has no public half still has
   none (the encoding goes to a buffer that is lost). *)
FromPublic(k) == Holds(k.pub, k.comp_pub[Classic], "cpub")
FromPrivate(k) == Holds(k.priv, k.comp_priv[Classic], "cpriv")
oqsx_key_recreate_classickey(k, op) ==
    IF Single THEN k
    ELSE IF op = "public"
    THEN IF FromPublic(k) = 0 THEN Free
         ELSE [k EXCEPT !.classical = [of |-> FromPublic(k), private |-> FALSE]]
    ELSE IF FromPrivate(k) = 0 THEN Free
         ELSE [k EXCEPT !.classical = [of |-> FromPrivate(k), private |-> TRUE],
                        !.pub = Write(k.pub, k.comp_pub[Classic], Part("cpub", FromPrivate(k)))]
------------------------------------------------------------------------------
(* Encodings: lists of octet strings, one for a single or hybrid key and one for each
   part of a composite key. A private encoding ends with the public post-quantum part. *)
oqsx_spki_pub_to_der(k) ==
    IF ~Composite THEN <<k.pub>>
    ELSE <<Slice(k.pub, k.comp_pub[Pq], PartSize["qpub"]),
           Slice(k.pub, k.comp_pub[Classic], PartSize["cpub"])>>

RealLength(buf, at) == Actual("cpriv", Holds(buf, at, "cpriv"))
CompositeParts(k) ==
    LET qpub == Slice(k.pub, k.comp_pub[Pq], PartSize["qpub"])
        n == IF Rsa THEN RealLength(k.priv, k.comp_priv[Classic]) ELSE k.cmplen
    IN  <<Slice(k.priv, k.comp_priv[Pq], PartSize["qpriv"]) \o qpub,
          Slice(k.priv, k.comp_priv[Classic], n)>>
oqsx_pki_priv_to_der(k) ==
    LET unused == IF Single THEN 0 ELSE PartSize["cpriv"] - k.priv[1][2]
        qpub == Slice(k.pub, k.comp_pub[Pq], PartSize["qpub"])
    IN  IF Composite THEN CompositeParts(k)
        ELSE <<SubSeq(k.priv, 1, privkeylen - unused) \o qpub>>

(* Decoding. A result without a key is Free. *)
Finish(k, op) == oqsx_key_recreate_classickey(oqsx_key_set_composites(k), op)

oqsx_key_from_x509pubkey(der) ==
    LET p == IF Composite THEN der[1] \o der[2] ELSE der[1]
    IN  IF Len(p) # pubkeylen THEN Free ELSE Finish([oqsx_key_new EXCEPT !.pub = p], "public")

(* A composite key: the parts are taken apart, and the classical one keeps its length. *)
Op_private_composite(p, plen) ==
    LET with == plen = privkeylen + PartSize["qpub"]
        at == PartSize["qpriv"] + 1
        rest == at + (IF with THEN PartSize["qpub"] ELSE 0)
        real == IF Rsa THEN RealLength(p, rest) ELSE PartSize["cpriv"]
        priv == SubSeq(p, 1, at - 1) \o Slice(p, rest, real)
        new == oqsx_key_allocate_keymaterial(oqsx_key_new, TRUE)
        pub == oqsx_key_allocate_keymaterial(new, FALSE).pub
    IN  IF plen # privkeylen /\ ~with THEN Free
        ELSE [new EXCEPT !.priv = Write(new.priv, 1, priv), !.cmplen = real,
                         !.pub = IF with THEN Write(pub, 1, Slice(p, at, PartSize["qpub"]))
                                 ELSE Null]

Op_private(p) ==
    LET actual == privkeylen - (IF Single THEN 0 ELSE PartSize["cpriv"] - p[1][2])
        at == IF Single THEN 1 ELSE 1 + LengthSize + PartSize["cpub"]
        new == oqsx_key_allocate_keymaterial(
                   oqsx_key_allocate_keymaterial(oqsx_key_new, TRUE), FALSE)
        pub == IF Single THEN new.pub ELSE Write(new.pub, 1, <<Length(PartSize["cpub"])>>)
    IN  IF Len(p) # actual + PartSize["qpub"] THEN Free
        ELSE [new EXCEPT !.priv = Write(new.priv, 1, SubSeq(p, 1, actual)),
                         !.pub = Write(pub, at, SubSeq(p, actual + 1, Len(p)))]

oqsx_key_from_pkcs8(der) ==
    LET p == IF Composite THEN der[1] \o der[2] ELSE der[1]
        key_diff == IF Composite /\ Rsa THEN PartSize["cpriv"] - Len(der[2]) ELSE 0
        k == IF Composite THEN Op_private_composite(p, Len(p) + key_diff) ELSE Op_private(p)
    IN  IF k = Free THEN Free ELSE Finish(k, "private")
------------------------------------------------------------------------------
(* Operations. An object is made by generating, decoding or importing it; of, which no
   code reads, says which pair it was made of. *)
Has(x, halves) == Live(x) /\ \A h \in halves : key[x][h] # Null
Makes(x, k, p) == ~Live(x) /\ key' = [key EXCEPT ![x] = IF k = Free THEN k ELSE [k EXCEPT !.of = p]]

Generated(k, p, kind) ==
    LET half == IF kind \in {"cpub", "qpub"} THEN "pub" ELSE "priv"
        i == IF kind \in {"cpub", "cpriv"} THEN Classic ELSE Pq
        at == IF half = "pub" THEN k.comp_pub[i] ELSE k.comp_priv[i]
    IN  [k EXCEPT ![half] = Write(k[half], at, Part(kind, p))]

(* The classical part of a hybrid key is written before the pointers are known. *)
lunax_oqsx_key_gen_evp_key(k, p) ==
    LET parts == [pub |-> Part("cpub", p), priv |-> Part("cpriv", p)]
        With(half) == Write(k[half], 1, <<Length(Len(parts[half]))>> \o parts[half])
        encoded == IF Composite THEN Generated(Generated(k, p, "cpub"), p, "cpriv")
                   ELSE oqsx_key_set_composites(
                            [k EXCEPT !.pub = With("pub"), !.priv = With("priv")])
    IN  [encoded EXCEPT !.classical = [of |-> p, private |-> TRUE]]

lunax_oqsx_key_gen_oqs_ndx(k, p) == Generated(Generated(k, p, "qpub"), p, "qpriv")

(* A failure of the post-quantum part is an error, and the object is lost to its caller.
   When the classical part fails, the return code still is that of the step before. *)
oqsx_key_gen(p, fault) ==
    LET new == oqsx_key_allocate_keymaterial(
                   oqsx_key_allocate_keymaterial(oqsx_key_new, FALSE), TRUE)
        placed == oqsx_key_set_composites(new)
    IN  IF fault = "pq" THEN Free
        ELSE IF Single THEN lunax_oqsx_key_gen_oqs_ndx(placed, p)
        ELSE IF Hybrid
        THEN IF fault = "classic" THEN new
             ELSE lunax_oqsx_key_gen_oqs_ndx(lunax_oqsx_key_gen_evp_key(new, p), p)
        ELSE LET k == lunax_oqsx_key_gen_oqs_ndx(placed, p)
             IN  IF fault = "classic" THEN k ELSE lunax_oqsx_key_gen_evp_key(k, p)

Gen(x, p, fault) ==
    /\ \A y \in Keys : key[y].of # p
    /\ Single => fault # "classic"
    /\ Makes(x, oqsx_key_gen(p, fault), p)
    /\ UNCHANGED alg

DecodePublic(x, y) ==
    /\ Has(y, {"pub"})
    /\ Makes(x, oqsx_key_from_x509pubkey(oqsx_spki_pub_to_der(key[y])), key[y].of)
    /\ UNCHANGED alg
DecodePrivate(x, y) ==
    /\ Has(y, {"pub", "priv"})
    /\ Makes(x, oqsx_key_from_pkcs8(oqsx_pki_priv_to_der(key[y])), key[y].of)
    /\ UNCHANGED alg

(* Import of what y exports into a new object. The list has the public half, if there is
   one, and the private half if that is asked for; an application may also give a list
   with the private half only. *)
Lists == {{"pub"}, {"priv"}, {"pub", "priv"}}
oqsx_key_to_params(k, list) ==
    [pub |-> IF "pub" \in list THEN k.pub ELSE Null,
     priv |-> IF "priv" \in list THEN SubSeq(k.priv, 1, privkeylen) ELSE Null]
oqsx_key_fromdata(params) ==
    LET wrong == \/ params.priv # Null /\ Len(params.priv) # privkeylen
                 \/ params.pub # Null /\ Len(params.pub) # pubkeylen
    IN  IF wrong THEN Free
        ELSE Finish([oqsx_key_new EXCEPT !.pub = params.pub, !.priv = params.priv],
                    IF params.priv # Null THEN "private" ELSE "public")
oqsx_import(x, y, list) ==
    /\ Has(y, list)
    /\ Makes(x, oqsx_key_fromdata(oqsx_key_to_params(key[y], list)), key[y].of)
    /\ UNCHANGED alg

(* The public half of y as a key share, and x that is given it: hybrid key shares have no
   length, and those of x25519 the post-quantum part first. The private half goes, the
   pointers into it and the EVP_PKEY stay. *)
Reversed == alg = "x25519_mlkem"
LUNA_PARAM_set_encoded_public_key(s) ==
    IF ~Reversed THEN s
    ELSE SubSeq(s, PartSize["cpub"] + 1, Len(s)) \o SubSeq(s, 1, PartSize["cpub"])
LUNA_PARAM_get_encoded_public_key_asIs(s) == s  \* mutant: the parts stay in order
LUNA_PARAM_get_encoded_public_key(s) ==
    LET rest == Len(s) - PartSize["cpub"]
    IN  IF ~Reversed THEN s ELSE SubSeq(s, rest + 1, Len(s)) \o SubSeq(s, 1, rest)
oqsx_get_params(k) ==
    IF Single THEN k.pub
    ELSE LUNA_PARAM_set_encoded_public_key(SubSeq(k.pub, 1 + LengthSize, pubkeylen))

(* An object without a public half gets a buffer for the share: for a single key that is
   its public half, which the pointers do not lead to, for a hybrid one only the pointer
   to its classical part. *)
Given(k, share) ==
    IF Single THEN [k EXCEPT !.pub = share]
    ELSE IF k.pub = Null THEN [k EXCEPT !.comp_pub = <<Stray, 0>>]
    ELSE [k EXCEPT !.pub = Write(k.pub, k.comp_pub[1], share)]
oqsx_set_params(x, y) ==
    LET share == LUNA_PARAM_get_encoded_public_key(oqsx_get_params(key[y]))
    IN  /\ Kem /\ x # y /\ Live(x) /\ Has(y, {"pub"})
        /\ key' = [key EXCEPT ![x] =
               [Given(key[x], share) EXCEPT !.priv = Null, !.comp_priv = <<Stray, Stray>>,
                                            !.of = key[y].of]]
        /\ UNCHANGED alg

oqsx_key_free(x) == Live(x) /\ key' = [key EXCEPT ![x] = Free] /\ UNCHANGED alg

(* Names are those of one algorithm. The private halves decide when they alone are asked
   for, or domain parameters are and one public half is missing. *)
SameBuffer(a, b, n) == a # Null /\ b # Null /\ SubSeq(a, 1, n) = SubSeq(b, 1, n)
SameIfAny(a, b, n) == (a = Null /\ b = Null) \/ SameBuffer(a, b, n)
oqsx_match(j, k, selection) ==
    IF "pub" \notin selection
    THEN "priv" \in selection => SameIfAny(j.priv, k.priv, privkeylen)
    ELSE IF (j.pub = Null) # (k.pub = Null)
    THEN "params" \in selection /\ SameBuffer(j.priv, k.priv, privkeylen)
    ELSE SameIfAny(j.pub, k.pub, pubkeylen)

Init == alg \in Algs /\ key = [x \in Keys |-> Free]
Next == \E x, y \in Keys :
           \/ \E p \in Pairs, fault \in Faults \cup {"none"} : Gen(x, p, fault)
           \/ DecodePublic(x, y)
           \/ DecodePrivate(x, y)
           \/ \E list \in Lists : oqsx_import(x, y, list)
           \/ oqsx_set_params(x, y)
           \/ oqsx_key_free(x)
Spec == Init /\ [][Next]_vars
------------------------------------------------------------------------------
(* Key encapsulation. The classical part is an agreement with a key of its own, whose
   public half is that part of the ciphertext. The secret names the pair it depends on. *)
Cells(kind, p, n) == [i \in 1..n |-> <<kind, p, i>>]
CtSize == [classic |-> PartSize["cpub"], pq |-> 3]
Fails == [ok |-> FALSE, ct |-> Null, secret |-> Null]
Join(classic, pq) == IF Reversed THEN pq \o classic ELSE classic \o pq

oqs_evp_kem_encaps_keyslot(k) ==
    LET c == Holds(k.pub, k.comp_pub[Classic], "cpub")
    IN  IF c = 0 THEN Fails
        ELSE [ok |-> TRUE, ct |-> Cells("ephemeral", 0, CtSize.classic),
              secret |-> Cells("agreed", c, 1)]
oqs_qs_kem_encaps_keyslot(k) ==
    LET q == Holds(k.pub, k.comp_pub[Pq], "qpub")
    IN  IF q = 0 THEN Fails
        ELSE [ok |-> TRUE, ct |-> Cells("ct", q, CtSize.pq), secret |-> Cells("secret", q, 2)]
oqs_hyb_kem_encaps(k) ==
    LET e == oqs_evp_kem_encaps_keyslot(k)
        q == oqs_qs_kem_encaps_keyslot(k)
    IN  IF ~e.ok \/ ~q.ok THEN Fails
        ELSE [ok |-> TRUE, ct |-> Join(e.ct, q.ct), secret |-> Join(e.secret, q.secret)]
Encaps(k) == IF Single THEN oqs_qs_kem_encaps_keyslot(k) ELSE oqs_hyb_kem_encaps(k)

(* Decapsulation of what is no ciphertext of this key gives a secret of its own. *)
oqs_evp_kem_decaps_keyslot(k, ct) ==
    LET c == Holds(k.priv, k.comp_priv[Classic], "cpriv")
    IN  IF c = 0 \/ ct # Cells("ephemeral", 0, CtSize.classic) THEN Fails
        ELSE [ok |-> TRUE, ct |-> ct, secret |-> Cells("agreed", c, 1)]
oqs_qs_kem_decaps_keyslot(k, ct) ==
    LET q == Holds(k.priv, k.comp_priv[Pq], "qpriv")
        mine == ct = Cells("ct", q, CtSize.pq)
    IN  IF q = 0 \/ Len(ct) # CtSize.pq THEN Fails
        ELSE [ok |-> TRUE, ct |-> ct,
              secret |-> Cells(IF mine THEN "secret" ELSE "rejected", q, 2)]
oqs_hyb_kem_decaps(k, ct) ==
    LET first == IF Reversed THEN CtSize.pq ELSE CtSize.classic
        halves == <<SubSeq(ct, 1, first), SubSeq(ct, first + 1, Len(ct))>>
        e == oqs_evp_kem_decaps_keyslot(k, halves[IF Reversed THEN 2 ELSE 1])
        q == oqs_qs_kem_decaps_keyslot(k, halves[IF Reversed THEN 1 ELSE 2])
    IN  IF Len(ct) # CtSize.classic + CtSize.pq \/ ~e.ok \/ ~q.ok THEN Fails
        ELSE [ok |-> TRUE, ct |-> ct, secret |-> Join(e.secret, q.secret)]
Decaps(k, ct) == IF Single THEN oqs_qs_kem_decaps_keyslot(k, ct) ELSE oqs_hyb_kem_decaps(k, ct)

(* Signatures of one message: a hybrid one is the length of the classical signature,
   that signature and the post-quantum one, a composite one a list of both. What each
   part signs is in its cells: the message, its digest by the level of the algorithm, or
   the name of the composite algorithm with a digest, which most classical parts digest
   once more. *)
PreHash == IF alg = "mldsa65_ed25519" THEN "sha512" ELSE "sha256"
PqTbs == IF Composite THEN <<alg, PreHash>> ELSE <<"message">>
ClassicTbs == IF Hybrid THEN <<"sha256">>
              ELSE IF alg = "mldsa65_ed25519" THEN PqTbs ELSE PqTbs \o <<"sha256">>
ClassicSigLen(p) == IF alg = "p256_falcon512" THEN 1 + (p % 2) ELSE 2
ClassicSig(p) == Cells(<<"classic signature", ClassicTbs>>, p, ClassicSigLen(p))
PqSig(p) == Cells(<<"signature", PqTbs>>, p, 3)

HybridSignature(c, q) == <<Length(Len(c))>> \o c \o q
CompositeSignature(c, q) == <<q, c>>
oqs_sig_sign(k) ==
    LET q == PqSig(Holds(k.priv, k.comp_priv[Pq], "qpriv"))
        c == ClassicSig(k.classical.of)
    IN  IF Single THEN q ELSE IF Composite THEN CompositeSignature(c, q) ELSE HybridSignature(c, q)

VerifyHybrid(sig, c, q) ==
    LET n == sig[1][2] IN SubSeq(sig, 2, n + 1) = c /\ SubSeq(sig, n + 2, Len(sig)) = q
VerifyComposite(sig, c, q) == sig[1] = q /\ sig[2] = c
oqs_sig_verify(k, sig) ==
    LET q == PqSig(Holds(k.pub, k.comp_pub[Pq], "qpub"))
        c == ClassicSig(k.classical.of)
    IN  IF Single THEN sig = q
        ELSE IF Composite THEN VerifyComposite(sig, c, q) ELSE VerifyHybrid(sig, c, q)
------------------------------------------------------------------------------
(* Properties. Combined takes the classical part of one signature and the post-quantum
   part of another. *)
Signs(x) == ~Kem /\ Has(x, {"priv"})
Combined(s, t) ==
    IF Single THEN t
    ELSE IF Composite THEN <<t[1], s[2]>>
    ELSE SubSeq(s, 1, s[1][2] + 1) \o SubSeq(t, t[1][2] + 2, Len(t))

(* The state has its type: buffers have the length of their algorithm. *)
TypeOK ==
    /\ alg \in Algs
    /\ \A x \in Keys : Live(x) =>
           /\ key[x].of \in Pairs /\ key[x].classical.of \in Pairs \cup {0}
           /\ key[x].pub = Null \/ Len(key[x].pub) = pubkeylen
           /\ key[x].priv = Null \/ Len(key[x].priv) >= privkeylen
           /\ key[x].cmplen \in 1..PartSize["cpriv"]

(* Both parts of a pair count, wherever its keys came from: generated, decoded, imported
   or given a key share. Who encapsulates to a public key and who decapsulates with a
   private one have the same secret exactly when the keys are of one pair, and only a
   share that was set in an object without a public half is useless; a signature
   is good only when both of its parts are of the pair that verifies, so parts of two
   signatures do not make a third one. *)
BothPartsCount ==
    /\ Kem => \A x, y \in Keys : Has(x, {"pub"}) /\ Has(y, {"priv"}) =>
           LET e == Encaps(key[x])
               d == Decaps(key[y], e.ct)
           IN  /\ e.ok <=> key[x].comp_pub[Pq] # 0
               /\ e.ok => d.ok /\ (e.secret = d.secret <=> key[x].of = key[y].of)
    /\ \A x, y, z \in Keys : Signs(x) /\ Signs(z) /\ Has(y, {"pub"}) =>
           (oqs_sig_verify(key[y], Combined(oqs_sig_sign(key[x]), oqs_sig_sign(key[z])))
            <=> key[y].of = key[z].of /\ (Single \/ key[y].of = key[x].of))

(* EVP_PKEY_eq takes two objects for one key exactly when they have the same half of one
   pair, and also when neither has a public half: the private halves are not looked at
   then. They decide when nothing else is asked for. *)
EqualIsSame ==
    \A x, y \in Keys : Live(x) /\ Live(y) =>
        LET Both(half) == Has(x, {half}) /\ Has(y, {half})
            Neither(half) == ~Has(x, {half}) /\ ~Has(y, {half})
            asked == {"params", "pub"} \cup (IF Both("pub") THEN {} ELSE {"priv"})
            same == key[x].of = key[y].of
        IN  /\ oqsx_match(key[x], key[y], asked)
               <=> Neither("pub") \/ (same /\ (Both("pub") \/ Both("priv")))
            /\ oqsx_match(key[x], key[y], {"priv"}) <=> Neither("priv") \/ (same /\ Both("priv"))

(* A key of two parts that its maker was given has both: what the comment of oqsx_key_gen
   says it does, "allocates OQS and classical keys". *)
GeneratedWhole == \A x \in Keys : Live(x) /\ ~Single => key[x].classical # NoEvp
=============================================================================
