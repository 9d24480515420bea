-------------------------------- MODULE PqcRef --------------------------------
(* What the bytes of a key stand for when its key pair is in the token (lunaPqcSig.c,
   lunaPqcKem.c, lunaCommon.c): generation writes labels into the private buffer, a
   search decodes them and looks for objects with these labels, and the reason kept
   beside the buffers says what the public key of an encapsulation is known from.

   Calls run one after the other here; KeyUse has their interleavings. Labels are made
   from random numbers, so a pair is named by a number, and an object is told by what it
   is: a handle of an object that is gone finds nothing. *)
EXTENDS Integers

CONSTANTS
    Keys,       \* keys that exist at a time
    Pairs,      \* key pairs that exist at a time, which are not 0 or -1
    MaxInit     \* bound on the initializations of the library

VARIABLES
    gen,        \* luna_count_c_init
    objs,       \* objects in the token
    kind,       \* the kind of all keys: those of two kinds do not meet
    key         \* the keys, each with its key context
vars == <<gen, objs, kind, key>>

Kinds == {"kem", "sig", "x25519", "ed25519"}
Ecx(k) == k \in {"x25519", "ed25519"}
IsKem(k) == k \in {"kem", "x25519"}

NoObj == [half |-> "none", p |-> 0, token |-> FALSE]
Object(half, p, token) == [half |-> half, p |-> p, token |-> token]

(* Public bytes: of a pair, none (0), or computed from a private half that is none. *)
Garbage == -1
NoBytes == [form |-> "null", p |-> 0]

NewKeyCtx == [magic |-> "zero", hw |-> TRUE, hPrivate |-> NoObj, hPublic |-> NoObj,
              count |-> 0, reason |-> "zero"]
Key(kd, bytes, pub) == [kind |-> kd, bytes |-> bytes, pub |-> pub, ctx |-> NewKeyCtx]
Free == Key("free", NoBytes, 0)
KeyFor(kd, bytes, pub, reason) ==
    [Key(kd, bytes, pub) EXCEPT !.ctx.reason = IF Ecx(kd) THEN @ ELSE reason]

Init == gen = 1 /\ objs = {} /\ kind \in Kinds /\ key = [k \in Keys |-> Free]

(* Random labels are new. *)
New == Pairs \ ({o.p : o \in objs}
                \cup UNION {{key[k].bytes.p, key[k].pub, key[k].ctx.hPrivate.p, key[k].ctx.hPublic.p} :
                            k \in Keys})
------------------------------------------------------------------------------
(* LunaPqcEncodeTemplate, LunaPqcDecodeTemplate. A private buffer of 64 bytes or more
   takes both labels (version 1), a shorter one a magic number and the private label
   (version 2), from which the public one is made. What is none of these is a key. *)
Labels(private, public) == [private |-> private, public |-> public]
Undecodable == Labels(0, 0)

EncodeTemplateV1(p) == [form |-> "v1", p |-> p]
EncodeTemplateV2(p) == [form |-> "v2", p |-> p]
EncodeTemplate(kd, p) == IF Ecx(kd) THEN EncodeTemplateV2(p) ELSE EncodeTemplateV1(p)

(* Mutant: the label is taken as it is for the public half too. *)
DecodeTemplateV2_NotRenamed(bytes) ==
    IF bytes.form = "v2" THEN Labels(bytes.p, 0) ELSE Undecodable

DecodeTemplateV2(bytes) ==
    IF bytes.form = "v2" THEN Labels(bytes.p, bytes.p) ELSE Undecodable

DecodeTemplateV1(bytes) ==
    IF bytes.form = "v1" THEN Labels(bytes.p, bytes.p) ELSE Undecodable

DecodeTemplate(kd, bytes) ==
    IF DecodeTemplateV2(bytes) # Undecodable THEN DecodeTemplateV2(bytes)
    ELSE IF Ecx(kd) THEN Undecodable ELSE DecodeTemplateV1(bytes)

(* LunaPqcGen: "KEM keys are never persisted". *)
TokenObject(kd) == IF IsKem(kd) THEN {FALSE} ELSE BOOLEAN

(* LunaFind looks for one object by its label. *)
Find(half, p) == {o \in objs : o.half = half /\ o.p = p}
------------------------------------------------------------------------------
(* LunaPqcFind: a buffer that cannot be decoded proves the key to be in software; the
   algorithm may not be one of the token's. *)
LunaPqcFind(r) ==
    LET labels == DecodeTemplate(r.kind, r.bytes)
        priv == Find("priv", labels.private)
        pub == Find("pub", labels.public)
        c == [r.ctx EXCEPT !.hw = TRUE, !.magic = "error"]
    IN  IF r.bytes.form = "null" THEN {c}
        ELSE IF labels = Undecodable THEN {[c EXCEPT !.hw = FALSE]}
        ELSE {c, [c EXCEPT !.count = 0]}
             \cup {[c EXCEPT !.magic = "ok", !.hPrivate = h[1], !.hPublic = h[2], !.count = gen] :
                      h \in priv \X pub}

(* The public half of a key of the token that was read as a private key only. *)
LunaEcxExportPublic(r) ==
    {r} \cup {[r EXCEPT !.pub = r.ctx.hPublic.p] : o \in objs \cap {r.ctx.hPublic}}

(* _LUNA_OQS_findobject_helper_pre and _post: search once, and again after another
   initialization of the library. Opening a context may fail. *)
Prepared(r) ==
    LET search == \/ r.ctx.magic = "zero"
                  \/ r.ctx.magic = "ok" /\ r.ctx.count # gen
        found == {[r EXCEPT !.ctx = c] : c \in LunaPqcFind(r)}
                 \cup {[r EXCEPT !.ctx.magic = "error"]}
    IN  IF ~search THEN {r}
        ELSE UNION {IF r.ctx.magic = "zero" /\ Ecx(r.kind) /\ f.ctx.magic = "ok"
                    THEN LunaEcxExportPublic(f) ELSE {f} : f \in found}

(* A private key operation, or a verification. *)
Operate(k) ==
    /\ key[k].kind # "free"
    /\ \E r \in Prepared(key[k]) : key' = [key EXCEPT ![k] = r]
    /\ UNCHANGED <<gen, objs>>

(* Public bytes that came from outside are imported before the first encapsulation; with
   the shim they go along with each. The objects of a generated pair serve as they are. *)
Outside == {"set_params", "from_data", "from_encoding"}

LunaPqcKemEncap(k, firmware) ==
    /\ key[k].kind = "kem"
    /\ \E r \in Prepared(key[k]) :
          /\ r.ctx.magic = "ok" /\ r.ctx.hPublic # NoObj
          /\ r.ctx.reason \in Outside \cup {"create", "gen"}
          /\ LET o == Object("created", r.pub, FALSE)
             IN  IF firmware /\ r.ctx.reason \in Outside
                 THEN /\ objs' = objs \cup {o}
                      /\ key' = [key EXCEPT ![k] = [r EXCEPT !.ctx.hPublic = o,
                                                             !.ctx.reason = "create"]]
                 ELSE UNCHANGED objs /\ key' = [key EXCEPT ![k] = r]
    /\ UNCHANGED gen

(* A key context of its own looks for the public half of a private key that was read; the
   store tries once more. *)
luna_prov_ecx_fix_public(r) ==
    {r} \cup UNION {{[r EXCEPT !.pub = e.pub] : e \in LunaEcxExportPublic([r EXCEPT !.ctx = c])} :
                   c \in {d \in LunaPqcFind(r) : d.magic = "ok"}}
------------------------------------------------------------------------------
(* LUNA_OQS_keypair, luna_prov_ecx_sig_derive_private. Objects whose public half cannot be
   read stay in the token although the key is given up. *)
Generate(k) ==
    /\ key[k] = Free
    /\ \E p \in New, token \in TokenObject(kind), whole \in BOOLEAN :
          LET priv == Object("priv", p, token)
              pub == Object("pub", p, token)
              c == [magic |-> "ok", hw |-> TRUE, hPrivate |-> priv, hPublic |-> pub,
                    count |-> gen, reason |-> "gen"]
          IN  /\ objs' = objs \cup {priv, pub}
              /\ IF ~whole THEN UNCHANGED key
                 ELSE key' = [key EXCEPT ![k] =
                         [Key(kind, EncodeTemplate(kind, p), p) EXCEPT !.ctx = c]]
    /\ UNCHANGED gen

GenerateSoftware(k) ==
    /\ key[k] = Free
    /\ \E p \in New : key' = [key EXCEPT ![k] = Key(kind, [form |-> "key", p |-> p], p)]
    /\ UNCHANGED <<gen, objs>>

(* Reading an encoding of a key, and copying it. The encoding of a private ECX key has no
   public half: it is computed. Keys without a private half come from certificates. *)
Decode(k, j) ==
    /\ key[k] = Free /\ key[j].kind # "free"
    /\ \/ /\ key[j].bytes # NoBytes
          /\ LET unread == Ecx(key[j].kind) /\ key[j].bytes.form = "v2"
                 r == KeyFor(key[j].kind, key[j].bytes, IF unread THEN Garbage ELSE key[j].pub,
                             "from_encoding")
             IN  \E f \in IF unread THEN luna_prov_ecx_fix_public(r) ELSE {r} :
                    key' = [key EXCEPT ![k] = f]
       \/ key' = [key EXCEPT ![k] = KeyFor(key[j].kind, NoBytes, key[j].pub, "from_encoding")]
    /\ UNCHANGED <<gen, objs>>

Import(k, j) ==
    /\ key[k] = Free /\ key[j].kind # "free"
    /\ key' = [key EXCEPT ![k] = KeyFor(key[j].kind, key[j].bytes, key[j].pub, "from_data")]
    /\ UNCHANGED <<gen, objs>>

(* oqsx_set_params with the public bytes of a peer. *)
SetParams(k, p) ==
    /\ key[k].kind = "kem"
    /\ key' = [key EXCEPT ![k].pub = p, ![k].ctx.reason = "set_params"]
    /\ UNCHANGED <<gen, objs>>

(* Each operation context has a key context of its own for an ECX key. *)
NewContext(k) ==
    /\ Ecx(key[k].kind)
    /\ key' = [key EXCEPT ![k].ctx = NewKeyCtx]
    /\ UNCHANGED <<gen, objs>>

Release(k) ==
    /\ key[k].kind # "free"
    /\ key' = [key EXCEPT ![k] = Free]
    /\ UNCHANGED <<gen, objs>>

(* Objects go when someone deletes them, when their session is closed, or with the
   initialization of the library they were made in. *)
Gone(o) == objs' = objs \ {o} /\ UNCHANGED <<gen, key>>

Reinit == /\ gen < MaxInit
          /\ gen' = gen + 1
          /\ objs' = {o \in objs : o.token}
          /\ UNCHANGED key

Next ==
    /\ \/ \E k \in Keys :
             \/ Generate(k) \/ GenerateSoftware(k)
             \/ \E j \in Keys : Decode(k, j) \/ Import(k, j)
             \/ \E p \in Pairs : SetParams(k, p)
             \/ \E firmware \in BOOLEAN : LunaPqcKemEncap(k, firmware)
             \/ Operate(k) \/ NewContext(k) \/ Release(k)
       \/ \E o \in objs : Gone(o)
       \/ Reinit
    /\ UNCHANGED kind
Spec == Init /\ [][Next]_vars
------------------------------------------------------------------------------
Objects == [half : {"none", "priv", "pub", "created"}, p : Pairs \cup {0}, token : BOOLEAN]

TypeOK ==
    /\ gen \in 1..MaxInit /\ kind \in Kinds /\ objs \subseteq Objects \ {NoObj}
    /\ \A k \in Keys :
          LET r == key[k] c == r.ctx
          IN  /\ r.kind \in {kind, "free"} /\ r.pub \in Pairs \cup {0, Garbage}
              /\ r.bytes \in [form : {"null", "key", "v1", "v2"}, p : Pairs \cup {0}]
              /\ c.magic \in {"zero", "ok", "error"} /\ c.hw \in BOOLEAN
              /\ {c.hPrivate, c.hPublic} \subseteq Objects /\ c.count \in 0..MaxInit
              /\ c.reason \in Outside \cup {"zero", "gen", "create"}

(* A reference written at generation stays one however the key travels: it is never taken
   for a key in software, its pair is found while both halves are in the token, and the
   private operations of the key, and of no other, reach the private half. *)
ReferencesHold ==
    \A k \in Keys :
        LET r == key[k] IN
        /\ r.bytes.form \in {"v1", "v2"} =>
              /\ r.ctx.hw
              /\ {Object("priv", r.bytes.p, t) : t \in BOOLEAN} \cap objs # {}
                    /\ {Object("pub", r.bytes.p, t) : t \in BOOLEAN} \cap objs # {}
                 => \E c \in LunaPqcFind(r) : c.magic = "ok"
        /\ r.ctx.hPrivate # NoObj =>
              /\ r.bytes.form \in {"v1", "v2"}
              /\ r.ctx.hPrivate.half = "priv" /\ r.ctx.hPrivate.p = r.bytes.p

(* What is encapsulated in the token is encapsulated to the public key whose bytes the key
   holds, although the handle beside them may be of the pair the key was made with, or of
   a peer it held before. *)
EncapsulatesToBytes ==
    \A k \in Keys :
        LET c == key[k].ctx IN
        key[k].kind = "kem" /\ c.magic = "ok" /\ c.count = gen /\ c.reason \in {"gen", "create"}
            => c.hPublic.p = key[k].pub
==============================================================================
