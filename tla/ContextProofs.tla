---------------------------- MODULE ContextProofs ----------------------------
(***************************************************************************)
(* Proofs about Contexts, for any finite set of contexts and any keys,     *)
(* digests and parameter lists of the kinds it declares.                   *)
(*                                                                         *)
(* The three kinds share no state, so the invariant has a part for each.   *)
(* EncInv says that a live encryption context has an RSA key and a padding *)
(* that encrypts, and that the references to a key are the application's   *)
(* and one for each context that holds it.  OpInv counts the references of *)
(* the other keys the same way, and adds that a stream which may still be  *)
(* finished is of the digest its context names and has every chunk.        *)
(* SigInv says that of an RSA context too.  What makes the restrictions of *)
(* an RSA-PSS key inductive is mgf1Set (SigRestricted): it is set before   *)
(* the minimum of the key takes effect, so that no digest named later      *)
(* brings its own mask function.                                           *)
(***************************************************************************)
EXTENDS Contexts, FiniteSetTheorems, TLAPS
------------------------------------------------------------------------------
(* RSA encryption. *)

EncContext == [op : {"encrypt", "decrypt"}, key : EncKeys, pad : X!Pads \cup {X!Null},
               oaep : X!Digests \cup {X!Null}, mgf1 : X!Digests \cup {X!Null},
               label : {"label", X!Null}, version : 0 .. 1]

(* A live encryption context: the initialization left a key of type "rsa" and a padding
   that encrypts. *)
EncKept(c) == c \in EncContext /\ c.key.type = "rsa" /\ c.pad \in X!Pads \ {"pss"}

EncHolders(k) == {x \in Ctxs : X!Live(enc[x]) /\ enc[x].key = k}

EncInv ==
    /\ enc \in [Ctxs -> EncContext \cup {X!Free}]
    /\ \A x \in Ctxs : X!Live(enc[x]) => EncKept(enc[x])
    /\ held \in [EncKeys -> Nat]
    /\ \A k \in EncKeys : held[k] = 1 + Cardinality(EncHolders(k))

(* No live context is the free one. *)
LEMMA EncLive ==
    /\ ~X!Live(X!Free)
    /\ \A c \in EncContext : X!Live(c)
BY DEF X!Live, X!Free, EncContext

LEMMA EncCount == \A s : X!Count(s) = Cardinality(s)
BY DEF X!Count, X!Cardinality, Cardinality

(* Every step of a parameter list keeps a context well formed, whether it is refused or
   not. *)
LEMMA EncSetKeeps ==
    ASSUME NEW c \in EncContext, NEW p \in X!Params, EncKept(c)
    PROVE /\ X!rsa_set_ctx_params(c, p).ok \in BOOLEAN
          /\ EncKept(X!rsa_set_ctx_params(c, p).ctx)
          /\ X!rsa_set_ctx_params(c, p).ctx.key = c.key
          /\ X!rsa_set_ctx_params(c, p).ctx.op = c.op
<1> DEFINE a == X!SetOaep(c, p)
           b == X!SetPad(a, p)
           d == X!SetMgf1(b, p)
           e == X!SetRest(d, p)
<1>n. \A n : X!LUNAPROV_EVP_MD_fetch(n) \in X!Digests \cup {X!Null}
  BY DEF X!LUNAPROV_EVP_MD_fetch
<1>k. X!Null \notin X!Pads
  BY DEF X!Null, X!Pads
<1>p. /\ p.oaep \in X!Digests \cup {"nodigest", X!Null} /\ p.pad \in X!Pads \cup {X!Null}
      /\ p.mgf1 \in X!Digests \cup {"nodigest", X!Null} /\ p.label \in {"label", X!Null}
      /\ p.version \in 0 .. 1
  BY DEF X!Params
<1>a. a \in EncContext /\ a.key = c.key /\ a.op = c.op /\ a.pad = c.pad
  BY <1>n DEF X!SetOaep, EncContext
<1>b. ASSUME p.pad # "pss"
      PROVE b \in EncContext /\ b.key = c.key /\ b.op = c.op /\ b.pad \in X!Pads \ {"pss"}
  <2> HIDE DEF a
  <2>1. CASE p.pad = X!Null
    BY <2>1, <1>a DEF X!SetPad, EncKept
  <2>2. CASE p.pad # X!Null
    <3>1. b = [a EXCEPT !.pad = p.pad,
                        !.oaep = IF p.pad = "oaep" /\ @ = X!Null THEN "sha1" ELSE @]
      BY <2>2 DEF X!SetPad
    <3>2. "sha1" \in X!Digests
      BY DEF X!Digests
    <3> HIDE DEF b
    <3> QED BY <1>a, <1>b, <1>p, <2>2, <3>1, <3>2 DEF EncContext
  <2> QED BY <2>1, <2>2
<1>d. ASSUME p.pad # "pss"
      PROVE d \in EncContext /\ d.key = c.key /\ d.op = c.op /\ d.pad \in X!Pads \ {"pss"}
  <2> HIDE DEF a, b
  <2> QED BY <1>b, <1>d, <1>n DEF X!SetMgf1, EncContext
<1>e. ASSUME p.pad # "pss"
      PROVE e \in EncContext /\ e.key = c.key /\ e.op = c.op /\ e.pad \in X!Pads \ {"pss"}
  <2> HIDE DEF a, b, d
  <2> QED BY <1>d, <1>e, <1>p DEF X!SetRest, EncContext
<1> DEFINE r == X!rsa_set_ctx_params(c, p)
           Goal == /\ r.ok \in BOOLEAN /\ EncKept(r.ctx)
                   /\ r.ctx.key = c.key /\ r.ctx.op = c.op
<1>1. CASE (p.oaep # X!Null /\ a.oaep = X!Null) \/ p.pad = "pss"
  <2>1. r = [ok |-> FALSE, ctx |-> a]
    BY <1>1 DEF X!rsa_set_ctx_params
  <2> HIDE DEF a, r
  <2>2. r.ok = FALSE /\ r.ctx = a
    BY <2>1
  <2>3. Goal
    BY <1>a, <2>2 DEF EncKept
  <2> QED BY <2>3 DEF r
<1>2. CASE /\ ~((p.oaep # X!Null /\ a.oaep = X!Null) \/ p.pad = "pss")
           /\ p.mgf1 # X!Null /\ d.mgf1 = X!Null
  <2>1. r = [ok |-> FALSE, ctx |-> d]
    BY <1>2 DEF X!rsa_set_ctx_params
  <2> HIDE DEF a, b, d, r
  <2>2. r.ok = FALSE /\ r.ctx = d
    BY <2>1
  <2>3. Goal
    BY <1>d, <1>2, <2>2 DEF EncKept
  <2> QED BY <2>3 DEF r
<1>3. CASE /\ ~((p.oaep # X!Null /\ a.oaep = X!Null) \/ p.pad = "pss")
           /\ ~(p.mgf1 # X!Null /\ d.mgf1 = X!Null)
  <2>1. r = [ok |-> TRUE, ctx |-> e]
    BY <1>3 DEF X!rsa_set_ctx_params
  <2> HIDE DEF a, b, d, e, r
  <2>2. r.ok = TRUE /\ r.ctx = e
    BY <2>1
  <2>3. Goal
    BY <1>e, <1>3, <2>2 DEF EncKept
  <2> QED BY <2>3 DEF r
<1> HIDE DEF a, b, d, e
<1> QED BY <1>1, <1>2, <1>3

LEMMA EncInitKeeps ==
    ASSUME NEW k \in EncKeys, NEW p \in X!Params, NEW op \in {"encrypt", "decrypt"},
           X!rsa_init(op, k, p).ok
    PROVE EncKept(X!rsa_init(op, k, p).ctx) /\ X!rsa_init(op, k, p).ctx.key = k
<1> DEFINE new == [X!rsa_newctx EXCEPT !.op = op, !.key = k, !.pad = "pkcs1"]
<1>1. X!rsa_newctx \in [op : {"none"}, key : {X!Null}, pad : {X!Null}, oaep : {X!Null},
                         mgf1 : {X!Null}, label : {X!Null}, version : {0}]
  BY DEF X!rsa_newctx
<1>2. new \in EncContext /\ new.key = k /\ new.pad = "pkcs1"
  <2> DEFINE n == X!rsa_newctx
             t == [op : {"encrypt", "decrypt"}, key : EncKeys, pad : {"pkcs1"},
                   oaep : {X!Null}, mgf1 : {X!Null}, label : {X!Null}, version : {0}]
  <2>1. new = [n EXCEPT !.op = op, !.key = k, !.pad = "pkcs1"]
    OBVIOUS
  <2> HIDE DEF n, new
  <2>2. new \in t /\ new.key = k /\ new.pad = "pkcs1"
    BY <1>1, <2>1 DEF n
  <2>3. t \subseteq EncContext
    BY DEF EncContext, X!Pads
  <2> QED BY <2>2, <2>3
<1>3. X!rsa_init(op, k, p) = IF k.type # "rsa" THEN [ok |-> FALSE, ctx |-> new]
                             ELSE X!rsa_set_ctx_params(new, p)
  BY DEF X!rsa_init
<1> HIDE DEF new
<1>4. k.type = "rsa" /\ X!rsa_init(op, k, p) = X!rsa_set_ctx_params(new, p)
  BY <1>3
<1>5. EncKept(new)
  BY <1>2, <1>4 DEF EncKept, X!Pads
<1> QED BY <1>2, <1>4, <1>5, EncSetKeeps

(* The size of a set of which one element is looked at anew. *)
LEMMA OneChanged ==
    ASSUME NEW s, NEW t, NEW x, IsFiniteSet(s), IsFiniteSet(t), s \ {x} = t \ {x}
    PROVE /\ Cardinality(s) \in Nat /\ Cardinality(t) \in Nat
          /\ Cardinality(t) = Cardinality(s) + (IF x \in t THEN 1 ELSE 0)
                                             - (IF x \in s THEN 1 ELSE 0)
<1>1. Cardinality(s) \in Nat /\ Cardinality(t) \in Nat
  BY FS_CardinalityType
<1>2. CASE x \in s /\ x \notin t
  <2>1. t = s \ {x}
    BY <1>2
  <2> QED BY <1>1, <1>2, <2>1, FS_RemoveElement
<1>3. CASE x \notin s /\ x \in t
  <2>1. s = t \ {x}
    BY <1>3
  <2> QED BY <1>1, <1>3, <2>1, FS_RemoveElement
<1>4. CASE (x \in s) = (x \in t)
  <2>1. s = t
    BY <1>4
  <2> QED BY <1>1, <2>1
<1> QED BY <1>2, <1>3, <1>4

EncUse(c, k) == IF X!Live(c) /\ c.key = k THEN 1 ELSE 0

(* A context gets a new value, and the counts follow its key. *)
LEMMA EncReplaced ==
    ASSUME EncInv, NEW x \in Ctxs,
           enc' = [enc EXCEPT ![x] = enc'[x]],
           enc'[x] = X!Free \/ EncKept(enc'[x]),
           held' \in [EncKeys -> Int],
           \A k \in EncKeys : held'[k] = held[k] + EncUse(enc'[x], k) - EncUse(enc[x], k)
    PROVE EncInv'
<1>1. enc' \in [Ctxs -> EncContext \cup {X!Free}]
  BY DEF EncInv, EncKept
<1>2. \A y \in Ctxs : X!Live(enc'[y]) => EncKept(enc'[y])
  BY EncLive DEF EncInv
<1>3. ASSUME NEW k \in EncKeys
      PROVE held'[k] \in Nat /\ held'[k] = 1 + Cardinality(EncHolders(k)')
  <2> DEFINE s == EncHolders(k)
             t == {y \in Ctxs : X!Live(enc'[y]) /\ enc'[y].key = k}
  <2>1. IsFiniteSet(s) /\ IsFiniteSet(t)
    BY ContextsAssumption, FS_Subset DEF EncHolders
  <2>2. s \ {x} = t \ {x}
    <3>1. \A y \in Ctxs \ {x} : enc'[y] = enc[y]
      BY DEF EncInv
    <3> QED BY <3>1 DEF EncHolders
  <2>3. (x \in s) = (EncUse(enc[x], k) = 1) /\ (x \in t) = (EncUse(enc'[x], k) = 1)
    BY DEF EncHolders, EncUse
  <2>4. EncUse(enc[x], k) \in {0, 1} /\ EncUse(enc'[x], k) \in {0, 1}
    BY DEF EncUse
  <2>5. held[k] \in Nat /\ held[k] = 1 + Cardinality(s)
    BY DEF EncInv
  <2>6. held'[k] = held[k] + EncUse(enc'[x], k) - EncUse(enc[x], k)
    OBVIOUS
  <2>7. EncHolders(k)' = t
    BY DEF EncHolders
  <2> HIDE DEF s, t
  <2>8. /\ Cardinality(s) \in Nat /\ Cardinality(t) \in Nat
        /\ Cardinality(t) = Cardinality(s) + (IF x \in t THEN 1 ELSE 0)
                                           - (IF x \in s THEN 1 ELSE 0)
    BY <2>1, <2>2, OneChanged
  <2> QED BY <2>3, <2>4, <2>5, <2>6, <2>7, <2>8
<1>4. held' \in [EncKeys -> Nat]
  BY <1>3
<1> QED BY <1>1, <1>2, <1>3, <1>4 DEF EncInv

LEMMA EncInvInit == X!Init => EncInv
<1> SUFFICES ASSUME X!Init PROVE EncInv
  OBVIOUS
<1>1. \A x \in Ctxs : ~X!Live(enc[x])
  BY EncLive DEF X!Init
<1>2. \A k \in EncKeys : EncHolders(k) = {}
  BY <1>1 DEF EncHolders
<1> QED BY <1>1, <1>2, FS_EmptySet DEF EncInv, X!Init

LEMMA EncInvStep == EncInv /\ [X!Next]_(X!vars) => EncInv'
<1> SUFFICES ASSUME EncInv, [X!Next]_(X!vars) PROVE EncInv'
  OBVIOUS
<1> USE DEF EncUse
<1>l. \A k \in EncKeys : X!Lists(k) \subseteq X!Params
  BY ContextsAssumption DEF X!Lists
<1>1. ASSUME NEW x \in Ctxs, X!EncInit(x) PROVE EncInv'
  <2> PICK k \in EncKeys, op \in {"encrypt", "decrypt"} : \E p \in X!Lists(k) :
          LET r == X!rsa_init(op, k, p)
          IN /\ k.place = "engine" => op = "decrypt"
             /\ enc' = [enc EXCEPT ![x] = IF r.ok THEN r.ctx ELSE X!Free]
             /\ held' = [held EXCEPT ![k] = IF r.ok THEN @ + 1 ELSE @]
    BY <1>1 DEF X!EncInit
  <2> PICK p \in X!Lists(k) :
          LET r == X!rsa_init(op, k, p)
          IN /\ k.place = "engine" => op = "decrypt"
             /\ enc' = [enc EXCEPT ![x] = IF r.ok THEN r.ctx ELSE X!Free]
             /\ held' = [held EXCEPT ![k] = IF r.ok THEN @ + 1 ELSE @]
    OBVIOUS
  <2> DEFINE r == X!rsa_init(op, k, p)
  <2>1. r.ok => EncKept(r.ctx) /\ r.ctx.key = k
    BY <1>l, EncInitKeeps
  <2>2. enc'[x] = (IF r.ok THEN r.ctx ELSE X!Free) /\ enc' = [enc EXCEPT ![x] = enc'[x]]
    BY DEF EncInv
  <2>3. ~X!Live(enc[x])
    BY <1>1 DEF X!EncInit
  <2>4. held' = [held EXCEPT ![k] = IF r.ok THEN @ + 1 ELSE @]
    OBVIOUS
  <2> HIDE DEF r
  <2>5. enc'[x] = X!Free \/ EncKept(enc'[x])
    BY <2>1, <2>2
  <2>6. \A j \in EncKeys : EncUse(enc'[x], j) = (IF r.ok /\ j = k THEN 1 ELSE 0)
    <3>1. CASE r.ok
      BY <2>1, <2>2, <3>1, EncLive DEF EncKept
    <3>2. CASE ~r.ok
      BY <2>2, <3>2, EncLive
    <3> QED BY <3>1, <3>2
  <2>7. \A j \in EncKeys : EncUse(enc[x], j) = 0
    BY <2>3
  <2>8. /\ held' \in [EncKeys -> Int]
        /\ \A j \in EncKeys : held'[j] = held[j] + EncUse(enc'[x], j) - EncUse(enc[x], j)
    <3> HIDE DEF EncUse
    <3>1. \A j \in EncKeys : held'[j] = IF r.ok /\ j = k THEN held[j] + 1 ELSE held[j]
      BY <2>4 DEF EncInv
    <3>2. held \in [EncKeys -> Nat]
      BY DEF EncInv
    <3>3. held' \in [EncKeys -> Int]
      BY <2>4, <3>2
    <3>4. \A j \in EncKeys : held'[j] = held[j] + EncUse(enc'[x], j) - EncUse(enc[x], j)
      BY <2>6, <2>7, <3>1, <3>2
    <3> QED BY <3>3, <3>4
  <2> QED BY <2>2, <2>5, <2>8, EncReplaced
<1>2. ASSUME NEW x \in Ctxs, X!SetParams(x) PROVE EncInv'
  <2>1. X!Live(enc[x]) /\ EncKept(enc[x]) /\ enc[x] \in EncContext
    BY <1>2 DEF X!SetParams, EncInv, EncKept
  <2> PICK p \in X!Lists(enc[x].key) :
          enc' = [enc EXCEPT ![x] = X!rsa_set_ctx_params(@, p).ctx]
    BY <1>2 DEF X!SetParams
  <2>2. p \in X!Params
    BY <1>l, <2>1 DEF EncContext
  <2>3. enc'[x] = X!rsa_set_ctx_params(enc[x], p).ctx /\ enc' = [enc EXCEPT ![x] = enc'[x]]
    BY DEF EncInv
  <2>4. EncKept(enc'[x]) /\ enc'[x].key = enc[x].key
    BY <2>1, <2>2, <2>3, EncSetKeeps
  <2>5. /\ held' \in [EncKeys -> Int]
        /\ \A j \in EncKeys : held'[j] = held[j] + EncUse(enc'[x], j) - EncUse(enc[x], j)
    <3>1. X!Live(enc'[x]) /\ held' = held
      BY <1>2, <2>4, EncLive DEF EncKept, X!SetParams
    <3> QED BY <2>1, <2>4, <3>1 DEF EncInv
  <2> QED BY <2>3, <2>4, <2>5, EncReplaced
<1>3. ASSUME NEW x \in Ctxs, X!Crypt(x) PROVE EncInv'
  <2>1. X!Live(enc[x]) /\ EncKept(enc[x]) /\ enc' = [enc EXCEPT ![x].oaep = "sha1"] /\ held' = held
    BY <1>3 DEF X!Crypt, EncInv
  <2>2. enc'[x] = [enc[x] EXCEPT !.oaep = "sha1"] /\ enc' = [enc EXCEPT ![x] = enc'[x]]
    BY <2>1 DEF EncInv
  <2>3. EncKept(enc'[x]) /\ enc'[x].key = enc[x].key
    <3>1. "sha1" \in X!Digests
      BY DEF X!Digests
    <3> QED BY <2>1, <2>2, <3>1 DEF EncKept, EncContext
  <2>4. /\ held' \in [EncKeys -> Int]
        /\ \A j \in EncKeys : held'[j] = held[j] + EncUse(enc'[x], j) - EncUse(enc[x], j)
    BY <2>1, <2>3, EncLive DEF EncInv, EncKept
  <2> QED BY <2>2, <2>3, <2>4, EncReplaced
<1>4. ASSUME NEW y \in Ctxs, NEW x \in Ctxs, X!rsa_dupctx(y, x) PROVE EncInv'
  <2>1. /\ X!Live(enc[y]) /\ EncKept(enc[y]) /\ ~X!Live(enc[x])
        /\ enc' = [enc EXCEPT ![x] = enc[y]] /\ held' = [held EXCEPT ![enc[y].key] = @ + 1]
    BY <1>4 DEF X!rsa_dupctx, EncInv
  <2>2. enc'[x] = enc[y] /\ enc' = [enc EXCEPT ![x] = enc'[x]]
    BY <2>1 DEF EncInv
  <2>3. /\ held' \in [EncKeys -> Int]
        /\ \A j \in EncKeys : held'[j] = held[j] + EncUse(enc'[x], j) - EncUse(enc[x], j)
    <3>1. enc[y].key \in EncKeys
      BY <2>1 DEF EncKept, EncContext
    <3>2. held \in [EncKeys -> Nat]
      BY DEF EncInv
    <3>3. \A j \in EncKeys : held'[j] = IF j = enc[y].key THEN held[j] + 1 ELSE held[j]
      BY <2>1, <3>1, <3>2
    <3>4. \A j \in EncKeys : /\ EncUse(enc'[x], j) = (IF j = enc[y].key THEN 1 ELSE 0)
                              /\ EncUse(enc[x], j) = 0
      BY <2>1, <2>2
    <3> HIDE DEF EncUse
    <3>5. held' \in [EncKeys -> Int]
      BY <2>1, <3>1, <3>2
    <3>6. \A j \in EncKeys : held'[j] = held[j] + EncUse(enc'[x], j) - EncUse(enc[x], j)
      BY <3>2, <3>3, <3>4
    <3> QED BY <3>5, <3>6
  <2> QED BY <2>1, <2>2, <2>3, EncReplaced
<1>5. ASSUME NEW x \in Ctxs, X!rsa_freectx(x) PROVE EncInv'
  <2>1. /\ X!Live(enc[x]) /\ EncKept(enc[x])
        /\ enc' = [enc EXCEPT ![x] = X!Free] /\ held' = [held EXCEPT ![enc[x].key] = @ - 1]
    BY <1>5 DEF X!rsa_freectx, EncInv
  <2>2. enc'[x] = X!Free /\ enc' = [enc EXCEPT ![x] = enc'[x]]
    BY <2>1 DEF EncInv
  <2>3. /\ held' \in [EncKeys -> Int]
        /\ \A j \in EncKeys : held'[j] = held[j] + EncUse(enc'[x], j) - EncUse(enc[x], j)
    <3>1. enc[x].key \in EncKeys
      BY <2>1 DEF EncKept, EncContext
    <3>2. held \in [EncKeys -> Nat]
      BY DEF EncInv
    <3>3. \A j \in EncKeys : held'[j] = IF j = enc[x].key THEN held[j] - 1 ELSE held[j]
      BY <2>1, <3>1, <3>2
    <3>4. \A j \in EncKeys : /\ EncUse(enc'[x], j) = 0
                              /\ EncUse(enc[x], j) = (IF j = enc[x].key THEN 1 ELSE 0)
      BY <2>1, <2>2, EncLive
    <3> HIDE DEF EncUse
    <3>5. held' \in [EncKeys -> Int]
      BY <2>1, <3>1, <3>2
    <3>6. \A j \in EncKeys : held'[j] = held[j] + EncUse(enc'[x], j) - EncUse(enc[x], j)
      BY <3>2, <3>3, <3>4
    <3> QED BY <3>5, <3>6
  <2> QED BY <2>2, <2>3, EncReplaced
<1>6. CASE UNCHANGED X!vars
  BY <1>6 DEF X!vars, EncInv, EncHolders
<1> QED BY <1>1, <1>2, <1>3, <1>4, <1>5, <1>6 DEF X!Next

LEMMA EncRefs == EncInv => X!RefsExact
BY EncCount DEF EncInv, EncHolders, X!RefsExact

LEMMA EncTypes == EncInv => X!TypeOK
BY DEF EncInv, EncKept, EncContext, X!TypeOK, X!Digests, X!Null

(* What a context encrypts has a padding for OAEP with both digests, or names another. *)
LEMMA EncCiphers ==
    ASSUME NEW c \in EncContext, X!rsa_encrypt(c) # X!NoCipher
    PROVE \/ /\ c.pad = "oaep" /\ c.oaep # X!Null /\ c.mgf1 # X!Null
             /\ X!Opens(X!rsa_encrypt(c), c.oaep, c.mgf1, c.label)
          \/ c.pad \in {"pkcs1", "none"} /\ X!rsa_encrypt(c) = [pad |-> c.pad]
BY DEF X!rsa_encrypt, X!Opens, X!NoCipher

(* A ciphertext is of one padding, and OAEP opens it with the parameters it was made with. *)
LEMMA EncOpens ==
    ASSUME NEW d, NEW a, NEW m, NEW l, X!Opens(d, a, m, l)
    PROVE /\ d.pad = "oaep"
          /\ \A b, n, k : X!Opens(d, b, n, k) => b = a /\ n = m /\ k = l
<1>1. d.pad = "oaep" /\ d.oaep = a /\ d.mgf1 = m /\ d.label = l
  BY DEF X!Opens
<1>2. ASSUME NEW b, NEW n, NEW k, X!Opens(d, b, n, k) PROVE b = a /\ n = m /\ k = l
  BY <1>1, <1>2 DEF X!Opens
<1> QED BY <1>1, <1>2

LEMMA EncDecrypts == EncInv => X!DecryptsSame
<1> SUFFICES ASSUME EncInv, NEW x \in Ctxs, NEW y \in Ctxs,
                    X!Live(enc[x]), X!rsa_encrypt(enc[x]) # X!NoCipher, X!Live(enc[y]),
                    X!Same(enc[x], enc[y]), X!Supported(enc[y])
             PROVE X!rsa_decrypt(enc[y], X!rsa_encrypt(enc[x])) = "message"
  BY DEF X!DecryptsSame
<1> DEFINE c == enc[x]
           e == enc[y]
           w == X!rsa_encrypt(c)
<1>1. c \in EncContext /\ e \in EncContext
  BY DEF EncInv, EncKept
<1>2. c.pad = e.pad /\ c.oaep = e.oaep /\ c.mgf1 = e.mgf1 /\ c.label = e.label
  BY DEF X!Same
<1>3. \/ /\ e.pad = "oaep" /\ e.oaep # X!Null /\ e.mgf1 # X!Null
         /\ X!Opens(w, e.oaep, e.mgf1, e.label)
      \/ e.pad \in {"pkcs1", "none"} /\ w = [pad |-> e.pad]
  BY <1>1, <1>2, EncCiphers
<1>4. X!Supported(e)
  OBVIOUS
<1>5. e.key.place \in {"token", "software", "engine"}
  BY <1>1, ContextsAssumption DEF EncContext, X!Key
<1> SUFFICES X!rsa_decrypt(e, w) = "message"
  OBVIOUS
<1> HIDE DEF c, e, w
<1>6. CASE e.pad \in {"pkcs1", "none"} /\ w = [pad |-> e.pad]
  <2>1. w.pad = e.pad
    BY <1>6
  <2>2. X!DecryptSoftware(e, w) = "message" /\ X!DecryptToken(e, w) = "message"
    BY <1>6, <2>1 DEF X!DecryptSoftware, X!DecryptToken, X!Unpadded, X!Decrypted
  <2> QED BY <1>5, <1>6, <2>2 DEF X!rsa_decrypt, X!luna_rsa_decrypt
<1>7. CASE /\ e.pad = "oaep" /\ e.oaep # X!Null /\ e.mgf1 # X!Null
           /\ X!Opens(w, e.oaep, e.mgf1, e.label)
  <2>1. CASE e.key.place = "software"
    BY <1>7, <2>1 DEF X!rsa_decrypt, X!DecryptSoftware, X!Decrypted
  <2>2. ASSUME {e.oaep, e.mgf1} \subseteq TokenDigests
        PROVE X!luna_rsa_priv_dec_x509(X!luna_from_oaep_params(e.oaep, e.mgf1, e.label), w)
                = "message"
    BY <1>7, <2>2 DEF X!luna_rsa_priv_dec_x509, X!luna_from_oaep_params, X!Decrypted
  <2>3. CASE e.key.place = "token"
    <3>1. {e.oaep, e.mgf1} \subseteq TokenDigests
      BY <1>4, <1>7, <2>3 DEF X!Supported
    <3> QED BY <1>7, <2>2, <2>3, <3>1 DEF X!rsa_decrypt, X!DecryptToken
  <2>4. CASE e.key.place = "engine"
    <3>1. {e.oaep, e.mgf1} \subseteq TokenDigests /\ e.label = X!Null
      BY <1>4, <1>7, <2>4 DEF X!Supported
    <3>2. /\ X!luna_to_oaep_params(e).oaep = e.oaep
          /\ X!luna_to_oaep_params(e).mgf1 = e.mgf1
      BY <1>7 DEF X!luna_to_oaep_params
    <3> QED BY <1>7, <2>2, <2>4, <3>1, <3>2 DEF X!rsa_decrypt, X!luna_rsa_decrypt
  <2> QED BY <1>5, <2>1, <2>3, <2>4
<1> QED BY <1>3, <1>6, <1>7

LEMMA EncRefuses == EncInv => X!OthersRefused
<1> SUFFICES ASSUME EncInv, NEW x \in Ctxs, NEW y \in Ctxs,
                    X!Live(enc[x]), X!rsa_encrypt(enc[x]) # X!NoCipher, X!Live(enc[y]),
                    enc[y].key.place # "engine",
                    X!rsa_decrypt(enc[y], X!rsa_encrypt(enc[x])) = "message"
             PROVE \/ X!Same(enc[x], enc[y])
                   \/ enc[x].pad = "pkcs1" /\ enc[y].pad \in {"pkcs1", "tls"}
                   \/ enc[x].pad = "none" /\ enc[y].pad = "none"
                   \/ enc[y].oaep = X!Null /\ X!Same(enc[x], [enc[y] EXCEPT !.oaep = "sha1"])
  BY DEF X!OthersRefused
<1> DEFINE c == enc[x]
           e == enc[y]
           w == X!rsa_encrypt(c)
           f == [e EXCEPT !.oaep = "sha1"]
<1>1. c \in EncContext /\ e \in EncContext
  BY DEF EncInv, EncKept
<1>2. \/ /\ c.pad = "oaep" /\ c.oaep # X!Null /\ c.mgf1 # X!Null
         /\ X!Opens(w, c.oaep, c.mgf1, c.label)
      \/ c.pad \in {"pkcs1", "none"} /\ w = [pad |-> c.pad]
  BY <1>1, EncCiphers
<1>3. e.key.place \in {"token", "software"}
  BY <1>1, ContextsAssumption DEF EncContext, X!Key
<1>4. X!rsa_decrypt(e, w) = "message"
  OBVIOUS
<1>5. f.pad = e.pad /\ f.oaep = "sha1" /\ f.mgf1 = e.mgf1 /\ f.label = e.label
  BY <1>1 DEF EncContext
<1> HIDE DEF c, e, w, f
<1>6. \/ e.pad = "oaep" /\ X!Opens(w, e.oaep, e.mgf1, e.label)
      \/ e.pad = "oaep" /\ e.oaep = X!Null /\ X!Opens(w, "sha1", e.mgf1, e.label)
      \/ e.pad \in {"pkcs1", "tls"} /\ w.pad = "pkcs1"
      \/ e.pad = "none" /\ w.pad = "none"
  <2>1. CASE e.key.place = "software"
    BY <1>4, <2>1 DEF X!rsa_decrypt, X!DecryptSoftware, X!TlsPremaster, X!Unpadded, X!Decrypted
  <2>2. CASE e.key.place = "token"
    BY <1>4, <2>2 DEF X!rsa_decrypt, X!DecryptToken, X!TlsPremaster, X!Unpadded, X!Decrypted,
                      X!luna_rsa_priv_dec_x509, X!luna_from_oaep_params
  <2> QED BY <1>3, <2>1, <2>2
<1>7. CASE c.pad \in {"pkcs1", "none"} /\ w = [pad |-> c.pad]
  <2>1. w.pad = c.pad /\ w.pad # "oaep"
    BY <1>7
  <2>2. \/ c.pad = "pkcs1" /\ e.pad \in {"pkcs1", "tls"}
        \/ c.pad = "none" /\ e.pad = "none"
    BY <1>6, <2>1, EncOpens
  <2> QED BY <2>2 DEF c, e
<1>8. CASE c.pad = "oaep" /\ X!Opens(w, c.oaep, c.mgf1, c.label)
  <2>1. w.pad = "oaep"
    BY <1>8, EncOpens
  <2>2. CASE e.pad = "oaep" /\ X!Opens(w, e.oaep, e.mgf1, e.label)
    <3>1. X!Same(c, e)
      BY <1>8, <2>2, EncOpens DEF X!Same
    <3> QED BY <3>1 DEF c, e
  <2>3. CASE e.pad = "oaep" /\ e.oaep = X!Null /\ X!Opens(w, "sha1", e.mgf1, e.label)
    <3>1. X!Same(c, f)
      BY <1>5, <1>8, <2>3, EncOpens DEF X!Same
    <3> QED BY <2>3, <3>1 DEF c, e, f
  <2> QED BY <1>6, <2>1, <2>2, <2>3
<1> QED BY <1>2, <1>7, <1>8
------------------------------------------------------------------------------
(* Signatures and exchanges of the other keys. *)

Stream == [alg : Names \cup {O!Null}, n : Nat, done : BOOLEAN]
OpCtx == [op : {"sign", "verify", "derive"}, digest : BOOLEAN, key : Keys,
          peer : Keys \cup {O!NoKey}, allow : BOOLEAN, md : Names \cup {O!Null},
          size : Nat, mdctx : Stream, data : Nat, aid : Ctxs \cup {O!Null, O!Freed},
          instance : O!Instances, string : Strings \cup {O!Null}, fed : 0 .. MaxChunks]
OpParams == [md : Names \cup {O!Null}, size : Nat, instance : O!Instances \cup {O!Null},
             string : Strings \cup {O!Null}]

(* The stream of a DSA or EC context that a final call may still finish is of the digest
   the context names, and has every chunk; the instance of an Edwards key is of its
   curve. *)
OpStream(c) == c.mdctx # O!NoStream /\ ~c.mdctx.done => c.mdctx.alg = c.md /\ c.mdctx.n = c.fed
OpKept(c) == /\ c \in OpCtx
             /\ c.key.type \in {"dsa", "ec"} => OpStream(c)
             /\ O!Edwards(c.key) => O!OfCurve(c.key, c.instance)

(* What a call makes of a context: well formed if accepted or not, of the same key. *)
OpGood(r, c) == r.ok \in BOOLEAN /\ OpKept(r.ctx) /\ r.ctx.key = c.key /\ r.ctx.peer = c.peer

LEMMA OpOutcome ==
    ASSUME NEW c
    PROVE /\ O!Ok(c).ok = TRUE /\ O!Ok(c).ctx = c
          /\ O!Fail(c).ok = FALSE /\ O!Fail(c).ctx = c
BY DEF O!Ok, O!Fail

LEMMA OpGoodOutcome ==
    ASSUME NEW c, NEW d, OpKept(d), d.key = c.key, d.peer = c.peer
    PROVE OpGood(O!Ok(d), c) /\ OpGood(O!Fail(d), c)
BY OpOutcome DEF OpGood

LEMMA NoStreamType == O!NoStream \in Stream
BY DEF O!NoStream, Stream

LEMMA OpSetupMd ==
    ASSUME NEW c, OpKept(c), NEW x \in Ctxs, NEW md \in Names \cup {O!Null}
    PROVE OpGood(O!ecdsa_setup_md(c, x, md), c)
<1> DEFINE d == [c EXCEPT !.md = md, !.mdctx = O!NoStream, !.size = DigestSize[md], !.aid = x]
<1>1. CASE md = O!Null \/ ~c.allow
  <2>1. \/ O!ecdsa_setup_md(c, x, md) = O!Ok(c)
        \/ O!ecdsa_setup_md(c, x, md) = O!Fail(c)
    BY <1>1 DEF O!ecdsa_setup_md
  <2> QED BY <2>1, OpGoodOutcome
<1>2. CASE md # O!Null /\ c.allow
  <2>1. DigestSize[md] \in Nat
    BY <1>2, ContextsAssumption
  <2>2. /\ d \in OpCtx /\ d.key = c.key /\ d.peer = c.peer /\ d.mdctx = O!NoStream
        /\ d.instance = c.instance
    BY <2>1, NoStreamType DEF OpKept, OpCtx
  <2>3. O!ecdsa_setup_md(c, x, md) = O!Ok(d)
    BY <1>2 DEF O!ecdsa_setup_md
  <2> HIDE DEF d
  <2> QED BY <2>2, <2>3, OpOutcome DEF OpGood, OpKept, OpStream
<1>3. c.allow \in BOOLEAN
  BY DEF OpKept, OpCtx
<1> QED BY <1>1, <1>2, <1>3

LEMMA OpEcParams ==
    ASSUME NEW c, OpKept(c), NEW x \in Ctxs, NEW p \in OpParams
    PROVE OpGood(O!ecdsa_set_ctx_params(c, x, p), c)
<1> DEFINE r == O!ecdsa_setup_md(c, x, p.md)
           d == r.ctx
           e == [d EXCEPT !.size = p.size]
<1>1. OpGood(r, c)
  BY OpSetupMd DEF OpParams
<1>2. OpKept(d) /\ d.key = c.key /\ d.peer = c.peer
  BY <1>1 DEF OpGood
<1>3. e \in OpCtx /\ OpKept(e) /\ e.key = c.key /\ e.peer = c.peer
  <2> HIDE DEF d
  <2>1. /\ e \in OpCtx /\ e.key = d.key /\ e.peer = d.peer /\ e.mdctx = d.mdctx
        /\ e.md = d.md /\ e.fed = d.fed /\ e.instance = d.instance
    BY <1>2 DEF OpKept, OpCtx, OpParams
  <2> HIDE DEF e
  <2> QED BY <1>2, <2>1 DEF OpKept, OpStream
<1>4. \/ O!ecdsa_set_ctx_params(c, x, p) = r
      \/ O!ecdsa_set_ctx_params(c, x, p) = O!Ok(d)
      \/ O!ecdsa_set_ctx_params(c, x, p) = O!Fail(d)
      \/ O!ecdsa_set_ctx_params(c, x, p) = O!Ok(e)
  BY DEF O!ecdsa_set_ctx_params, O!Then
<1> HIDE DEF r, d, e
<1>5. OpGood(O!Ok(d), c) /\ OpGood(O!Fail(d), c) /\ OpGood(O!Ok(e), c)
  BY <1>2, <1>3, OpGoodOutcome
<1> QED BY <1>1, <1>4, <1>5

LEMMA OpOqsSetupMd ==
    ASSUME NEW c, OpKept(c), NEW x \in Ctxs, NEW md \in Names \cup {O!Null}
    PROVE OpGood(O!oqs_sig_setup_md(c, x, md), c)
<1> DEFINE d == [c EXCEPT !.md = md, !.mdctx = O!NoStream, !.aid = x]
<1>1. /\ d \in OpCtx /\ d.key = c.key /\ d.peer = c.peer /\ d.mdctx = O!NoStream
      /\ d.instance = c.instance
  BY NoStreamType DEF OpKept, OpCtx
<1>2. O!oqs_sig_setup_md(c, x, md) = O!Ok(c) \/ O!oqs_sig_setup_md(c, x, md) = O!Ok(d)
  BY DEF O!oqs_sig_setup_md
<1> HIDE DEF d
<1>3. OpKept(d)
  BY <1>1 DEF OpKept, OpStream
<1>4. OpGood(O!Ok(c), c) /\ OpGood(O!Ok(d), c)
  BY <1>1, <1>3, OpGoodOutcome
<1> QED BY <1>2, <1>4

LEMMA OpOqsParams ==
    ASSUME NEW c, OpKept(c), NEW x \in Ctxs, NEW p \in OpParams
    PROVE OpGood(O!oqs_sig_set_ctx_params(c, x, p), c)
<1>1. \/ O!oqs_sig_set_ctx_params(c, x, p) = O!Fail(c)
      \/ O!oqs_sig_set_ctx_params(c, x, p) = O!oqs_sig_setup_md(c, x, p.md)
  BY DEF O!oqs_sig_set_ctx_params
<1>2. p.md \in Names \cup {O!Null}
  BY DEF OpParams
<1> QED BY <1>1, <1>2, OpOqsSetupMd, OpGoodOutcome

LEMMA OpEdParams ==
    ASSUME NEW c, OpKept(c), NEW p \in OpParams
    PROVE OpGood(O!eddsa_set_ctx_params(c, p), c)
<1> DEFINE d == [c EXCEPT !.instance = IF p.instance = O!Null THEN @ ELSE p.instance,
                          !.string = IF p.string = O!Null THEN @ ELSE p.string]
<1>1. CASE p.instance # O!Null /\ ~O!OfCurve(c.key, p.instance)
  <2>1. O!eddsa_set_ctx_params(c, p) = O!Fail(c)
    BY <1>1 DEF O!eddsa_set_ctx_params
  <2> QED BY <2>1, OpGoodOutcome
<1>2. CASE ~(p.instance # O!Null /\ ~O!OfCurve(c.key, p.instance))
  <2>1. O!eddsa_set_ctx_params(c, p) = O!Ok(d)
    BY <1>2 DEF O!eddsa_set_ctx_params
  <2>2. /\ d \in OpCtx /\ d.key = c.key /\ d.peer = c.peer /\ d.mdctx = c.mdctx /\ d.md = c.md
        /\ d.fed = c.fed
        /\ d.instance = (IF p.instance = O!Null THEN c.instance ELSE p.instance)
    BY DEF OpKept, OpCtx, OpParams
  <2> HIDE DEF d
  <2>3. OpKept(d)
    BY <1>2, <2>2 DEF OpKept, OpStream
  <2> QED BY <2>1, <2>2, <2>3, OpGoodOutcome
<1> QED BY <1>1, <1>2

LEMMA OpSetParams ==
    ASSUME NEW c, OpKept(c), NEW x \in Ctxs, NEW p \in OpParams
    PROVE OpGood(O!set_ctx_params(c, x, p), c)
<1>1. \/ O!set_ctx_params(c, x, p) = O!oqs_sig_set_ctx_params(c, x, p)
      \/ O!set_ctx_params(c, x, p) = O!ecdsa_set_ctx_params(c, x, p)
      \/ O!set_ctx_params(c, x, p) = O!eddsa_set_ctx_params(c, p)
      \/ O!set_ctx_params(c, x, p) = O!Ok(c)
  BY DEF O!set_ctx_params, O!Edwards
<1> QED BY <1>1, OpOqsParams, OpEcParams, OpEdParams, OpGoodOutcome

LEMMA OpEcDigestInit ==
    ASSUME NEW c, OpKept(c), NEW x \in Ctxs, NEW md \in Names \cup {O!Null}, NEW p \in OpParams
    PROVE OpGood(O!ecdsa_digest_init(c, x, md, p), c)
<1> DEFINE r == O!ecdsa_set_ctx_params(c, x, p)
           s == O!ecdsa_setup_md(r.ctx, x, md)
           d == s.ctx
           e == [d EXCEPT !.digest = TRUE, !.allow = FALSE, !.fed = 0,
                          !.mdctx = [alg |-> d.md, n |-> 0, done |-> FALSE]]
<1>1. OpGood(r, c)
  BY OpEcParams
<1>2. OpGood(s, c)
  <2>1. OpGood(s, r.ctx)
    BY <1>1, OpSetupMd DEF OpGood
  <2> HIDE DEF s
  <2> QED BY <1>1, <2>1 DEF OpGood
<1>3. OpKept(d) /\ d.key = c.key /\ d.peer = c.peer
  BY <1>2 DEF OpGood
<1>4. OpKept(e) /\ e.key = c.key /\ e.peer = c.peer
  <2> HIDE DEF d
  <2>1. [alg |-> d.md, n |-> 0, done |-> FALSE] \in Stream
    BY <1>3 DEF OpKept, OpCtx, Stream
  <2>2. 0 \in 0 .. MaxChunks
    BY ContextsAssumption
  <2>3. /\ e \in OpCtx /\ e.key = d.key /\ e.peer = d.peer /\ e.md = d.md /\ e.fed = 0
        /\ e.mdctx = [alg |-> d.md, n |-> 0, done |-> FALSE] /\ e.instance = d.instance
    BY <1>3, <2>1, <2>2 DEF OpKept, OpCtx
  <2>4. e.mdctx.alg = d.md /\ e.mdctx.n = 0
    BY <2>3
  <2> HIDE DEF e
  <2> QED BY <1>3, <2>3, <2>4 DEF OpKept, OpStream
<1>5. \/ O!ecdsa_digest_init(c, x, md, p) = r
      \/ O!ecdsa_digest_init(c, x, md, p) = s
      \/ O!ecdsa_digest_init(c, x, md, p) = O!Fail(d)
      \/ O!ecdsa_digest_init(c, x, md, p) = O!Ok(e)
  BY DEF O!ecdsa_digest_init, O!Then
<1> HIDE DEF r, s, d, e
<1>6. OpGood(O!Fail(d), c) /\ OpGood(O!Ok(e), c)
  BY <1>3, <1>4, OpGoodOutcome
<1> QED BY <1>1, <1>2, <1>5, <1>6

LEMMA OpOqsDigestInit ==
    ASSUME NEW c, OpKept(c), c.key.type = "oqs", NEW x \in Ctxs, NEW md \in Names \cup {O!Null}
    PROVE OpGood(O!oqs_sig_digest_init(c, x, md), c)
<1> DEFINE r == O!oqs_sig_setup_md(c, x, md)
           d == r.ctx
           e == [d EXCEPT !.digest = TRUE, !.mdctx.alg = md]
<1>1. OpGood(r, c)
  BY OpOqsSetupMd
<1>2. OpKept(d) /\ d.key = c.key /\ d.peer = c.peer
  BY <1>1 DEF OpGood
<1>3. OpKept(e) /\ e.key = c.key /\ e.peer = c.peer
  <2> HIDE DEF d
  <2>1. d \in OpCtx /\ d.mdctx \in Stream
    BY <1>2 DEF OpKept, OpCtx
  <2>2. [d.mdctx EXCEPT !.alg = md] \in Stream
    BY <2>1 DEF Stream
  <2>3. e \in OpCtx /\ e.key = d.key /\ e.peer = d.peer /\ e.instance = d.instance
    BY <2>1, <2>2 DEF OpCtx
  <2> HIDE DEF e
  <2> QED BY <1>2, <2>3 DEF OpKept, O!Edwards
<1>4. \/ O!oqs_sig_digest_init(c, x, md) = r
      \/ O!oqs_sig_digest_init(c, x, md) = O!Ok(e)
  BY DEF O!oqs_sig_digest_init, O!Then
<1> HIDE DEF r, d, e
<1> QED BY <1>1, <1>3, <1>4, OpGoodOutcome

LEMMA OpEdDigestInit ==
    ASSUME NEW c, OpKept(c), O!Edwards(c.key), NEW x \in Ctxs, NEW md, NEW p \in OpParams
    PROVE OpGood(O!eddsa_digest_init(c, x, md, p), c)
<1> DEFINE r == [O!Ok(c) EXCEPT !.ctx.digest = TRUE, !.ctx.aid = x]
           d == [c EXCEPT !.digest = TRUE, !.aid = x]
<1>1. r.ok = TRUE /\ r.ctx = d
  BY DEF O!Ok
<1>2. /\ d \in OpCtx /\ d.key = c.key /\ d.peer = c.peer /\ d.instance = c.instance
      /\ d.mdctx = c.mdctx /\ d.md = c.md /\ d.fed = c.fed
  BY DEF OpKept, OpCtx
<1>3. \/ O!eddsa_digest_init(c, x, md, p) = O!Fail(c)
      \/ O!eddsa_digest_init(c, x, md, p) = O!eddsa_set_ctx_params(r.ctx, p)
  BY <1>1 DEF O!eddsa_digest_init, O!Then
<1> HIDE DEF r, d
<1>4. OpKept(d)
  BY <1>2 DEF OpKept, OpStream
<1>5. OpGood(O!eddsa_set_ctx_params(d, p), c)
  <2>1. OpGood(O!eddsa_set_ctx_params(d, p), d)
    BY <1>4, OpEdParams
  <2> QED BY <1>2, <2>1 DEF OpGood
<1> QED BY <1>1, <1>3, <1>5, OpGoodOutcome

LEMMA OpDigestInit ==
    ASSUME NEW c, OpKept(c), NEW x \in Ctxs, NEW md \in Names \cup {O!Null}, NEW p \in OpParams
    PROVE OpGood(O!digest_init(c, x, md, p), c)
<1>1. \/ c.key.type = "oqs" /\ O!digest_init(c, x, md, p) = O!oqs_sig_digest_init(c, x, md)
      \/ O!Edwards(c.key) /\ O!digest_init(c, x, md, p) = O!eddsa_digest_init(c, x, md, p)
      \/ O!digest_init(c, x, md, p) = O!ecdsa_digest_init(c, x, md, p)
  BY DEF O!digest_init, O!Edwards
<1> QED BY <1>1, OpOqsDigestInit, OpEdDigestInit, OpEcDigestInit

KeyHolders(k) == {x \in Ctxs : O!Live(ctx[x]) /\ ctx[x].key = k}
PeerHolders(k) == {x \in Ctxs : O!Live(ctx[x]) /\ ctx[x].peer = k}
AppHolds(k) == IF k \in app THEN 1 ELSE 0

OpInv ==
    /\ app \subseteq Keys /\ refs \in [Keys -> Nat]
    /\ ctx \in [Ctxs -> OpCtx \cup {O!Free}]
    /\ \A x \in Ctxs : O!Live(ctx[x]) => OpKept(ctx[x])
    /\ \A k \in Keys :
          refs[k] = AppHolds(k) + Cardinality(KeyHolders(k)) + Cardinality(PeerHolders(k))

LEMMA OpLive ==
    /\ ~O!Live(O!Free)
    /\ \A c \in OpCtx : O!Live(c)
BY DEF O!Live, O!Free, OpCtx

LEMMA NoKeyIsNone == O!NoKey \notin Keys
<1>1. O!NoKey.type \notin {"dsa", "ec", "oqs", "ed25519", "ed448", "ecx"}
  BY DEF O!NoKey, O!Null
<1> QED BY <1>1, ContextsAssumption DEF O!Key

LEMMA OpCount == \A s : O!Count(s) = Cardinality(s)
BY DEF O!Count, O!Cardinality, Cardinality

(* The references of one context to a key. *)
OpUse(c, k) == (IF O!Live(c) /\ c.key = k THEN 1 ELSE 0)
               + (IF O!Live(c) /\ c.peer = k THEN 1 ELSE 0)

LEMMA OpFields ==
    ASSUME NEW c \in OpCtx, NEW k \in Keys
    PROVE O!Count({f \in {"key", "peer"} : c[f] = k}) = OpUse(c, k)
<1> DEFINE s == {f \in {"key", "peer"} : c[f] = k}
<1>1. O!Count(s) = Cardinality(s)
  BY OpCount
<1>2. O!Live(c)
  BY OpLive
<1> SUFFICES Cardinality(s) = (IF c.key = k THEN 1 ELSE 0) + (IF c.peer = k THEN 1 ELSE 0)
  BY <1>1, <1>2 DEF OpUse
<1>3. s = (IF c.key = k THEN {"key"} ELSE {}) \cup (IF c.peer = k THEN {"peer"} ELSE {})
  OBVIOUS
<1> HIDE DEF s
<1>4. IsFiniteSet({"key"}) /\ Cardinality({"key"}) = 1 /\ Cardinality({"peer"}) = 1
  BY FS_Singleton
<1>5. CASE c.key = k /\ c.peer = k
  <2>1. s = {"key"} \cup {"peer"}
    BY <1>3, <1>5
  <2>2. Cardinality({"key"} \cup {"peer"})
          = IF "peer" \in {"key"} THEN Cardinality({"key"}) ELSE Cardinality({"key"}) + 1
    BY <1>4, FS_AddElement
  <2>3. "peer" \notin {"key"}
    OBVIOUS
  <2> QED BY <1>4, <1>5, <2>1, <2>2, <2>3
<1>6. CASE c.key = k /\ c.peer # k
  BY <1>3, <1>4, <1>6
<1>7. CASE c.key # k /\ c.peer = k
  BY <1>3, <1>4, <1>7
<1>8. CASE c.key # k /\ c.peer # k
  BY <1>3, <1>8, FS_EmptySet
<1> QED BY <1>5, <1>6, <1>7, <1>8

(* A context gets a new value, the others keep their keys, and the counts follow. *)
LEMMA OpReplaced ==
    ASSUME OpInv, NEW x \in Ctxs, app' = app,
           ctx' \in [Ctxs -> OpCtx \cup {O!Free}],
           \A y \in Ctxs : O!Live(ctx'[y]) => OpKept(ctx'[y]),
           \A y \in Ctxs \ {x} : /\ O!Live(ctx'[y]) = O!Live(ctx[y])
                                 /\ O!Live(ctx[y]) => /\ ctx'[y].key = ctx[y].key
                                                      /\ ctx'[y].peer = ctx[y].peer,
           refs' \in [Keys -> Int],
           \A k \in Keys : refs'[k] = refs[k] + OpUse(ctx'[x], k) - OpUse(ctx[x], k)
    PROVE OpInv'
<1>1. ASSUME NEW k \in Keys
      PROVE /\ refs'[k] \in Nat
            /\ refs'[k] = (AppHolds(k) + Cardinality(KeyHolders(k)) + Cardinality(PeerHolders(k)))'
  <2> DEFINE s == KeyHolders(k)
             t == {y \in Ctxs : O!Live(ctx'[y]) /\ ctx'[y].key = k}
             u == PeerHolders(k)
             v == {y \in Ctxs : O!Live(ctx'[y]) /\ ctx'[y].peer = k}
  <2>1. IsFiniteSet(s) /\ IsFiniteSet(t) /\ IsFiniteSet(u) /\ IsFiniteSet(v)
    BY ContextsAssumption, FS_Subset DEF KeyHolders, PeerHolders
  <2>2. s \ {x} = t \ {x}
    BY DEF KeyHolders
  <2>3. u \ {x} = v \ {x}
    BY DEF PeerHolders
  <2>4. /\ OpUse(ctx[x], k) = (IF x \in s THEN 1 ELSE 0) + (IF x \in u THEN 1 ELSE 0)
        /\ OpUse(ctx'[x], k) = (IF x \in t THEN 1 ELSE 0) + (IF x \in v THEN 1 ELSE 0)
    BY DEF KeyHolders, PeerHolders, OpUse
  <2>5. refs[k] = AppHolds(k) + Cardinality(s) + Cardinality(u) /\ refs[k] \in Nat
    BY DEF OpInv
  <2>6. refs'[k] = refs[k] + OpUse(ctx'[x], k) - OpUse(ctx[x], k)
    OBVIOUS
  <2>7. KeyHolders(k)' = t /\ PeerHolders(k)' = v /\ AppHolds(k)' = AppHolds(k)
    BY DEF KeyHolders, PeerHolders, AppHolds
  <2>8. AppHolds(k) \in Nat
    BY DEF AppHolds
  <2> HIDE DEF s, t, u, v
  <2>9. /\ Cardinality(s) \in Nat /\ Cardinality(t) \in Nat
        /\ Cardinality(t) = Cardinality(s) + (IF x \in t THEN 1 ELSE 0)
                                           - (IF x \in s THEN 1 ELSE 0)
    BY <2>1, <2>2, OneChanged
  <2>10. /\ Cardinality(u) \in Nat /\ Cardinality(v) \in Nat
         /\ Cardinality(v) = Cardinality(u) + (IF x \in v THEN 1 ELSE 0)
                                            - (IF x \in u THEN 1 ELSE 0)
    BY <2>1, <2>3, OneChanged
  <2> QED BY <2>4, <2>5, <2>6, <2>7, <2>8, <2>9, <2>10
<1>2. refs' \in [Keys -> Nat]
  BY <1>1
<1>3. app' \subseteq Keys
  BY DEF OpInv
<1>4. \A k \in Keys :
        refs'[k] = (AppHolds(k) + Cardinality(KeyHolders(k)) + Cardinality(PeerHolders(k)))'
  BY <1>1
<1> QED BY <1>2, <1>3, <1>4 DEF OpInv

(* The same for a step that changes one context only. *)
LEMMA OpReplacedOne ==
    ASSUME OpInv, NEW x \in Ctxs, app' = app, ctx' = [ctx EXCEPT ![x] = ctx'[x]],
           ctx'[x] = O!Free \/ OpKept(ctx'[x]), refs' \in [Keys -> Int],
           \A k \in Keys : refs'[k] = refs[k] + OpUse(ctx'[x], k) - OpUse(ctx[x], k)
    PROVE OpInv'
<1>1. ctx' \in [Ctxs -> OpCtx \cup {O!Free}]
  BY DEF OpInv, OpKept
<1>2. \A y \in Ctxs \ {x} : ctx'[y] = ctx[y]
  BY DEF OpInv
<1>3. \A y \in Ctxs : O!Live(ctx'[y]) => OpKept(ctx'[y])
  BY <1>2, OpLive DEF OpInv
<1> QED BY <1>1, <1>2, <1>3, OpReplaced

(* And for one that leaves the context its keys. *)
LEMMA OpChanged ==
    ASSUME OpInv, NEW x \in Ctxs, app' = app, refs' = refs, ctx' = [ctx EXCEPT ![x] = ctx'[x]],
           O!Live(ctx[x]), OpKept(ctx'[x]), ctx'[x].key = ctx[x].key, ctx'[x].peer = ctx[x].peer
    PROVE OpInv'
<1>1. \A k \in Keys : OpUse(ctx'[x], k) = OpUse(ctx[x], k) /\ OpUse(ctx[x], k) \in Nat
  BY OpLive DEF OpKept, OpUse
<1>2. refs \in [Keys -> Nat]
  BY DEF OpInv
<1>3. \A k \in Keys : refs'[k] = refs[k] + OpUse(ctx'[x], k) - OpUse(ctx[x], k)
  BY <1>1, <1>2
<1> QED BY <1>2, <1>3, OpReplacedOne

LEMMA OpInvInit == O!Init => OpInv
<1> SUFFICES ASSUME O!Init PROVE OpInv
  OBVIOUS
<1>1. \A x \in Ctxs : ctx[x] = O!Free /\ ~O!Live(ctx[x])
  BY OpLive DEF O!Init
<1>2. \A k \in Keys : KeyHolders(k) = {} /\ PeerHolders(k) = {} /\ refs[k] = AppHolds(k) /\ AppHolds(k) \in Nat
  BY <1>1 DEF KeyHolders, PeerHolders, AppHolds, O!Init
<1>3. ctx \in [Ctxs -> OpCtx \cup {O!Free}] /\ app \subseteq Keys /\ refs \in [Keys -> Nat]
  BY ContextsAssumption DEF O!Init
<1> QED BY <1>1, <1>2, <1>3, FS_EmptySet DEF OpInv

LEMMA OpNew ==
    ASSUME NEW k \in Keys, NEW op \in {"sign", "verify", "derive"}
    PROVE /\ OpKept(O!newctx(op, k)) /\ O!newctx(op, k).key = k
          /\ O!newctx(op, k).peer = O!NoKey
<1> DEFINE c == O!newctx(op, k)
<1>1. 0 \in 0 .. MaxChunks
  BY ContextsAssumption
<1>2. /\ c \in OpCtx /\ c.key = k /\ c.peer = O!NoKey /\ c.mdctx = O!NoStream
      /\ c.instance = IF k.type = "ed448" THEN "Ed448" ELSE "Ed25519"
  BY <1>1, NoStreamType DEF O!newctx, OpCtx, O!Instances
<1>3. O!OfCurve(k, IF k.type = "ed448" THEN "Ed448" ELSE "Ed25519")
  BY DEF O!OfCurve
<1> HIDE DEF c
<1>4. OpKept(c)
  BY <1>2, <1>3 DEF OpKept, OpStream
<1> QED BY <1>2, <1>4 DEF c

LEMMA OpLists == \A k \in Keys : O!ParamLists(k) \subseteq OpParams
<1>1. O!NoParams \in OpParams
  BY DEF O!NoParams, OpParams
<1> SUFFICES ASSUME NEW k \in Keys PROVE O!ParamLists(k) \subseteq OpParams
  OBVIOUS
<1>2. CASE O!Edwards(k)
  <2>1. [md : {O!Null}, size : {0}, instance : O!Instances, string : Strings \cup {O!Null}]
          \subseteq OpParams
    BY DEF OpParams
  <2>2. k.type # "ec" /\ k.type \notin {"dsa", "oqs"}
    BY <1>2 DEF O!Edwards
  <2> QED BY <1>1, <1>2, <2>1, <2>2 DEF O!ParamLists
<1>3. CASE k.type = "ec"
  <2>1. [md : Names \cup {O!Null}, size : {0, 20}, instance : {O!Null}, string : {O!Null}]
          \subseteq OpParams
    BY DEF OpParams
  <2> QED BY <1>1, <1>3, <2>1 DEF O!ParamLists, O!Edwards
<1>4. CASE k.type \in {"dsa", "oqs"}
  <2>1. [md : Names, size : {0}, instance : {O!Null}, string : {O!Null}] \subseteq OpParams
    BY DEF OpParams
  <2> QED BY <1>1, <1>4, <2>1 DEF O!ParamLists, O!Edwards
<1>5. CASE ~(O!Edwards(k) \/ k.type = "ec" \/ k.type \in {"dsa", "oqs"})
  BY <1>1, <1>5 DEF O!ParamLists
<1> QED BY <1>2, <1>3, <1>4, <1>5

LEMMA OpInitParams == \A k \in Keys : \A md : O!InitParams(k, md) \subseteq OpParams
<1>1. O!NoParams \in OpParams
  BY DEF O!NoParams, OpParams
<1> QED BY <1>1, OpLists DEF O!InitParams

(* An initialization: the context holds its key, or it is freed again. *)
LEMMA OpBegins ==
    ASSUME OpInv, NEW x \in Ctxs, ~O!Live(ctx[x]), NEW k \in Keys, NEW r,
           r.ok \in BOOLEAN, OpKept(r.ctx), r.ctx.key = k, r.ctx.peer = O!NoKey,
           O!Begin(x, r)
    PROVE OpInv'
<1>1. /\ ctx' = [ctx EXCEPT ![x] = IF r.ok THEN r.ctx ELSE O!Free]
      /\ refs' = [refs EXCEPT ![k] = IF r.ok THEN @ + 1 ELSE @] /\ app' = app
  BY DEF O!Begin
<1>2. ctx'[x] = (IF r.ok THEN r.ctx ELSE O!Free) /\ ctx' = [ctx EXCEPT ![x] = ctx'[x]]
  BY <1>1 DEF OpInv
<1>3. ctx'[x] = O!Free \/ OpKept(ctx'[x])
  BY <1>2
<1>4. refs \in [Keys -> Nat]
  BY DEF OpInv
<1>5. refs' \in [Keys -> Int]
      /\ \A j \in Keys : refs'[j] = IF r.ok /\ j = k THEN refs[j] + 1 ELSE refs[j]
  BY <1>1, <1>4
<1>6. ASSUME NEW j \in Keys
      PROVE OpUse(ctx[x], j) = 0 /\ OpUse(ctx'[x], j) = (IF r.ok /\ j = k THEN 1 ELSE 0)
  <2>1. CASE r.ok
    BY <1>2, <2>1, OpLive, NoKeyIsNone DEF OpKept, OpUse
  <2>2. CASE ~r.ok
    BY <1>2, <2>2, OpLive DEF OpUse
  <2> QED BY <2>1, <2>2 DEF OpUse
<1>7. \A j \in Keys : refs'[j] = refs[j] + OpUse(ctx'[x], j) - OpUse(ctx[x], j)
  BY <1>4, <1>5, <1>6
<1> QED BY <1>1, <1>2, <1>3, <1>5, <1>7, OpReplacedOne

(* A context that is freed gives its references back; identifiers in its buffer die. *)
LEMMA OpDrops ==
    ASSUME OpInv, NEW x \in Ctxs, O!Live(ctx[x]), O!Drop(x, ctx[x]), app' = app
    PROVE OpInv'
<1> DEFINE f(y) == [ctx[y] EXCEPT !.aid = O!Freed]
<1>1. /\ ctx' = [y \in Ctxs |-> IF y = x THEN O!Free
                                ELSE IF O!Live(ctx[y]) /\ ctx[y].aid = x THEN f(y) ELSE ctx[y]]
      /\ refs' = [k \in Keys |-> refs[k] - O!Count({n \in {"key", "peer"} : ctx[x][n] = k})]
  BY DEF O!Drop
<1>2. ASSUME NEW y \in Ctxs, O!Live(ctx[y])
      PROVE OpKept(f(y)) /\ f(y).key = ctx[y].key /\ f(y).peer = ctx[y].peer
  <2>1. /\ f(y) \in OpCtx /\ f(y).key = ctx[y].key /\ f(y).peer = ctx[y].peer
        /\ f(y).mdctx = ctx[y].mdctx /\ f(y).md = ctx[y].md /\ f(y).fed = ctx[y].fed
        /\ f(y).instance = ctx[y].instance
    BY <1>2 DEF OpInv, OpKept, OpCtx
  <2>2. OpKept(ctx[y])
    BY <1>2 DEF OpInv
  <2> HIDE DEF f
  <2> QED BY <2>1, <2>2 DEF OpKept, OpStream
<1> HIDE DEF f
<1>3. ASSUME NEW y \in Ctxs \ {x}
      PROVE /\ ctx'[y] \in OpCtx \cup {O!Free}
            /\ O!Live(ctx'[y]) => OpKept(ctx'[y])
            /\ O!Live(ctx'[y]) = O!Live(ctx[y])
            /\ O!Live(ctx[y]) => ctx'[y].key = ctx[y].key /\ ctx'[y].peer = ctx[y].peer
  <2>1. CASE O!Live(ctx[y]) /\ ctx[y].aid = x
    <3>1. ctx'[y] = f(y)
      BY <1>1, <2>1
    <3>2. O!Live(f(y)) /\ f(y) \in OpCtx
      BY <1>2, <2>1, OpLive DEF OpKept
    <3>3. O!Live(ctx'[y]) = O!Live(ctx[y])
      BY <2>1, <3>1, <3>2 DEF O!Live
    <3> QED BY <1>2, <2>1, <3>1, <3>2, <3>3
  <2>2. CASE ~(O!Live(ctx[y]) /\ ctx[y].aid = x)
    <3>1. ctx'[y] = ctx[y]
      BY <1>1, <2>2
    <3> QED BY <3>1 DEF OpInv
  <2> QED BY <2>1, <2>2
<1>4. ctx'[x] = O!Free /\ ~O!Live(ctx'[x])
  BY <1>1, OpLive
<1>5. ctx' \in [Ctxs -> OpCtx \cup {O!Free}]
  BY <1>1, <1>3, <1>4
<1>6. ctx[x] \in OpCtx /\ refs \in [Keys -> Nat]
  BY DEF OpInv, OpKept
<1>7. \A k \in Keys : refs'[k] = refs[k] - OpUse(ctx[x], k) /\ OpUse(ctx[x], k) \in Nat
                      /\ OpUse(ctx'[x], k) = 0
  BY <1>1, <1>4, <1>6, OpFields DEF OpUse
<1>8. refs' \in [Keys -> Int]
  <2>1. refs' = [k \in Keys |-> refs'[k]]
    BY <1>1
  <2>2. \A k \in Keys : refs'[k] \in Int
    BY <1>6, <1>7
  <2> QED BY <2>1, <2>2
<1>9. \A k \in Keys : refs'[k] = refs[k] + OpUse(ctx'[x], k) - OpUse(ctx[x], k)
  BY <1>6, <1>7
<1> QED BY <1>3, <1>4, <1>5, <1>8, <1>9, OpReplaced

(* The size query and the last call let the digest be named anew. *)
LEMMA OpUnlocked ==
    ASSUME NEW c, OpKept(c)
    PROVE /\ OpKept([c EXCEPT !.allow = TRUE])
          /\ [c EXCEPT !.allow = TRUE].key = c.key /\ [c EXCEPT !.allow = TRUE].peer = c.peer
<1> DEFINE d == [c EXCEPT !.allow = TRUE]
<1>1. /\ d \in OpCtx /\ d.key = c.key /\ d.peer = c.peer /\ d.mdctx = c.mdctx /\ d.md = c.md
      /\ d.fed = c.fed /\ d.instance = c.instance
  BY DEF OpKept, OpCtx
<1> HIDE DEF d
<1>2. OpKept(d)
  BY <1>1 DEF OpKept, OpStream
<1> QED BY <1>1, <1>2 DEF d

LEMMA OpInvStep == OpInv /\ [O!Next]_(O!vars) => OpInv'
<1> SUFFICES ASSUME OpInv, [O!Next]_(O!vars) PROVE OpInv'
  OBVIOUS
<1>1. ASSUME NEW x \in Ctxs, O!DigestInit(x) PROVE OpInv'
  <2>1. ~O!Live(ctx[x])
    BY <1>1 DEF O!DigestInit
  <2> PICK k \in app, op \in {"sign", "verify"}, md \in Names \cup {O!Null} :
          /\ k.type # "ecx"
          /\ \E p \in O!InitParams(k, md) : O!Begin(x, O!digest_init(O!newctx(op, k), x, md, p))
    BY <1>1 DEF O!DigestInit
  <2> PICK p \in O!InitParams(k, md) : O!Begin(x, O!digest_init(O!newctx(op, k), x, md, p))
    OBVIOUS
  <2> DEFINE c == O!newctx(op, k)
             r == O!digest_init(c, x, md, p)
  <2>2. k \in Keys
    BY DEF OpInv
  <2>3. p \in OpParams
    BY <2>2, OpInitParams
  <2>4. OpKept(c) /\ c.key = k /\ c.peer = O!NoKey
    BY <2>2, OpNew
  <2>5. O!Begin(x, r)
    OBVIOUS
  <2> HIDE DEF c
  <2>6. OpGood(r, c)
    BY <2>3, <2>4, OpDigestInit
  <2> HIDE DEF r
  <2> QED BY <2>1, <2>2, <2>4, <2>5, <2>6, OpBegins DEF OpGood
<1>2. ASSUME NEW x \in Ctxs, O!DeriveInit(x) PROVE OpInv'
  <2>1. ~O!Live(ctx[x])
    BY <1>2 DEF O!DeriveInit
  <2> PICK k \in app : O!Begin(x, O!Ok(O!newctx("derive", k)))
    BY <1>2 DEF O!DeriveInit
  <2> DEFINE c == O!newctx("derive", k)
             r == O!Ok(c)
  <2>2. k \in Keys
    BY DEF OpInv
  <2>3. OpKept(c) /\ c.key = k /\ c.peer = O!NoKey
    BY <2>2, OpNew
  <2>4. O!Begin(x, r)
    OBVIOUS
  <2> HIDE DEF c
  <2>5. r.ok \in BOOLEAN /\ OpKept(r.ctx) /\ r.ctx.key = k /\ r.ctx.peer = O!NoKey
    BY <2>3, OpOutcome
  <2> HIDE DEF r
  <2> QED BY <2>1, <2>2, <2>4, <2>5, OpBegins
<1>3. ASSUME NEW x \in Ctxs, O!DigestReinit(x) PROVE OpInv'
  <2>1. O!Live(ctx[x]) /\ OpKept(ctx[x]) /\ ctx[x].key \in Keys /\ app' = app
    BY <1>3 DEF O!DigestReinit, O!Digesting, OpInv, OpKept, OpCtx
  <2> DEFINE c == ctx[x]
             again(md, p) == CASE c.key.type = "oqs" -> O!Fail(c)
                               [] O!Edwards(c.key) ->
                                     IF md # O!Null THEN O!Fail(c)
                                     ELSE O!eddsa_set_ctx_params(c, p)
                               [] OTHER -> O!ecdsa_digest_init(c, x, md, p)
  <2>2. PICK md \in Names \cup {O!Null} : \E p \in O!InitParams(c.key, md) :
          IF again(md, p).ok THEN ctx' = [ctx EXCEPT ![x] = again(md, p).ctx] /\ UNCHANGED refs
          ELSE O!Drop(x, c)
    BY <1>3 DEF O!DigestReinit
  <2>12. PICK p \in O!InitParams(c.key, md) :
          IF again(md, p).ok THEN ctx' = [ctx EXCEPT ![x] = again(md, p).ctx] /\ UNCHANGED refs
          ELSE O!Drop(x, c)
    BY <2>2
  <2>3. p \in OpParams
    BY <2>1, OpInitParams
  <2> DEFINE r == again(md, p)
  <2>4. \/ r = O!Fail(c) \/ r = O!eddsa_set_ctx_params(c, p)
        \/ r = O!ecdsa_digest_init(c, x, md, p)
    BY DEF O!Edwards
  <2>5. OpKept(c)
    BY <2>1
  <2>6. IF r.ok THEN ctx' = [ctx EXCEPT ![x] = r.ctx] /\ UNCHANGED refs ELSE O!Drop(x, c)
    BY <2>12
  <2> HIDE DEF again, r
  <2>7. CASE r.ok
    <3>1. OpGood(r, c)
      <4> HIDE DEF c
      <4> QED BY <2>3, <2>4, <2>5, OpEdParams, OpEcDigestInit, OpGoodOutcome
    <3>2. OpKept(r.ctx) /\ r.ctx.key = ctx[x].key /\ r.ctx.peer = ctx[x].peer
      BY <3>1 DEF OpGood
    <3>3. ctx'[x] = r.ctx /\ ctx' = [ctx EXCEPT ![x] = ctx'[x]] /\ refs' = refs
      BY <2>6, <2>7 DEF OpInv
    <3> QED BY <2>1, <3>2, <3>3, OpChanged
  <2>8. CASE ~r.ok
    BY <2>1, <2>6, <2>8, OpDrops
  <2> QED BY <2>7, <2>8
<1>4. ASSUME NEW x \in Ctxs, O!SetParams(x) PROVE OpInv'
  <2>1. O!Live(ctx[x]) /\ OpKept(ctx[x]) /\ ctx[x].key \in Keys /\ app' = app /\ refs' = refs
    BY <1>4 DEF O!SetParams, OpInv, OpKept, OpCtx
  <2>2. PICK p \in O!ParamLists(ctx[x].key) :
            ctx' = [ctx EXCEPT ![x] = O!set_ctx_params(@, x, p).ctx]
    BY <1>4 DEF O!SetParams
  <2>3. p \in OpParams
    BY <2>1, OpLists
  <2>4. OpGood(O!set_ctx_params(ctx[x], x, p), ctx[x])
    BY <2>1, <2>3, OpSetParams
  <2>5. /\ ctx'[x] = O!set_ctx_params(ctx[x], x, p).ctx
        /\ ctx' = [ctx EXCEPT ![x] = ctx'[x]]
    BY <2>2 DEF OpInv
  <2>6. OpKept(ctx'[x]) /\ ctx'[x].key = ctx[x].key /\ ctx'[x].peer = ctx[x].peer
    BY <2>4, <2>5 DEF OpGood
  <2> QED BY <2>1, <2>5, <2>6, OpChanged
<1>5. ASSUME NEW x \in Ctxs, O!Update(x) PROVE OpInv'
  <2> DEFINE c == ctx[x]
             d == [c EXCEPT !.mdctx.n = @ + 1, !.fed = @ + 1,
                            !.allow = IF c.key.type = "oqs" THEN FALSE ELSE @]
             e == [c EXCEPT !.data = @ + 1, !.fed = @ + 1, !.allow = FALSE]
             m == [c.mdctx EXCEPT !.n = @ + 1]
  <2>1. /\ O!Live(c) /\ c \in OpCtx /\ OpKept(c) /\ c.fed < MaxChunks
        /\ app' = app /\ refs' = refs
    BY <1>5 DEF O!Update, O!Digesting, OpInv, OpKept
  <2>2. c.fed + 1 \in 0 .. MaxChunks
    BY <2>1, ContextsAssumption DEF OpCtx
  <2>3. \/ /\ c.mdctx # O!NoStream /\ ~c.mdctx.done /\ ctx' = [ctx EXCEPT ![x] = d]
        \/ c.key.type = "oqs" /\ ctx' = [ctx EXCEPT ![x] = e]
    BY <1>5 DEF O!Update, OpInv
  <2>4. ASSUME c.mdctx # O!NoStream PROVE OpKept(d) /\ d.key = c.key /\ d.peer = c.peer
    <3> HIDE DEF c
    <3>1. m \in Stream /\ m.n = c.mdctx.n + 1 /\ m.alg = c.mdctx.alg /\ m.done = c.mdctx.done
      BY <2>1 DEF OpCtx, Stream
    <3>2. /\ d \in OpCtx /\ d.key = c.key /\ d.peer = c.peer /\ d.mdctx = m /\ d.md = c.md
          /\ d.fed = c.fed + 1 /\ d.instance = c.instance
      BY <2>1, <2>2, <3>1 DEF OpCtx
    <3>3. ASSUME c.key.type \in {"dsa", "ec"}, ~m.done PROVE m.alg = c.md /\ m.n = c.fed + 1
      BY <2>1, <2>4, <3>1, <3>3 DEF OpKept, OpStream
    <3> HIDE DEF d, m
    <3> QED BY <2>1, <3>2, <3>3 DEF OpKept, OpStream
  <2>5. CASE /\ c.mdctx # O!NoStream /\ ~c.mdctx.done /\ ctx' = [ctx EXCEPT ![x] = d]
    <3> HIDE DEF d
    <3>1. ctx'[x] = d /\ ctx' = [ctx EXCEPT ![x] = ctx'[x]]
      BY <2>5 DEF OpInv
    <3> QED BY <2>1, <2>4, <2>5, <3>1, OpChanged
  <2>6. CASE c.key.type = "oqs" /\ ctx' = [ctx EXCEPT ![x] = e]
    <3>1. /\ e \in OpCtx /\ e.key = c.key /\ e.peer = c.peer /\ e.instance = c.instance
      <4> HIDE DEF c
      <4> DEFINE g == [c EXCEPT !.data = @ + 1]
                 h == [g EXCEPT !.fed = @ + 1]
      <4>1. g \in OpCtx /\ g.key = c.key /\ g.peer = c.peer /\ g.instance = c.instance
            /\ g.fed = c.fed
        BY <2>1 DEF OpCtx
      <4>2. e = [h EXCEPT !.allow = FALSE]
        BY <4>1
      <4> HIDE DEF g
      <4>3. h \in OpCtx /\ h.key = c.key /\ h.peer = c.peer /\ h.instance = c.instance
        BY <2>2, <4>1 DEF OpCtx
      <4> HIDE DEF e, h
      <4> QED BY <4>2, <4>3 DEF OpCtx
    <3> HIDE DEF e
    <3>2. OpKept(e)
      BY <2>1, <2>6, <3>1 DEF OpKept
    <3>3. ctx'[x] = e /\ ctx' = [ctx EXCEPT ![x] = ctx'[x]]
      BY <2>6 DEF OpInv
    <3> QED BY <2>1, <3>1, <3>2, <3>3, OpChanged
  <2> QED BY <2>3, <2>5, <2>6
<1>6. ASSUME NEW x \in Ctxs, O!SizeQuery(x) PROVE OpInv'
  <2>1. /\ O!Live(ctx[x]) /\ OpKept(ctx[x]) /\ app' = app /\ refs' = refs
        /\ ctx' = [ctx EXCEPT ![x].allow = TRUE]
    BY <1>6 DEF O!SizeQuery, O!Digesting, OpInv
  <2>2. ctx'[x] = [ctx[x] EXCEPT !.allow = TRUE] /\ ctx' = [ctx EXCEPT ![x] = ctx'[x]]
    BY <2>1 DEF OpInv
  <2>3. OpKept(ctx'[x]) /\ ctx'[x].key = ctx[x].key /\ ctx'[x].peer = ctx[x].peer
    BY <2>1, <2>2, OpUnlocked
  <2> QED BY <2>1, <2>2, <2>3, OpChanged
<1>7. ASSUME NEW x \in Ctxs, O!Final(x) PROVE OpInv'
  <2> DEFINE c == ctx[x]
             d == [c EXCEPT !.allow = TRUE, !.mdctx.done = TRUE]
             e == [c EXCEPT !.allow = TRUE]
             m == [c.mdctx EXCEPT !.done = TRUE]
  <2>1. /\ O!Live(c) /\ c \in OpCtx /\ OpKept(c) /\ app' = app /\ refs' = refs
    BY <1>7 DEF O!Final, O!Digesting, OpInv, OpKept
  <2>2. ctx' = [ctx EXCEPT ![x] = d] \/ ctx' = [ctx EXCEPT ![x] = e]
    BY <1>7 DEF O!Final, OpInv
  <2>3. OpKept(d) /\ d.key = c.key /\ d.peer = c.peer
    <3> HIDE DEF c
    <3>1. m \in Stream /\ m.done = TRUE
      BY <2>1 DEF OpCtx, Stream
    <3>2. /\ d \in OpCtx /\ d.key = c.key /\ d.peer = c.peer /\ d.mdctx = m /\ d.instance = c.instance
      BY <2>1, <3>1 DEF OpCtx
    <3> HIDE DEF d, m
    <3> QED BY <2>1, <3>1, <3>2 DEF OpKept, OpStream
  <2>4. OpKept(e) /\ e.key = c.key /\ e.peer = c.peer
    BY <2>1, OpUnlocked
  <2> HIDE DEF d, e
  <2>5. (ctx'[x] = d \/ ctx'[x] = e) /\ ctx' = [ctx EXCEPT ![x] = ctx'[x]]
    BY <2>2 DEF OpInv
  <2>6. OpKept(ctx'[x]) /\ ctx'[x].key = ctx[x].key /\ ctx'[x].peer = ctx[x].peer
    BY <2>3, <2>4, <2>5
  <2> QED BY <2>1, <2>5, <2>6, OpChanged
<1>8. ASSUME NEW x \in Ctxs, O!ecdh_set_peer(x) PROVE OpInv'
  <2> DEFINE c == ctx[x]
  <2> PICK k \in app :
          /\ k.type = c.key.type
          /\ ctx' = [ctx EXCEPT ![x].peer = k]
          /\ refs' = [n \in Keys |-> refs[n] + (IF n = k THEN 1 ELSE 0)
                                             - (IF n = c.peer THEN 1 ELSE 0)]
    BY <1>8 DEF O!ecdh_set_peer
  <2> DEFINE d == [c EXCEPT !.peer = k]
  <2>1. O!Live(c) /\ OpKept(c) /\ c \in OpCtx /\ k \in Keys /\ app' = app
    BY <1>8 DEF O!ecdh_set_peer, OpInv, OpKept
  <2>2. ctx'[x] = d /\ ctx' = [ctx EXCEPT ![x] = ctx'[x]]
    BY DEF OpInv
  <2>3. /\ d \in OpCtx /\ d.key = c.key /\ d.peer = k /\ d.mdctx = c.mdctx /\ d.md = c.md
        /\ d.fed = c.fed /\ d.instance = c.instance
    BY <2>1 DEF OpCtx
  <2>4. refs \in [Keys -> Nat]
    BY DEF OpInv
  <2>5. \A n \in Keys : refs'[n] = refs[n] + (IF n = k THEN 1 ELSE 0)
                                           - (IF n = c.peer THEN 1 ELSE 0)
    OBVIOUS
  <2>6. refs' \in [Keys -> Int]
    BY <2>4
  <2> HIDE DEF c, d
  <2>7. OpKept(d) /\ O!Live(d)
    BY <2>1, <2>3, OpLive DEF OpKept, OpStream
  <2>8. ASSUME NEW n \in Keys PROVE refs'[n] = refs[n] + OpUse(d, n) - OpUse(c, n)
    BY <2>1, <2>3, <2>4, <2>5, <2>7 DEF OpUse
  <2>9. \A n \in Keys : refs'[n] = refs[n] + OpUse(ctx'[x], n) - OpUse(ctx[x], n)
    BY <2>2, <2>8 DEF c
  <2> QED BY <2>1, <2>2, <2>6, <2>7, <2>9, OpReplacedOne
<1>9. ASSUME NEW y \in Ctxs, NEW x \in Ctxs, O!dupctx(y, x) PROVE OpInv'
  <2> DEFINE c == ctx[y]
             d == [c EXCEPT !.aid = IF c.key.type = "oqs" /\ @ # O!Null THEN x ELSE @]
  <2>1. /\ O!Live(c) /\ OpKept(c) /\ c \in OpCtx /\ ~O!Live(ctx[x]) /\ app' = app
        /\ ctx' = [ctx EXCEPT ![x] = d]
        /\ refs' = [k \in Keys |-> refs[k] + O!Count({f \in {"key", "peer"} : c[f] = k})]
    BY <1>9 DEF O!dupctx, OpInv, OpKept
  <2>2. /\ d \in OpCtx /\ d.key = c.key /\ d.peer = c.peer /\ d.mdctx = c.mdctx /\ d.md = c.md
        /\ d.fed = c.fed /\ d.instance = c.instance
    BY <2>1 DEF OpCtx
  <2>3. refs \in [Keys -> Nat]
    BY DEF OpInv
  <2> HIDE DEF c, d
  <2>4. ctx'[x] = d /\ ctx' = [ctx EXCEPT ![x] = ctx'[x]]
    BY <2>1 DEF OpInv
  <2>5. OpKept(d) /\ O!Live(d)
    BY <2>1, <2>2, OpLive DEF OpKept, OpStream
  <2>6. \A k \in Keys : /\ refs'[k] = refs[k] + OpUse(c, k) /\ OpUse(c, k) \in Nat
                        /\ OpUse(d, k) = OpUse(c, k) /\ OpUse(ctx[x], k) = 0
    BY <2>1, <2>2, <2>5, OpFields DEF OpUse
  <2>7. refs' \in [Keys -> Int]
    <3>1. refs' = [k \in Keys |-> refs'[k]]
      BY <2>1
    <3>2. \A k \in Keys : refs'[k] \in Int
      BY <2>3, <2>6
    <3> QED BY <3>1, <3>2
  <2>8. \A k \in Keys : refs'[k] = refs[k] + OpUse(ctx'[x], k) - OpUse(ctx[x], k)
    BY <2>3, <2>4, <2>6
  <2> QED BY <2>1, <2>4, <2>5, <2>7, <2>8, OpReplacedOne
<1>10. ASSUME NEW x \in Ctxs, O!freectx(x) PROVE OpInv'
  BY <1>10, OpDrops DEF O!freectx
<1>11. ASSUME NEW k \in Keys, O!FreeKey(k) PROVE OpInv'
  <2>1. k \in app /\ app' = app \ {k} /\ refs' = [refs EXCEPT ![k] = @ - 1] /\ ctx' = ctx
    BY <1>11 DEF O!FreeKey
  <2>2. refs \in [Keys -> Nat] /\ app \subseteq Keys
    BY DEF OpInv
  <2>3. ASSUME NEW j \in Keys
        PROVE /\ refs'[j] \in Nat
              /\ refs'[j] = (AppHolds(j) + Cardinality(KeyHolders(j)) + Cardinality(PeerHolders(j)))'
    <3>1. /\ refs[j] = AppHolds(j) + Cardinality(KeyHolders(j)) + Cardinality(PeerHolders(j))
          /\ Cardinality(KeyHolders(j)) \in Nat /\ Cardinality(PeerHolders(j)) \in Nat
      <4>1. IsFiniteSet(KeyHolders(j)) /\ IsFiniteSet(PeerHolders(j))
        BY ContextsAssumption, FS_Subset DEF KeyHolders, PeerHolders
      <4> QED BY <4>1, FS_CardinalityType DEF OpInv
    <3>2. KeyHolders(j)' = KeyHolders(j) /\ PeerHolders(j)' = PeerHolders(j)
      BY <2>1 DEF KeyHolders, PeerHolders
    <3>3. refs'[j] = IF j = k THEN refs[j] - 1 ELSE refs[j]
      BY <2>1, <2>2
    <3>4. AppHolds(j)' = IF j = k THEN AppHolds(j) - 1 ELSE AppHolds(j)
      BY <2>1 DEF AppHolds
    <3>5. AppHolds(j) \in {0, 1} /\ (j = k => AppHolds(j) = 1)
      BY <2>1 DEF AppHolds
    <3> QED BY <3>1, <3>2, <3>3, <3>4, <3>5
  <2>4. refs' \in [Keys -> Nat]
    <3>1. refs' = [j \in Keys |-> refs'[j]]
      BY <2>1, <2>2
    <3> QED BY <2>3, <3>1
  <2>5. \A j \in Keys :
          refs'[j] = (AppHolds(j) + Cardinality(KeyHolders(j)) + Cardinality(PeerHolders(j)))'
    BY <2>3
  <2> QED BY <2>1, <2>2, <2>4, <2>5 DEF OpInv
<1>12. CASE UNCHANGED O!vars
  BY <1>12 DEF O!vars, OpInv, KeyHolders, PeerHolders, AppHolds
<1> QED
  BY <1>1, <1>2, <1>3, <1>4, <1>5, <1>6, <1>7, <1>8, <1>9, <1>10, <1>11, <1>12 DEF O!Next

LEMMA OpRefs == OpInv => O!RefsExact
<1> SUFFICES ASSUME OpInv, NEW k \in Keys
             PROVE refs[k] = O!Count({k} \cap app)
                             + O!Count({x \in Ctxs : O!Live(ctx[x]) /\ ctx[x].key = k})
                             + O!Count({x \in Ctxs : O!Live(ctx[x]) /\ ctx[x].peer = k})
  BY DEF O!RefsExact
<1>1. Cardinality({k} \cap app) = AppHolds(k)
  <2>1. CASE k \in app
    <3>1. {k} \cap app = {k}
      BY <2>1
    <3> QED BY <2>1, <3>1, FS_Singleton DEF AppHolds
  <2>2. CASE k \notin app
    <3>1. {k} \cap app = {}
      BY <2>2
    <3> QED BY <2>2, <3>1, FS_EmptySet DEF AppHolds
  <2> QED BY <2>1, <2>2
<1>2. refs[k] = AppHolds(k) + Cardinality(KeyHolders(k)) + Cardinality(PeerHolders(k))
  BY DEF OpInv
<1> QED BY <1>1, <1>2, OpCount DEF KeyHolders, PeerHolders

LEMMA OpTypes == OpInv => O!TypeOK
BY DEF OpInv, OpKept, OpCtx, O!TypeOK

LEMMA OpWhole == OpInv => O!WholeMessage
<1> SUFFICES ASSUME OpInv, NEW x \in Ctxs, O!Digesting(ctx[x]), ctx[x].key.type \in {"dsa", "ec"}
             PROVE O!Whole(ctx[x])
  BY DEF O!WholeMessage
<1> DEFINE c == ctx[x]
<1>1. OpStream(c) /\ c.key.type # "oqs"
  BY DEF OpInv, OpKept, O!Digesting
<1>2. O!Whole(c)
  <2> HIDE DEF c
  <2> QED BY <1>1 DEF OpStream, O!Whole, O!Signed, O!Finalizes
<1> QED BY <1>2

(* The mechanism of the token signs what the pure instance without a string does, or what
   no context accepts; in software the instance and the string are in front of the message. *)
LEMMA OpEdVerifies == OpInv => O!EdVerifies
<1> SUFFICES ASSUME OpInv, NEW x \in {ctx[z] : z \in {w \in Ctxs : O!Digesting(ctx[w])}},
                    NEW y \in {ctx[z] : z \in {w \in Ctxs : O!Digesting(ctx[w])}},
                    O!Edwards(x.key), y.key = x.key, O!ed25519_digest_sign(x) # O!NoSig
             PROVE O!ed25519_digest_verify(y, O!ed25519_digest_sign(x)) <=> O!Accepts(y, x)
  BY DEF O!EdVerifies
<1>1. OpKept(x) /\ OpKept(y)
  BY DEF OpInv, O!Digesting
<1>2. /\ x.key.place \in {"token", "software"} /\ x.key.type \in {"ed25519", "ed448"}
      /\ x.instance \in O!Instances /\ y.instance \in O!Instances
      /\ (x.key.type = "ed448") = (x.instance \in {"Ed448", "Ed448ph"})
      /\ (x.key.type = "ed448") = (y.instance \in {"Ed448", "Ed448ph"})
  BY <1>1, ContextsAssumption DEF OpKept, OpCtx, O!Edwards, O!OfCurve, O!Key
<1>3. \A dom, hashed : O!ed25519_digest_verify(y, [dom |-> dom, hashed |-> hashed])
        <=> O!StringFits(y) /\ dom = O!Dom(y) /\ hashed = O!Prehash(y)
  BY DEF O!ed25519_digest_verify
<1>4. CASE x.key.place = "software"
  <2>1. O!StringFits(x) /\ O!ed25519_digest_sign(x) = [dom |-> O!Dom(x), hashed |-> O!Prehash(x)]
    BY <1>4 DEF O!ed25519_digest_sign
  <2>2. O!StringFits(y) /\ O!Dom(x) = O!Dom(y) /\ O!Prehash(x) = O!Prehash(y)
          <=> y.instance = x.instance /\ y.string = x.string
    BY <2>1 DEF O!StringFits, O!Dom, O!Prehash
  <2> QED BY <1>3, <1>4, <2>1, <2>2 DEF O!Accepts
<1>5. CASE x.key.place = "token"
  <2> DEFINE dom == IF x.key.type = "ed448" THEN <<"Ed448", O!Null>> ELSE <<>>
  <2>1. O!ed25519_digest_sign(x) = [dom |-> dom, hashed |-> O!Prehash(x)]
    BY <1>5 DEF O!ed25519_digest_sign
  <2>2. O!StringFits(y) /\ dom = O!Dom(y) <=> O!Pure(y) /\ y.string = O!Null
    BY <1>2 DEF O!Dom, O!Pure, O!StringFits
  <2>3. O!Pure(y) => (O!Prehash(x) = O!Prehash(y) <=> ~O!Prehash(x))
    BY DEF O!Pure, O!Prehash
  <2> HIDE DEF dom
  <2> QED BY <1>3, <1>5, <2>1, <2>2, <2>3 DEF O!Accepts
<1> QED BY <1>2, <1>4, <1>5
------------------------------------------------------------------------------
(* RSA signatures. *)

SigStreams == [alg : R!Digests \cup {R!Null}, n : Nat, done : BOOLEAN]
SigCtx == [op : {"sign", "verify", "recover"}, key : RsaKeys, digest : BOOLEAN, allow : BOOLEAN,
           mgf1Set : BOOLEAN, md : R!Digests \cup {R!Null}, mdctx : SigStreams,
           mgf1 : R!Digests \cup {R!Null}, pad : R!Pads \ {"oaep"}, salt : Int, min : Int,
           fed : 0 .. SigChunks]

(* A stream that may still be finished is of the digest the context names and has every
   chunk. *)
SigStream(c) == c.mdctx # R!NoStream /\ ~c.mdctx.done => c.mdctx.alg = c.md /\ c.mdctx.n = c.fed

(* A context of a restricted key keeps the digests and the minimum of the key, and no salt
   that is set falls short of the minimum. *)
SigRestricted(c) ==
    R!Restricted(c.key) =>
        /\ c.pad = "pss" /\ c.md = c.key.md /\ c.md \in R!Digests
        /\ c.mgf1 = c.key.mgf1 /\ c.mgf1Set
        /\ c.min = c.key.min
        /\ c.salt = R!SaltDigest => c.min <= R!Size[c.md]
        /\ c.salt >= 0 => c.salt >= c.min
        /\ c.op = "verify" => c.salt # R!Auto

SigBegun(c) == c \in SigCtx /\ SigStream(c)
SigKept(c) == SigBegun(c) /\ c.salt >= R!SaltMax /\ SigRestricted(c)

LEMMA SigOutcome ==
    ASSUME NEW c
    PROVE /\ R!Ok(c).ok = TRUE /\ R!Ok(c).ctx = c
          /\ R!Fail(c).ok = FALSE /\ R!Fail(c).ctx = c
BY DEF R!Ok, R!Fail

LEMMA SigDigests == R!Digests = {"sha1", "sha256", "sha3_256"} /\ R!Null \notin R!Digests
BY DEF R!Digests, R!Size, R!Null

LEMMA SigNoStream == R!NoStream \in SigStreams
BY DEF R!NoStream, SigStreams

LEMMA SigStreamsEqual ==
    \A a, b \in SigStreams : a.alg = b.alg /\ a.n = b.n /\ a.done = b.done => a = b
BY DEF SigStreams

(* What naming a digest leaves alone. *)
SigSame(d, c) == /\ d.key = c.key /\ d.op = c.op /\ d.pad = c.pad /\ d.salt = c.salt
                 /\ d.min = c.min /\ d.mgf1Set = c.mgf1Set

LEMMA SigSetupMd ==
    ASSUME NEW c, SigBegun(c), NEW md
    PROVE LET r == R!rsa_setup_md(c, md)
          IN /\ r.ok \in BOOLEAN /\ SigBegun(r.ctx) /\ SigSame(r.ctx, c)
             /\ c.mgf1Set => r.ctx.mgf1 = c.mgf1
             /\ c.pad = "pss" /\ c.min # R!NoMin => r.ctx.md = c.md
             /\ r.ok /\ (c.allow \/ c.md # R!Null) => r.ctx.md = md /\ md \in R!Digests
<1> DEFINE d == [c EXCEPT !.md = md, !.mdctx = R!NoStream,
                          !.mgf1 = IF c.mgf1Set THEN @ ELSE md]
           r == R!rsa_setup_md(c, md)
           Goal(t) == /\ t.ok \in BOOLEAN /\ SigBegun(t.ctx) /\ SigSame(t.ctx, c)
                      /\ c.mgf1Set => t.ctx.mgf1 = c.mgf1
                      /\ c.pad = "pss" /\ c.min # R!NoMin => t.ctx.md = c.md
                      /\ t.ok /\ (c.allow \/ c.md # R!Null) => t.ctx.md = md /\ md \in R!Digests
<1>1. Goal(R!Fail(c))
  <2> DEFINE t == R!Fail(c)
  <2>1. t.ok = FALSE /\ t.ctx = c
    BY SigOutcome
  <2> HIDE DEF t
  <2>2. Goal(t)
    BY <2>1 DEF SigSame
  <2> QED BY <2>2 DEF t
<1>2. ASSUME md \in R!Digests, ~c.allow, c.md \in {R!Null, md} PROVE Goal(R!Ok(c))
  <2> DEFINE t == R!Ok(c)
  <2>1. t.ok = TRUE /\ t.ctx = c
    BY SigOutcome
  <2> HIDE DEF t
  <2>2. Goal(t)
    BY <1>2, <2>1 DEF SigSame
  <2> QED BY <2>2 DEF t
<1>3. ASSUME md \in R!Digests, R!rsa_check_padding(c, md, R!Null, md) PROVE Goal(R!Ok(d))
  <2>1. /\ d \in SigCtx /\ SigSame(d, c) /\ d.mdctx = R!NoStream /\ d.md = md
        /\ c.mgf1Set => d.mgf1 = c.mgf1
    BY <1>3, SigNoStream DEF SigBegun, SigCtx, SigSame
  <2>2. c.pad = "pss" /\ c.min # R!NoMin => c.md = md
    BY <1>3, SigDigests DEF R!rsa_check_padding
  <2> HIDE DEF d
  <2> DEFINE t == R!Ok(d)
  <2>3. t.ok = TRUE /\ t.ctx = d
    BY SigOutcome
  <2> HIDE DEF t
  <2>4. SigBegun(d)
    BY <2>1 DEF SigBegun, SigStream
  <2>5. Goal(t)
    BY <1>3, <2>1, <2>2, <2>3, <2>4
  <2> QED BY <2>5 DEF t
<1>4. \/ r = R!Fail(c)
      \/ md \in R!Digests /\ ~c.allow /\ c.md \in {R!Null, md} /\ r = R!Ok(c)
      \/ md \in R!Digests /\ R!rsa_check_padding(c, md, R!Null, md) /\ r = R!Ok(d)
  BY DEF R!rsa_setup_md
<1> HIDE DEF d, Goal, r
<1>5. Goal(r)
  BY <1>1, <1>2, <1>3, <1>4
<1> QED BY <1>5 DEF Goal, r

LEMMA SigSetupMgf1 ==
    ASSUME NEW c, SigBegun(c), NEW md \in R!Digests \cup {R!Null}
    PROVE LET r == R!rsa_setup_mgf1_md(c, md)
          IN /\ r.ok \in BOOLEAN /\ SigBegun(r.ctx)
             /\ r.ctx.key = c.key /\ r.ctx.op = c.op /\ r.ctx.pad = c.pad
             /\ r.ctx.salt = c.salt /\ r.ctx.min = c.min /\ r.ctx.md = c.md
             /\ r.ctx.allow = c.allow
             /\ ~r.ok => r.ctx = c
             /\ r.ok => /\ r.ctx.mgf1 = md /\ r.ctx.mgf1Set
                        /\ c.pad = "pss" /\ c.min # R!NoMin => md \in {R!Null, c.mgf1}
<1> DEFINE d == [c EXCEPT !.mgf1 = md, !.mgf1Set = TRUE]
           r == R!rsa_setup_mgf1_md(c, md)
           Goal(t) == /\ t.ok \in BOOLEAN /\ SigBegun(t.ctx)
                      /\ t.ctx.key = c.key /\ t.ctx.op = c.op /\ t.ctx.pad = c.pad
                      /\ t.ctx.salt = c.salt /\ t.ctx.min = c.min /\ t.ctx.md = c.md
                      /\ t.ctx.allow = c.allow
                      /\ ~t.ok => t.ctx = c
                      /\ t.ok => /\ t.ctx.mgf1 = md /\ t.ctx.mgf1Set
                                 /\ c.pad = "pss" /\ c.min # R!NoMin => md \in {R!Null, c.mgf1}
<1>1. Goal(R!Fail(c))
  BY SigOutcome
<1>2. ASSUME R!rsa_check_padding(c, R!Null, md, md) PROVE Goal(R!Ok(d))
  <2>1. /\ d \in SigCtx /\ d.key = c.key /\ d.op = c.op /\ d.pad = c.pad /\ d.salt = c.salt
        /\ d.min = c.min /\ d.md = c.md /\ d.allow = c.allow /\ d.mgf1 = md /\ d.mgf1Set
        /\ d.mdctx = c.mdctx /\ d.fed = c.fed
    BY DEF SigBegun, SigCtx
  <2>2. c.pad = "pss" /\ c.min # R!NoMin => md \in {R!Null, c.mgf1}
    BY <1>2 DEF R!rsa_check_padding
  <2> HIDE DEF d
  <2> DEFINE t == R!Ok(d)
  <2>3. t.ok = TRUE /\ t.ctx = d
    BY SigOutcome
  <2> HIDE DEF t
  <2>4. SigBegun(d)
    BY <2>1 DEF SigBegun, SigStream
  <2>5. Goal(t)
    BY <2>1, <2>2, <2>3, <2>4
  <2> QED BY <2>5 DEF t
<1>3. r = R!Fail(c) \/ (R!rsa_check_padding(c, R!Null, md, md) /\ r = R!Ok(d))
  BY DEF R!rsa_setup_mgf1_md
<1> HIDE DEF d, Goal, r
<1>4. Goal(r)
  BY <1>1, <1>2, <1>3
<1> QED BY <1>4 DEF Goal, r

(* Naming the digest of a context, or the digest of MGF1, keeps the restrictions. *)
LEMMA SigKeepsMd ==
    ASSUME NEW c, SigKept(c), NEW md
    PROVE LET r == R!rsa_setup_md(c, md)
          IN r.ok \in BOOLEAN /\ SigKept(r.ctx) /\ r.ctx.key = c.key /\ r.ctx.op = c.op
<1> DEFINE r == R!rsa_setup_md(c, md)
           d == r.ctx
<1>1. /\ r.ok \in BOOLEAN /\ SigBegun(d) /\ SigSame(d, c)
      /\ c.mgf1Set => d.mgf1 = c.mgf1
      /\ c.pad = "pss" /\ c.min # R!NoMin => d.md = c.md
  BY SigSetupMd DEF SigKept
<1>2. SigKept(c)
  OBVIOUS
<1> HIDE DEF d
<1>3. SigKept(d)
  <2>1. R!Restricted(c.key) => c.min # R!NoMin
    BY <1>2 DEF SigKept, SigRestricted, R!Restricted
  <2> QED BY <1>1, <1>2, <2>1 DEF SigKept, SigRestricted, SigSame
<1> QED BY <1>1, <1>3 DEF SigSame, d

LEMMA SigKeepsMgf1 ==
    ASSUME NEW c, SigKept(c), NEW md \in R!Digests
    PROVE LET r == R!rsa_setup_mgf1_md(c, md)
          IN r.ok \in BOOLEAN /\ SigKept(r.ctx) /\ r.ctx.key = c.key /\ r.ctx.op = c.op
<1> DEFINE r == R!rsa_setup_mgf1_md(c, md)
           d == r.ctx
<1>1. /\ r.ok \in BOOLEAN /\ SigBegun(d)
      /\ d.key = c.key /\ d.op = c.op /\ d.pad = c.pad /\ d.salt = c.salt
      /\ d.min = c.min /\ d.md = c.md
      /\ ~r.ok => d = c
      /\ r.ok => /\ d.mgf1 = md /\ d.mgf1Set
                 /\ c.pad = "pss" /\ c.min # R!NoMin => md \in {R!Null, c.mgf1}
  BY SigSetupMgf1 DEF SigKept
<1>2. SigKept(c)
  OBVIOUS
<1> HIDE DEF d
<1>3. SigKept(d)
  <2>1. R!Restricted(c.key) => c.min # R!NoMin
    BY <1>2 DEF SigKept, SigRestricted, R!Restricted
  <2>2. md # R!Null
    BY SigDigests
  <2> QED BY <1>1, <1>2, <2>1, <2>2 DEF SigKept, SigRestricted
<1> QED BY <1>1, <1>3 DEF d

(* A parameter list keeps the restrictions of the key, whether it is refused or not. *)
LEMMA SigParams ==
    ASSUME NEW c, SigKept(c), NEW p \in R!Params
    PROVE LET r == R!rsa_set_ctx_params(c, p)
          IN r.ok \in BOOLEAN /\ SigKept(r.ctx) /\ r.ctx.key = c.key /\ r.ctx.op = c.op
<1> DEFINE pad == IF p.pad = R!Null THEN c.pad ELSE p.pad
           salt == IF p.salt = R!NoSalt THEN c.salt ELSE p.salt
           md == IF p.md = R!Null /\ c.md = R!Null /\ pad = "pss" THEN R!Default ELSE p.md
           b == [c EXCEPT !.pad = pad, !.salt = salt]
           m == IF p.mgf1 = R!Null THEN R!Ok(b) ELSE R!rsa_setup_mgf1_md(b, p.mgf1)
           d == m.ctx
           f == IF md # R!Null THEN R!rsa_setup_md(d, md)
                ELSE IF R!rsa_check_padding(d, R!Null, R!Null, d.md) THEN R!Ok(d) ELSE R!Fail(d)
           r == R!rsa_set_ctx_params(c, p)
           Goal(t) == t.ok \in BOOLEAN /\ SigKept(t.ctx) /\ t.ctx.key = c.key /\ t.ctx.op = c.op
           Allowed == R!PadAllowed(c, p.pad) /\ R!SaltAllowed(c, pad, p.salt)
<1>1. \/ r = R!Ok(c) \/ r = R!Fail(c) \/ (Allowed /\ r = m) \/ (Allowed /\ r = f)
  BY DEF R!rsa_set_ctx_params, R!Then
<1>2. Goal(R!Ok(c)) /\ Goal(R!Fail(c))
  BY SigOutcome
<1>p. /\ p.pad \in R!Pads \cup {R!Null} /\ p.salt \in Int /\ p.mgf1 \in R!Digests \cup {R!Null}
  BY DEF R!Params
<1>c. /\ c \in SigCtx /\ c.key \in RsaKeys /\ SigStream(c) /\ c.salt >= R!SaltMax /\ c.salt \in Int
      /\ SigRestricted(c)
  BY DEF SigKept, SigBegun, SigCtx
<1>3. ASSUME Allowed PROVE SigKept(b) /\ b.key = c.key /\ b.op = c.op
  <2>1. pad \in R!Pads \ {"oaep"}
    BY <1>3, <1>c DEF R!PadAllowed, SigCtx, R!Pads
  <2>2. salt \in Int /\ salt >= R!SaltMax
    BY <1>3, <1>p, <1>c DEF R!SaltAllowed
  <2>3. R!Restricted(c.key) => pad = "pss"
    <3>1. R!Restricted(c.key) => c.key.type = "pss"
      BY <1>c, ContextsAssumption
    <3> QED BY <1>3, <1>c, <3>1 DEF R!PadAllowed, SigRestricted
  <2>4. R!Restricted(c.key) =>
            /\ salt = R!SaltDigest => c.min <= R!Size[c.md]
            /\ salt >= 0 => salt >= c.min
            /\ c.op = "verify" => salt # R!Auto
    <3>1. CASE p.salt = R!NoSalt
      BY <1>c, <3>1 DEF SigRestricted
    <3>2. CASE p.salt # R!NoSalt
      <4>1. R!Restricted(c.key) => c.min # R!NoMin
        BY <1>c DEF SigRestricted, R!Restricted
      <4> QED BY <1>3, <3>2, <4>1 DEF R!SaltAllowed
    <3> QED BY <3>1, <3>2
  <2> HIDE DEF pad, salt
  <2>5. /\ b \in SigCtx /\ b.key = c.key /\ b.op = c.op /\ b.pad = pad /\ b.salt = salt
        /\ b.min = c.min /\ b.md = c.md /\ b.mgf1 = c.mgf1 /\ b.mgf1Set = c.mgf1Set
        /\ b.mdctx = c.mdctx /\ b.fed = c.fed
    BY <1>c, <2>1, <2>2 DEF SigCtx
  <2> HIDE DEF b
  <2> QED BY <1>c, <2>2, <2>3, <2>4, <2>5 DEF SigKept, SigBegun, SigStream, SigRestricted
<1> HIDE DEF pad, salt, b
<1>4. ASSUME Allowed PROVE Goal(m) /\ SigKept(d) /\ d.key = c.key /\ d.op = c.op
  <2>1. CASE p.mgf1 = R!Null
    <3>1. m = R!Ok(b)
      BY <2>1
    <3> HIDE DEF m
    <3> QED BY <1>3, <1>4, <3>1, SigOutcome
  <2>2. CASE p.mgf1 # R!Null
    <3>1. m = R!rsa_setup_mgf1_md(b, p.mgf1)
      BY <2>2
    <3>2. p.mgf1 \in R!Digests
      BY <1>p, <2>2
    <3> HIDE DEF m
    <3> QED BY <1>3, <1>4, <3>1, <3>2, SigKeepsMgf1
  <2> QED BY <2>1, <2>2
<1> HIDE DEF m, d, md
<1>5. ASSUME Allowed PROVE Goal(f)
  <2>1. \/ f = R!rsa_setup_md(d, md) \/ f = R!Ok(d) \/ f = R!Fail(d)
    OBVIOUS
  <2> HIDE DEF f
  <2>2. CASE f = R!rsa_setup_md(d, md)
    BY <1>4, <1>5, <2>2, SigKeepsMd
  <2>3. CASE f = R!Ok(d) \/ f = R!Fail(d)
    <3>1. f.ok \in BOOLEAN /\ f.ctx = d
      <4>1. R!Ok(d).ok = TRUE /\ R!Ok(d).ctx = d /\ R!Fail(d).ok = FALSE /\ R!Fail(d).ctx = d
        BY SigOutcome
      <4>2. CASE f = R!Ok(d)
        BY <4>1, <4>2
      <4>3. CASE f = R!Fail(d)
        BY <4>1, <4>3
      <4> QED BY <2>3, <4>2, <4>3
    <3> QED BY <1>4, <1>5, <3>1
  <2> QED BY <2>1, <2>2, <2>3
<1> HIDE DEF f, r, Goal, Allowed
<1>6. Goal(r)
  BY <1>1, <1>2, <1>4, <1>5
<1> QED BY <1>6 DEF Goal, r

LEMMA SigNew ==
    /\ R!rsa_newctx \in [op : {"none"}, key : {R!Null}, digest : {FALSE}, allow : {TRUE},
                         mgf1Set : {FALSE}, md : {R!Null}, mdctx : {R!NoStream}, mgf1 : {R!Null},
                         pad : {R!Null}, salt : {R!Auto}, min : {R!NoMin}, fed : {0}]
BY DEF R!rsa_newctx

(* An initialization lifts the restrictions of the key and, if it succeeds, has set them
   again. *)
LEMMA SigInitKeeps ==
    ASSUME NEW c, NEW k \in RsaKeys, c = R!rsa_newctx \/ (SigKept(c) /\ c.key = k),
           NEW op \in {"sign", "verify", "recover"}, NEW p \in R!Params,
           R!rsa_signverify_init(c, k, op, p).ok
    PROVE SigKept(R!rsa_signverify_init(c, k, op, p).ctx)
          /\ R!rsa_signverify_init(c, k, op, p).ctx.key = k
<1> DEFINE salt == IF R!Restricted(k) THEN k.min ELSE R!Auto
           pad == IF k.type = "rsa" THEN "pkcs1" ELSE "pss"
           b == [c EXCEPT !.key = k, !.op = op, !.min = R!NoMin, !.salt = salt, !.pad = pad]
           m == R!rsa_setup_mgf1_md(b, k.mgf1)
           n == R!rsa_setup_md(m.ctx, k.md)
           t == R!rsa_check_parameters(n.ctx, k.min)
           r == R!rsa_signverify_init(c, k, op, p)
<1>k. /\ k.min \in Int /\ k.type \in {"rsa", "pss"}
      /\ k.md \in R!Digests \cup {R!Null} /\ k.mgf1 \in R!Digests \cup {R!Null}
      /\ R!Restricted(k) => k.type = "pss"
  BY ContextsAssumption DEF R!Key
<1>1. /\ b \in SigCtx /\ b.key = k /\ b.op = op /\ b.min = R!NoMin
      /\ b.salt = (IF R!Restricted(k) THEN k.min ELSE R!Auto)
      /\ b.pad = (IF k.type = "rsa" THEN "pkcs1" ELSE "pss")
      /\ b.mdctx = c.mdctx /\ b.md = c.md /\ b.fed = c.fed /\ b.allow = c.allow
  <2>1. R!NoMin \in Int /\ R!Auto \in Int /\ "pkcs1" \in R!Pads \ {"oaep"} /\ "pss" \in R!Pads \ {"oaep"}
    BY DEF R!NoMin, R!Auto, R!Pads
  <2>2. CASE c = R!rsa_newctx
    <3>1. 0 \in 0 .. SigChunks
      BY ContextsAssumption
    <3> HIDE DEF R!rsa_newctx
    <3> QED BY <1>k, <2>1, <2>2, <3>1, SigNew, SigNoStream DEF SigCtx
  <2>3. CASE SigKept(c) /\ c.key = k
    <3>1. c \in SigCtx
      BY <2>3 DEF SigKept, SigBegun
    <3>2. salt \in Int
      BY <1>k, <2>1
    <3>3. pad \in R!Pads \ {"oaep"}
      BY <2>1
    <3> HIDE DEF salt, pad
    <3>4. /\ b \in SigCtx /\ b.key = k /\ b.op = op /\ b.min = R!NoMin /\ b.salt = salt
          /\ b.pad = pad /\ b.mdctx = c.mdctx /\ b.md = c.md /\ b.fed = c.fed
          /\ b.allow = c.allow
      BY <2>1, <3>1, <3>2, <3>3 DEF SigCtx
    <3> HIDE DEF b
    <3> QED BY <3>4 DEF salt, pad
  <2> QED BY <2>2, <2>3
<1>2. SigBegun(b)
  <2>1. CASE c = R!rsa_newctx
    <3>1. b.mdctx = R!NoStream
      BY <1>1, <2>1, SigNew
    <3> HIDE DEF b
    <3> QED BY <1>1, <3>1 DEF SigBegun, SigStream
  <2>2. CASE SigKept(c) /\ c.key = k
    <3> HIDE DEF b
    <3> QED BY <1>1, <2>2 DEF SigKept, SigBegun, SigStream
  <2> QED BY <2>1, <2>2
<1>3. CASE ~R!Restricted(k)
  <2>1. SigKept(b)
    <3> HIDE DEF b
    <3> QED BY <1>1, <1>2, <1>3 DEF SigKept, SigRestricted, R!Auto, R!SaltMax
  <2>2. r = R!rsa_set_ctx_params(b, p)
    <3>1. r = R!Then(R!Ok(b), LAMBDA d : R!rsa_set_ctx_params(d, p))
      BY <1>3 DEF R!rsa_signverify_init
    <3> HIDE DEF b, r
    <3> QED BY <3>1, SigOutcome DEF R!Then
  <2> HIDE DEF b, r
  <2>3. SigKept(r.ctx) /\ r.ctx.key = k
    BY <1>1, <2>1, <2>2, SigParams
  <2> QED BY <2>3 DEF r
<1>4. CASE R!Restricted(k)
  <2>1. /\ m.ok \in BOOLEAN /\ SigBegun(m.ctx)
        /\ m.ctx.key = k /\ m.ctx.op = op /\ m.ctx.pad = "pss" /\ m.ctx.salt = k.min
        /\ m.ctx.min = R!NoMin /\ m.ctx.md = c.md /\ m.ctx.allow = c.allow
        /\ m.ok => m.ctx.mgf1 = k.mgf1 /\ m.ctx.mgf1Set
    <3> HIDE DEF b
    <3>1. b.pad = "pss" /\ b.salt = k.min
      BY <1>k, <1>1, <1>4
    <3>2. /\ m.ok \in BOOLEAN /\ SigBegun(m.ctx)
          /\ m.ctx.key = b.key /\ m.ctx.op = b.op /\ m.ctx.pad = b.pad
          /\ m.ctx.salt = b.salt /\ m.ctx.min = b.min /\ m.ctx.md = b.md
          /\ m.ctx.allow = b.allow
          /\ m.ok => m.ctx.mgf1 = k.mgf1 /\ m.ctx.mgf1Set
      BY <1>k, <1>2, SigSetupMgf1
    <3> HIDE DEF m
    <3> QED BY <1>1, <3>1, <3>2
  <2>2. c.allow \/ c.md # R!Null
    <3>1. CASE c = R!rsa_newctx
      BY <3>1, SigNew
    <3>2. CASE SigKept(c) /\ c.key = k
      BY <1>4, <3>2, SigDigests DEF SigKept, SigRestricted
    <3> QED BY <3>1, <3>2
  <2>3. /\ n.ok \in BOOLEAN /\ SigBegun(n.ctx) /\ SigSame(n.ctx, m.ctx)
        /\ m.ctx.mgf1Set => n.ctx.mgf1 = m.ctx.mgf1
        /\ n.ok => n.ctx.md = k.md /\ k.md \in R!Digests
    <3> HIDE DEF m
    <3> QED BY <2>1, <2>2, SigSetupMd
  <2>4. n.ok /\ m.ok /\ t.ok => SigKept(t.ctx) /\ t.ctx.key = k
    <3> DEFINE e == n.ctx
               g == [e EXCEPT !.min = k.min]
    <3> SUFFICES ASSUME n.ok, m.ok, t.ok PROVE SigKept(t.ctx) /\ t.ctx.key = k
      OBVIOUS
    <3>1. /\ e.key = k /\ e.op = op /\ e.pad = "pss" /\ e.salt = k.min /\ e.mgf1Set
          /\ e.mgf1 = k.mgf1 /\ e.md = k.md /\ k.md \in R!Digests /\ SigBegun(e)
      BY <2>1, <2>3 DEF SigSame
    <3>2. k.min \in 0 .. R!RSA_size(e.key) - R!Size[e.md] - R!Spare(e.key) /\ t = R!Ok(g)
      <4>1. R!Fail(e).ok = FALSE
        BY SigOutcome
      <4> HIDE DEF e
      <4> QED BY <3>1, <4>1 DEF R!rsa_check_parameters, e
    <3>3. k.min \in Nat
      BY <3>2, <1>k
    <3> HIDE DEF e
    <3>4. /\ g \in SigCtx /\ g.key = e.key /\ g.op = e.op /\ g.pad = e.pad /\ g.salt = e.salt
          /\ g.md = e.md /\ g.mgf1 = e.mgf1 /\ g.mgf1Set = e.mgf1Set /\ g.mdctx = e.mdctx
          /\ g.fed = e.fed /\ g.min = k.min
      BY <1>k, <3>1 DEF SigBegun, SigCtx
    <3> HIDE DEF g
    <3>5. SigKept(g)
      BY <3>1, <3>3, <3>4 DEF SigKept, SigBegun, SigStream, SigRestricted, R!SaltMax,
                              R!SaltDigest, R!Auto
    <3>6. R!Ok(g).ctx = g
      BY SigOutcome
    <3> HIDE DEF b, m, n, t
    <3> QED BY <3>1, <3>2, <3>4, <3>5, <3>6
  <2>5. m.ok /\ n.ok /\ t.ok /\ r = R!rsa_set_ctx_params(t.ctx, p)
    <3> DEFINE u == R!Then(R!Then(m, LAMBDA d : R!rsa_setup_md(d, k.md)),
                           LAMBDA d : R!rsa_check_parameters(d, k.min))
    <3>1. r = R!Then(u, LAMBDA d : R!rsa_set_ctx_params(d, p))
      BY <1>4 DEF R!rsa_signverify_init
    <3>2. r.ok
      OBVIOUS
    <3> HIDE DEF b, m
    <3>3. u = IF m.ok THEN IF n.ok THEN t ELSE n ELSE m
      BY DEF R!Then
    <3> HIDE DEF n, t, u, r
    <3> QED BY <3>1, <3>2, <3>3 DEF R!Then
  <2> HIDE DEF b, m, n, t, r
  <2>6. SigKept(r.ctx) /\ r.ctx.key = k
    BY <2>4, <2>5, SigParams
  <2> QED BY <2>6 DEF r
<1> QED BY <1>3, <1>4

LEMMA SigDigestInitKeeps ==
    ASSUME NEW c, NEW k \in RsaKeys, c = R!rsa_newctx \/ (SigKept(c) /\ c.key = k),
           NEW op \in {"sign", "verify", "recover"}, NEW md, NEW p \in R!Params,
           R!rsa_digest_signverify_init(c, k, op, md, p).ok
    PROVE SigKept(R!rsa_digest_signverify_init(c, k, op, md, p).ctx)
<1> DEFINE r == R!rsa_signverify_init(c, k, op, p)
           m == IF r.ctx.md = md THEN R!Ok(r.ctx) ELSE R!rsa_setup_md(r.ctx, md)
           d == m.ctx
           g == [d EXCEPT !.digest = TRUE, !.allow = FALSE, !.fed = 0,
                          !.mdctx = [alg |-> d.md, n |-> 0, done |-> FALSE]]
           t == R!rsa_digest_signverify_init(c, k, op, md, p)
<1>1. t = IF r.ok THEN IF m.ok THEN R!Ok(g) ELSE m ELSE r
  BY DEF R!rsa_digest_signverify_init, R!Then
<1>2. t.ok
  OBVIOUS
<1> HIDE DEF t
<1>3. r.ok /\ m.ok /\ t = R!Ok(g)
  <2> HIDE DEF r, m, g
  <2> QED BY <1>1, <1>2
<1>4. SigKept(r.ctx)
  BY <1>3, SigInitKeeps
<1>5. SigKept(d)
  <2> HIDE DEF r
  <2>1. CASE r.ctx.md = md
    BY <1>4, <2>1, SigOutcome
  <2>2. CASE r.ctx.md # md
    BY <1>4, <2>2, SigKeepsMd
  <2> QED BY <2>1, <2>2
<1> HIDE DEF r, m, d
<1>6. SigKept(g)
  <2> DEFINE w == [alg |-> d.md, n |-> 0, done |-> FALSE]
  <2>1. w \in SigStreams /\ w.alg = d.md /\ w.n = 0 /\ 0 \in 0 .. SigChunks
    BY <1>5, ContextsAssumption DEF SigKept, SigBegun, SigCtx, SigStreams
  <2>2. g = [d EXCEPT !.digest = TRUE, !.allow = FALSE, !.fed = 0, !.mdctx = w]
    OBVIOUS
  <2> HIDE DEF g, w
  <2>3. /\ g \in SigCtx /\ g.key = d.key /\ g.op = d.op /\ g.pad = d.pad /\ g.salt = d.salt
        /\ g.md = d.md /\ g.mgf1 = d.mgf1 /\ g.mgf1Set = d.mgf1Set /\ g.min = d.min
        /\ g.mdctx = w /\ g.fed = 0
    BY <1>5, <2>1, <2>2 DEF SigKept, SigBegun, SigCtx
  <2> QED BY <1>5, <2>1, <2>3 DEF SigKept, SigBegun, SigStream, SigRestricted
<1> HIDE DEF g
<1>7. t.ctx = g
  BY <1>3, SigOutcome
<1> QED BY <1>6, <1>7 DEF t

SigInv ==
    /\ sets \in 0 .. MaxSets
    /\ rsa \in [Ctxs -> SigCtx \cup {R!Free}]
    /\ \A x \in Ctxs : R!Live(rsa[x]) => SigKept(rsa[x])

LEMMA SigLive ==
    /\ ~R!Live(R!Free)
    /\ \A c \in SigCtx : R!Live(c)
BY DEF R!Live, R!Free, SigCtx

LEMMA SigInvInit == R!Init => SigInv
BY SigLive, ContextsAssumption DEF R!Init, SigInv

(* A step changes one context. *)
LEMMA SigReplaced ==
    ASSUME SigInv, NEW x \in Ctxs, rsa' = [rsa EXCEPT ![x] = rsa'[x]],
           rsa'[x] = R!Free \/ SigKept(rsa'[x]), sets' \in 0 .. MaxSets
    PROVE SigInv'
<1>1. rsa' \in [Ctxs -> SigCtx \cup {R!Free}]
  BY DEF SigInv, SigKept, SigBegun
<1>2. \A y \in Ctxs \ {x} : rsa'[y] = rsa[y]
  BY DEF SigInv
<1> QED BY <1>1, <1>2, SigLive DEF SigInv

(* Only the lock of the digest, the progress of the stream or the chunks change. *)
LEMMA SigProgress ==
    ASSUME NEW c, SigKept(c), NEW d \in SigCtx, d.key = c.key, d.op = c.op, d.pad = c.pad,
           d.salt = c.salt, d.md = c.md, d.mgf1 = c.mgf1, d.mgf1Set = c.mgf1Set, d.min = c.min,
           SigStream(d)
    PROVE SigKept(d)
BY DEF SigKept, SigBegun, SigRestricted

LEMMA SigInvStep == SigInv /\ [R!Next]_(R!vars) => SigInv'
<1> SUFFICES ASSUME SigInv, [R!Next]_(R!vars) PROVE SigInv'
  OBVIOUS
<1>s. sets \in 0 .. MaxSets /\ rsa \in [Ctxs -> SigCtx \cup {R!Free}]
  BY DEF SigInv
<1>l. InitLists \subseteq R!Params /\ SigLists \subseteq R!Params
  BY ContextsAssumption
<1>k. ASSUME NEW x \in Ctxs, R!Live(rsa[x])
      PROVE SigKept(rsa[x]) /\ rsa[x] \in SigCtx /\ rsa[x].key \in RsaKeys
  BY <1>k DEF SigInv, SigKept, SigBegun, SigCtx
<1>1. ASSUME NEW x \in Ctxs, R!SignInit(x) PROVE SigInv'
  <2> PICK k \in RsaKeys, op \in {"sign", "verify", "recover"}, p \in InitLists :
          R!Put(x, R!rsa_signverify_init(R!rsa_newctx, k, op, p))
    BY <1>1 DEF R!SignInit
  <2> DEFINE r == R!rsa_signverify_init(R!rsa_newctx, k, op, p)
  <2>1. rsa' = [rsa EXCEPT ![x] = IF r.ok THEN r.ctx ELSE R!Free] /\ sets' = sets
    BY DEF R!Put
  <2>2. r.ok => SigKept(r.ctx)
    BY <1>l, SigInitKeeps
  <2> HIDE DEF r
  <2>3. rsa'[x] = (IF r.ok THEN r.ctx ELSE R!Free) /\ rsa' = [rsa EXCEPT ![x] = rsa'[x]]
    BY <1>s, <2>1
  <2> QED BY <1>s, <2>1, <2>2, <2>3, SigReplaced
<1>2. ASSUME NEW x \in Ctxs, R!DigestInit(x) PROVE SigInv'
  <2> PICK k \in RsaKeys, op \in {"sign", "verify"}, md \in Names, p \in InitLists :
          R!Put(x, R!rsa_digest_signverify_init(R!rsa_newctx, k, op, md, p))
    BY <1>2 DEF R!DigestInit
  <2> DEFINE r == R!rsa_digest_signverify_init(R!rsa_newctx, k, op, md, p)
  <2>1. rsa' = [rsa EXCEPT ![x] = IF r.ok THEN r.ctx ELSE R!Free] /\ sets' = sets
    BY DEF R!Put
  <2>2. r.ok => SigKept(r.ctx)
    BY <1>l, SigDigestInitKeeps
  <2> HIDE DEF r
  <2>3. rsa'[x] = (IF r.ok THEN r.ctx ELSE R!Free) /\ rsa' = [rsa EXCEPT ![x] = rsa'[x]]
    BY <1>s, <2>1
  <2> QED BY <1>s, <2>1, <2>2, <2>3, SigReplaced
<1>3. ASSUME NEW x \in Ctxs, R!DigestReinit(x) PROVE SigInv'
  <2> PICK md \in Names, p \in InitLists :
          R!Put(x, R!rsa_digest_signverify_init(rsa[x], rsa[x].key, rsa[x].op, md, p))
    BY <1>3 DEF R!DigestReinit
  <2> DEFINE r == R!rsa_digest_signverify_init(rsa[x], rsa[x].key, rsa[x].op, md, p)
  <2>1. rsa' = [rsa EXCEPT ![x] = IF r.ok THEN r.ctx ELSE R!Free] /\ sets' = sets
    BY DEF R!Put
  <2>2. r.ok => SigKept(r.ctx)
    <3>1. SigKept(rsa[x]) /\ rsa[x].key \in RsaKeys
      BY <1>3, <1>k DEF R!DigestReinit, R!Digesting
    <3>2. rsa[x].op \in {"sign", "verify", "recover"}
      BY <3>1 DEF SigKept, SigBegun, SigCtx
    <3> QED BY <1>l, <3>1, <3>2, SigDigestInitKeeps
  <2> HIDE DEF r
  <2>3. rsa'[x] = (IF r.ok THEN r.ctx ELSE R!Free) /\ rsa' = [rsa EXCEPT ![x] = rsa'[x]]
    BY <1>s, <2>1
  <2> QED BY <1>s, <2>1, <2>2, <2>3, SigReplaced
<1>4. ASSUME NEW x \in Ctxs, R!SetParams(x) PROVE SigInv'
  <2>1. R!Live(rsa[x]) /\ sets > 0 /\ sets' = sets - 1
    BY <1>4 DEF R!SetParams
  <2>2. PICK p \in SigLists : rsa' = [rsa EXCEPT ![x] = R!rsa_set_ctx_params(@, p).ctx]
    BY <1>4 DEF R!SetParams
  <2>3. /\ rsa'[x] = R!rsa_set_ctx_params(rsa[x], p).ctx
        /\ rsa' = [rsa EXCEPT ![x] = rsa'[x]]
    BY <1>s, <2>2
  <2>4. SigKept(rsa'[x])
    BY <1>k, <1>l, <2>1, <2>3, SigParams
  <2>5. sets' \in 0 .. MaxSets
    BY <1>s, <2>1, ContextsAssumption
  <2> QED BY <2>3, <2>4, <2>5, SigReplaced
<1>5. ASSUME NEW x \in Ctxs, R!Update(x) PROVE SigInv'
  <2> DEFINE c == rsa[x]
             m == [c.mdctx EXCEPT !.n = @ + 1]
             g == [c EXCEPT !.mdctx = m]
             d == [g EXCEPT !.fed = @ + 1]
  <2>1. /\ R!Live(c) /\ c.mdctx # R!NoStream /\ ~c.mdctx.done /\ c.fed < SigChunks /\ sets' = sets
    BY <1>5 DEF R!Update, R!FinalReaches, R!Digesting
  <2>2. SigKept(c) /\ c \in SigCtx
    BY <1>k, <2>1
  <2>3. c.fed \in 0 .. SigChunks /\ c.fed + 1 \in 0 .. SigChunks
    BY <2>1, <2>2, ContextsAssumption DEF SigCtx
  <2>4. rsa' = [rsa EXCEPT ![x] = [c EXCEPT !.mdctx.n = @ + 1, !.fed = @ + 1]]
    BY <1>5, <1>s DEF R!Update
  <2>5. [c EXCEPT !.mdctx.n = @ + 1, !.fed = @ + 1] = d
    <3> HIDE DEF c
    <3> QED BY <2>2 DEF SigCtx
  <2>6. rsa'[x] = d /\ rsa' = [rsa EXCEPT ![x] = rsa'[x]]
    <3> HIDE DEF d
    <3> QED BY <1>s, <2>4, <2>5
  <2>7. SigKept(d)
    <3> HIDE DEF c
    <3>1. m \in SigStreams /\ m.alg = c.mdctx.alg /\ m.n = c.mdctx.n + 1
      BY <2>2 DEF SigCtx, SigStreams
    <3>2. SigStream(c)
      BY <2>2 DEF SigKept, SigBegun
    <3> HIDE DEF m
    <3>3. /\ g \in SigCtx /\ g.key = c.key /\ g.op = c.op /\ g.pad = c.pad /\ g.salt = c.salt
          /\ g.md = c.md /\ g.mgf1 = c.mgf1 /\ g.mgf1Set = c.mgf1Set /\ g.min = c.min
          /\ g.mdctx = m /\ g.fed = c.fed
      BY <2>2, <3>1 DEF SigCtx
    <3> HIDE DEF g
    <3>4. /\ d \in SigCtx /\ d.key = c.key /\ d.op = c.op /\ d.pad = c.pad /\ d.salt = c.salt
          /\ d.md = c.md /\ d.mgf1 = c.mgf1 /\ d.mgf1Set = c.mgf1Set /\ d.min = c.min
          /\ d.mdctx = m /\ d.fed = c.fed + 1
      BY <2>3, <3>3 DEF SigCtx
    <3> HIDE DEF d
    <3>5. SigStream(d)
      BY <2>1, <3>1, <3>2, <3>4 DEF SigStream
    <3> QED BY <2>2, <3>4, <3>5, SigProgress
  <2> QED BY <1>s, <2>1, <2>6, <2>7, SigReplaced
<1>6. ASSUME NEW x \in Ctxs, R!Live(rsa[x]), rsa' = [rsa EXCEPT ![x].allow = TRUE], sets' = sets
      PROVE SigInv'
  <2> DEFINE c == rsa[x]
             d == [c EXCEPT !.allow = TRUE]
  <2>1. rsa'[x] = d /\ rsa' = [rsa EXCEPT ![x] = rsa'[x]]
    BY <1>6, <1>s
  <2>2. SigKept(c) /\ c \in SigCtx
    BY <1>6, <1>k
  <2>3. SigKept(d)
    <3> HIDE DEF c
    <3>1. /\ d \in SigCtx /\ d.key = c.key /\ d.op = c.op /\ d.pad = c.pad /\ d.salt = c.salt
          /\ d.md = c.md /\ d.mgf1 = c.mgf1 /\ d.mgf1Set = c.mgf1Set /\ d.min = c.min
          /\ d.mdctx = c.mdctx /\ d.fed = c.fed
      BY <2>2 DEF SigCtx
    <3> HIDE DEF d
    <3>2. SigStream(d)
      BY <2>2, <3>1 DEF SigKept, SigBegun, SigStream
    <3> QED BY <2>2, <3>1, <3>2, SigProgress
  <2> HIDE DEF d
  <2> QED BY <1>s, <1>6, <2>1, <2>3, SigReplaced
<1>7. ASSUME NEW x \in Ctxs, R!SizeQuery(x) PROVE SigInv'
  BY <1>6, <1>7 DEF R!SizeQuery, R!Digesting
<1>8. ASSUME NEW x \in Ctxs, R!Final(x) PROVE SigInv'
  <2> DEFINE c == rsa[x]
             done == IF R!FinalReaches(c) THEN TRUE ELSE c.mdctx.done
             m == [c.mdctx EXCEPT !.done = done]
             d == [c EXCEPT !.allow = TRUE, !.mdctx = m]
  <2>1. R!Live(c) /\ R!Digesting(c) /\ sets' = sets
    BY <1>8 DEF R!Final, R!Digesting
  <2>2. SigKept(c) /\ c \in SigCtx
    BY <1>k, <2>1
  <2>3. rsa' = [rsa EXCEPT ![x] = [c EXCEPT !.allow = TRUE, !.mdctx.done = done]]
    BY <1>8, <1>s DEF R!Final
  <2>4. [c EXCEPT !.allow = TRUE, !.mdctx.done = done] = d
    <3> HIDE DEF c, done
    <3> QED BY <2>2 DEF SigCtx
  <2>5. rsa'[x] = d /\ rsa' = [rsa EXCEPT ![x] = rsa'[x]]
    <3> HIDE DEF d
    <3> QED BY <1>s, <2>3, <2>4
  <2>6. SigKept(d)
    <3>1. c.mdctx \in SigStreams /\ c.mdctx.done \in BOOLEAN
      BY <2>2 DEF SigCtx, SigStreams
    <3>2. done \in BOOLEAN /\ (done \/ (c.mdctx = R!NoStream /\ ~done))
      BY <2>1, <3>1 DEF R!FinalReaches, R!NoStream
    <3> HIDE DEF c, done
    <3>3. m \in SigStreams /\ m.done = done /\ m.alg = c.mdctx.alg /\ m.n = c.mdctx.n
      BY <3>1, <3>2 DEF SigStreams
    <3>4. c.mdctx = R!NoStream /\ ~done => m = R!NoStream
      <4>1. R!NoStream.done = FALSE
        BY DEF R!NoStream
      <4>2. R!NoStream \in SigStreams /\ done \in BOOLEAN
        BY <3>2, SigNoStream
      <4> HIDE DEF m
      <4> QED BY <3>3, <4>1, <4>2, SigStreamsEqual
    <3> HIDE DEF m
    <3>5. /\ d \in SigCtx /\ d.key = c.key /\ d.op = c.op /\ d.pad = c.pad /\ d.salt = c.salt
          /\ d.md = c.md /\ d.mgf1 = c.mgf1 /\ d.mgf1Set = c.mgf1Set /\ d.min = c.min
          /\ d.mdctx = m /\ d.fed = c.fed
      BY <2>2, <3>3 DEF SigCtx
    <3> HIDE DEF d
    <3>6. SigStream(d)
      BY <3>2, <3>3, <3>4, <3>5 DEF SigStream
    <3> QED BY <2>2, <3>5, <3>6, SigProgress
  <2> HIDE DEF d
  <2> QED BY <1>s, <2>1, <2>5, <2>6, SigReplaced
<1>9. ASSUME NEW y \in Ctxs, NEW x \in Ctxs, R!rsa_dupctx(y, x) PROVE SigInv'
  <2>1. R!Live(rsa[y]) /\ rsa' = [rsa EXCEPT ![x] = rsa[y]] /\ sets' = sets
    BY <1>9 DEF R!rsa_dupctx
  <2>2. rsa'[x] = rsa[y] /\ rsa' = [rsa EXCEPT ![x] = rsa'[x]]
    BY <1>s, <2>1
  <2>3. SigKept(rsa'[x])
    BY <1>k, <2>1, <2>2
  <2> QED BY <1>s, <2>1, <2>2, <2>3, SigReplaced
<1>10. ASSUME NEW x \in Ctxs, R!rsa_freectx(x) PROVE SigInv'
  <2>1. rsa' = [rsa EXCEPT ![x] = R!Free] /\ sets' = sets
    BY <1>10 DEF R!rsa_freectx
  <2>2. rsa'[x] = R!Free /\ rsa' = [rsa EXCEPT ![x] = rsa'[x]]
    BY <1>s, <2>1
  <2> QED BY <1>s, <2>1, <2>2, SigReplaced
<1>11. CASE UNCHANGED R!vars
  BY <1>11 DEF R!vars, SigInv
<1> QED BY <1>1, <1>2, <1>3, <1>4, <1>5, <1>7, <1>8, <1>9, <1>10, <1>11 DEF R!Next

LEMMA SigTypes == SigInv => R!TypeOK
<1> SUFFICES ASSUME SigInv, NEW x \in Ctxs, R!Live(rsa[x])
             PROVE /\ sets \in 0 .. MaxSets
                   /\ rsa[x].key \in RsaKeys
                   /\ rsa[x].op \in {"sign", "verify", "recover"}
                   /\ rsa[x].md \in R!Digests \cup {R!Null}
                   /\ rsa[x].mgf1 \in R!Digests \cup {R!Null}
                   /\ rsa[x].pad \in R!Pads \ {"oaep"}
                   /\ rsa[x].salt >= R!SaltMax /\ rsa[x].fed \in 0 .. SigChunks
  BY DEF R!TypeOK, SigInv
<1> QED BY DEF SigInv, SigKept, SigBegun, SigCtx

(* A final call signs what the stream has left to give. *)
LEMMA SigFinals ==
    \A x \in Ctxs : R!rsa_digest_sign_final(rsa[x]) # R!NoSig =>
        R!FinalReaches(rsa[x]) /\ R!rsa_digest_sign_final(rsa[x]) = R!rsa_sign(rsa[x], R!Tbs(rsa[x]))
BY DEF R!rsa_digest_sign_final

LEMMA SigWhole == SigInv => R!WholeMessage
<1> SUFFICES ASSUME SigInv, NEW x \in Ctxs, R!FinalReaches(rsa[x])
             PROVE R!Tbs(rsa[x]) = [alg |-> rsa[x].md, n |-> rsa[x].fed]
  BY SigFinals DEF R!WholeMessage
<1>1. SigStream(rsa[x]) /\ rsa[x].mdctx # R!NoStream /\ ~rsa[x].mdctx.done
  BY DEF SigInv, SigKept, SigBegun, R!FinalReaches, R!Digesting
<1> QED BY <1>1 DEF SigStream, R!Tbs

LEMMA SigSizes ==
    /\ \A k \in RsaKeys : R!RSA_size(k) \in Int /\ R!Spare(k) \in Int
    /\ \A md \in R!Digests : R!Size[md] \in Nat
    /\ \A md : md \in R!Digests => md # R!Null
<1>1. RsaKeys \subseteq R!Key
  BY ContextsAssumption
<1>2. \A k \in R!Key : k.bits \in Nat
  BY DEF R!Key
<1>3. \A n \in Nat : (n + 7) \div 8 \in Int
  OBVIOUS
<1>4. \A k \in RsaKeys : R!RSA_size(k) \in Int
  BY <1>1, <1>2, <1>3 DEF R!RSA_size
<1>5. \A k \in RsaKeys : R!Spare(k) \in Int
  BY DEF R!Spare
<1>6. \A md \in R!Digests : R!Size[md] \in Nat
  BY DEF R!Digests, R!Size
<1> QED BY <1>4, <1>5, <1>6, SigDigests

(* The salt of a PSS signature, in the token and in software. *)
LEMMA SigSalts ==
    ASSUME NEW c \in SigCtx, c.md \in R!Digests
    PROVE LET max == R!MaxSalt(c.key, c.md) IN
          /\ max \in Int /\ R!PssSalt(c) \in Int
          /\ max = R!RSA_size(c.key) - R!Spare(c.key) - R!Size[c.md] - 2
          /\ R!PssSalt(c) >= 0 =>
                R!PssSalt(c) = IF c.salt = R!SaltDigest THEN R!Size[c.md]
                               ELSE IF c.salt \in {R!Auto, R!SaltMax} THEN max ELSE c.salt
<1> DEFINE size == R!RSA_size(c.key)
           spare == R!Spare(c.key)
           len == R!Size[c.md]
           max == R!MaxSalt(c.key, c.md)
<1>1. size \in Int /\ spare \in Int /\ len \in Nat /\ c.salt \in Int
  BY SigSizes DEF SigCtx
<1>2. max = size - spare - len - 2 /\ max \in Int
  BY <1>1 DEF R!MaxSalt
<1>3. R!SoftwareSalt(c) = IF c.salt = R!SaltDigest THEN len
                          ELSE IF c.salt \in {R!Auto, R!SaltMax} THEN max ELSE c.salt
  BY DEF R!SoftwareSalt
<1>4. R!luna_from_pss_params(c) = IF c.salt = R!SaltDigest THEN len
                                  ELSE IF c.salt \in {R!Auto, R!SaltMax}
                                       THEN IF size - spare < len + 2 THEN R!NoLen
                                            ELSE size - spare - len - 2
                                       ELSE c.salt
  BY DEF R!luna_from_pss_params, R!SaltDigest, R!Auto, R!SaltMax
<1>5. R!PssSalt(c) = R!SoftwareSalt(c) \/ R!PssSalt(c) = R!luna_from_pss_params(c)
  BY DEF R!PssSalt
<1> HIDE DEF size, spare, len, max
<1>6. R!NoLen = -1
  BY DEF R!NoLen
<1> QED BY <1>1, <1>2, <1>3, <1>4, <1>5, <1>6 DEF size, spare, len, max

(* What a context of a restricted key signs and accepts has no shorter salt. *)
LEMMA SigRestrictions == SigInv => R!RestrictionsHold
<1> SUFFICES ASSUME SigInv, NEW x \in Ctxs, R!Live(rsa[x]), R!Restricted(rsa[x].key),
                    rsa[x].key.min <= R!MaxSalt(rsa[x].key, rsa[x].key.md)
             PROVE LET k == rsa[x].key
                       s == R!rsa_sign(rsa[x], [alg |-> k.md, n |-> 0])
                       probe == [pad |-> "pss", md |-> k.md, mgf1 |-> k.mgf1,
                                 salt |-> k.min - 1, tbs |-> [alg |-> k.md, n |-> 0]]
                   IN /\ rsa[x].pad = "pss" /\ rsa[x].md = k.md /\ rsa[x].mgf1 = k.mgf1
                      /\ s # R!NoSig => s.salt >= k.min
                      /\ rsa[x].op = "verify" => ~R!rsa_verify(rsa[x], probe, probe.tbs)
  BY DEF R!RestrictionsHold
<1> DEFINE c == rsa[x]
           k == c.key
           tbs == [alg |-> k.md, n |-> 0]
           s == R!rsa_sign(c, tbs)
           max == R!MaxSalt(k, c.md)
           len == R!Size[c.md]
           probe == [pad |-> "pss", md |-> k.md, mgf1 |-> k.mgf1, salt |-> k.min - 1, tbs |-> tbs]
<1>1. c \in SigCtx /\ SigRestricted(c) /\ c.salt >= R!SaltMax
  BY DEF SigInv, SigKept, SigBegun
<1>2. /\ c.pad = "pss" /\ c.md = k.md /\ c.md \in R!Digests /\ c.mgf1 = k.mgf1 /\ c.min = k.min
      /\ c.salt = R!SaltDigest => c.min <= len
      /\ c.salt >= 0 => c.salt >= c.min
      /\ c.op = "verify" => c.salt # R!Auto
      /\ c.min \in Int /\ c.salt \in Int /\ len \in Nat /\ c.md # R!Null
  BY <1>1, SigSizes DEF SigRestricted, SigCtx
<1>3. /\ max \in Int /\ R!PssSalt(c) \in Int /\ k.min <= max
      /\ R!PssSalt(c) >= 0 => R!PssSalt(c) = IF c.salt = R!SaltDigest THEN len
                                             ELSE IF c.salt \in {R!Auto, R!SaltMax} THEN max
                                             ELSE c.salt
  BY <1>1, <1>2, SigSalts
<1>n. R!SaltDigest = -1 /\ R!Auto = -2 /\ R!SaltMax = -3
  BY DEF R!SaltDigest, R!Auto, R!SaltMax
<1>4. s # R!NoSig => s.salt >= k.min
  <2> HIDE DEF c
  <2>1. s # R!NoSig => R!PssSalt(c) \in 0 .. max /\ s.salt = R!PssSalt(c)
    BY <1>2 DEF R!rsa_sign
  <2> HIDE DEF s, max, len, k
  <2>2. R!PssSalt(c) \in 0 .. max => R!PssSalt(c) >= c.min
    BY <1>1, <1>2, <1>3, <1>n
  <2> QED BY <1>2, <2>1, <2>2
<1>5. c.op = "verify" => ~R!rsa_verify(c, probe, probe.tbs)
  <2>1. probe.salt = k.min - 1
    OBVIOUS
  <2> HIDE DEF c, probe
  <2>2. R!rsa_verify(c, probe, probe.tbs) => R!SaltMatches(c, probe.salt)
    BY <1>2 DEF R!rsa_verify
  <2>3. R!SaltMatches(c, probe.salt) =>
           \/ c.salt = R!Auto
           \/ c.salt = R!SaltDigest /\ probe.salt = len
           \/ c.salt = R!SaltMax /\ probe.salt = max
           \/ c.salt \notin {R!Auto, R!SaltDigest, R!SaltMax} /\ probe.salt = c.salt
    BY DEF R!SaltMatches
  <2> HIDE DEF len, max, k
  <2> QED BY <1>1, <1>2, <1>3, <1>n, <2>1, <2>2, <2>3
<1> QED BY <1>2, <1>4, <1>5

(* What rsa_sign makes. *)
LEMMA SigMade ==
    ASSUME NEW c \in SigCtx, NEW tbs, R!rsa_sign(c, tbs) # R!NoSig
    PROVE LET sig == R!rsa_sign(c, tbs) IN
          \/ c.md = R!Null /\ c.pad # "pss" /\ sig = [pad |-> c.pad, md |-> R!Null, tbs |-> tbs]
          \/ /\ c.md \in R!Digests /\ R!Size[tbs.alg] = R!Size[c.md]
             /\ \/ c.pad = "pkcs1" /\ sig = R!luna_prov_RSA_sign(c, tbs)
                \/ c.pad = "x931" /\ sig = [pad |-> "x931", md |-> c.md, tbs |-> tbs]
                \/ /\ c.pad = "pss" /\ R!PssSalt(c) \in 0 .. R!MaxSalt(c.key, c.md)
                   /\ sig = [pad |-> "pss", md |-> c.md, mgf1 |-> c.mgf1,
                             salt |-> R!PssSalt(c), tbs |-> tbs]
<1>1. c.md = R!Null \/ c.md \in R!Digests
  BY DEF SigCtx
<1>2. CASE c.md = R!Null
  BY <1>2 DEF R!rsa_sign
<1>3. CASE c.md \in R!Digests
  <2>1. c.md # R!Null
    BY <1>3, SigDigests
  <2>2. R!Size[tbs.alg] = R!Size[c.md]
    BY <2>1 DEF R!rsa_sign
  <2>3. CASE c.pad = "pkcs1"
    BY <1>3, <2>1, <2>2, <2>3 DEF R!rsa_sign
  <2>4. CASE c.pad = "x931"
    BY <1>3, <2>1, <2>2, <2>4 DEF R!rsa_sign
  <2>5. CASE c.pad = "pss"
    BY <1>3, <2>1, <2>2, <2>5 DEF R!rsa_sign
  <2>6. CASE c.pad \notin {"pkcs1", "x931", "pss"}
    BY <2>1, <2>2, <2>6 DEF R!rsa_sign
  <2> QED BY <2>3, <2>4, <2>5, <2>6
<1> QED BY <1>1, <1>2, <1>3

(* The identifier of the algorithm says what the signature is. *)
LEMMA SigIdentified ==
    ASSUME NEW c \in SigCtx, NEW tbs, R!rsa_sign(c, tbs) # R!NoSig,
           R!rsa_generate_signature_aid(c) # R!NoSig
    PROVE LET aid == R!rsa_generate_signature_aid(c)
          IN \A n \in DOMAIN aid : aid[n] = R!rsa_sign(c, tbs)[n]
<1> DEFINE aid == R!rsa_generate_signature_aid(c)
           sig == R!rsa_sign(c, tbs)
           len == R!rsa_pss_compute_saltlen(c)
<1>1. \/ c.pad = "pkcs1" /\ c.md # R!Null /\ aid = [pad |-> c.pad, md |-> c.md]
      \/ /\ c.pad = "pss" /\ c.md # R!Null /\ len # R!NoLen
         /\ aid = [pad |-> c.pad, md |-> c.md, mgf1 |-> c.mgf1, salt |-> len]
  BY DEF R!rsa_generate_signature_aid
<1>2. CASE c.pad = "pkcs1" /\ c.md # R!Null /\ aid = [pad |-> c.pad, md |-> c.md]
  <2>1. sig = [pad |-> "pkcs1", md |-> c.md, tbs |-> tbs]
    BY <1>2, SigMade DEF R!luna_prov_RSA_sign
  <2> HIDE DEF aid, sig
  <2>2. aid.pad = sig.pad /\ aid.md = sig.md /\ DOMAIN aid = {"pad", "md"}
    BY <1>2, <2>1
  <2> QED BY <2>2 DEF aid, sig
<1>3. CASE /\ c.pad = "pss" /\ c.md # R!Null /\ len # R!NoLen
           /\ aid = [pad |-> c.pad, md |-> c.md, mgf1 |-> c.mgf1, salt |-> len]
  <2>1. /\ R!PssSalt(c) \in 0 .. R!MaxSalt(c.key, c.md) /\ c.md \in R!Digests
        /\ sig = [pad |-> "pss", md |-> c.md, mgf1 |-> c.mgf1, salt |-> R!PssSalt(c), tbs |-> tbs]
    BY <1>3, SigMade
  <2>2. len = R!PssSalt(c)
    <3>1. /\ R!RSA_size(c.key) \in Int /\ R!Spare(c.key) \in Int /\ R!Size[c.md] \in Int
          /\ c.salt \in Int /\ c.min \in Int
      BY <2>1, SigSizes DEF SigCtx
    <3>2. R!PssSalt(c) >= 0 /\ R!PssSalt(c) \in Int
      BY <2>1, SigSalts
    <3>3. LET salt == IF c.salt = R!SaltDigest THEN R!Size[c.md]
                      ELSE IF c.salt \in {R!Auto, R!SaltMax}
                           THEN R!RSA_size(c.key) - R!Size[c.md] - 2 - R!Spare(c.key)
                           ELSE c.salt
          IN len = IF salt < 0 \/ salt < c.min THEN R!NoLen ELSE salt
      BY DEF R!rsa_pss_compute_saltlen, R!SaltDigest, R!Auto, R!SaltMax
    <3>4. R!PssSalt(c) = IF c.salt = R!SaltDigest THEN R!Size[c.md]
                         ELSE IF c.salt \in {R!Auto, R!SaltMax}
                              THEN R!RSA_size(c.key) - R!Spare(c.key) - R!Size[c.md] - 2
                              ELSE c.salt
      BY <2>1, <3>2, SigSalts
    <3> HIDE DEF len
    <3> QED BY <1>3, <3>1, <3>3, <3>4
  <2> HIDE DEF aid, sig, len
  <2>3. aid.pad = sig.pad /\ aid.md = sig.md /\ aid.mgf1 = sig.mgf1 /\ aid.salt = sig.salt
    BY <1>3, <2>1, <2>2
  <2>4. DOMAIN aid = {"pad", "md", "mgf1", "salt"}
    BY <1>3
  <2> QED BY <2>3, <2>4 DEF aid, sig
<1> QED BY <1>1, <1>2, <1>3

(* A context with the same key and parameters takes the signature. *)
LEMMA SigTaken ==
    ASSUME NEW c \in SigCtx, NEW d \in SigCtx, NEW tbs, R!rsa_sign(c, tbs) # R!NoSig,
           d.key = c.key, d.pad = c.pad, d.md = c.md, d.mgf1 = c.mgf1, d.salt = c.salt,
           c.pad = "x931" => c.md = R!Null \/ c.md \in R!X931Digests
    PROVE R!rsa_verify(d, R!rsa_sign(c, tbs), tbs)
<1> DEFINE sig == R!rsa_sign(c, tbs)
<1>1. CASE c.md = R!Null /\ c.pad # "pss" /\ sig = [pad |-> c.pad, md |-> R!Null, tbs |-> tbs]
  BY <1>1 DEF R!rsa_verify
<1>2. CASE c.md \in R!Digests /\ c.pad = "pkcs1" /\ sig = R!luna_prov_RSA_sign(c, tbs)
  <2>1. c.md # R!Null
    BY <1>2, SigDigests
  <2>2. /\ R!luna_prov_RSA_sign(c, tbs) = R!luna_prov_RSA_sign(d, tbs)
        /\ R!luna_prov_RSA_sign(c, tbs).pad = "pkcs1" /\ R!luna_prov_RSA_sign(c, tbs).tbs = tbs
    BY DEF R!luna_prov_RSA_sign
  <2> QED BY <1>2, <2>1, <2>2 DEF R!rsa_verify, R!luna_prov_rsa_verify
<1>3. CASE c.md \in R!Digests /\ c.pad = "x931" /\ sig = [pad |-> "x931", md |-> c.md, tbs |-> tbs]
  <2>1. c.md # R!Null
    BY <1>3, SigDigests
  <2> QED BY <1>3, <2>1 DEF R!rsa_verify
<1>4. CASE /\ c.md \in R!Digests /\ R!Size[tbs.alg] = R!Size[c.md]
           /\ c.pad = "pss" /\ R!PssSalt(c) \in 0 .. R!MaxSalt(c.key, c.md)
           /\ sig = [pad |-> "pss", md |-> c.md, mgf1 |-> c.mgf1,
                     salt |-> R!PssSalt(c), tbs |-> tbs]
  <2>1. c.md # R!Null
    BY <1>4, SigDigests
  <2>2. R!PssSalt(c) = IF c.salt = R!SaltDigest THEN R!Size[c.md]
                       ELSE IF c.salt \in {R!Auto, R!SaltMax} THEN R!MaxSalt(c.key, c.md)
                       ELSE c.salt
    BY <1>4, SigSalts
  <2>3. R!SaltMatches(d, R!PssSalt(c))
    BY <2>2 DEF R!SaltMatches, R!SaltDigest, R!Auto, R!SaltMax
  <2> QED BY <1>4, <2>1, <2>3 DEF R!rsa_verify
<1> QED BY <1>1, <1>2, <1>3, <1>4, SigMade

LEMMA SigVerifies == SigInv => R!SignaturesVerify
<1> SUFFICES ASSUME SigInv, NEW x \in Ctxs, NEW y \in Ctxs,
                    R!Live(rsa[x]), R!rsa_digest_sign_final(rsa[x]) # R!NoSig,
                    rsa[x].pad = "x931" => rsa[x].md \in R!X931Digests
             PROVE LET sig == R!rsa_digest_sign_final(rsa[x])
                       aid == R!rsa_generate_signature_aid(rsa[x])
                   IN /\ aid # R!NoSig => \A n \in DOMAIN aid : aid[n] = sig[n]
                      /\ /\ R!Live(rsa[y]) /\ R!FinalReaches(rsa[y])
                         /\ \A n \in {"key", "pad", "md", "mgf1", "salt", "mdctx"} :
                               rsa[x][n] = rsa[y][n]
                         => R!rsa_verify(rsa[y], sig, R!Tbs(rsa[y]))
  BY DEF R!SignaturesVerify
<1>1. rsa[x] \in SigCtx /\ (R!Live(rsa[y]) => rsa[y] \in SigCtx)
  BY DEF SigInv, SigKept, SigBegun
<1>2. R!rsa_digest_sign_final(rsa[x]) = R!rsa_sign(rsa[x], R!Tbs(rsa[x]))
  BY SigFinals
<1>3. R!rsa_generate_signature_aid(rsa[x]) # R!NoSig =>
        \A n \in DOMAIN R!rsa_generate_signature_aid(rsa[x]) :
            R!rsa_generate_signature_aid(rsa[x])[n] = R!rsa_digest_sign_final(rsa[x])[n]
  BY <1>1, <1>2, SigIdentified
<1>4. ASSUME R!Live(rsa[y]), \A n \in {"key", "pad", "md", "mgf1", "salt", "mdctx"} :
                               rsa[x][n] = rsa[y][n]
      PROVE R!rsa_verify(rsa[y], R!rsa_digest_sign_final(rsa[x]), R!Tbs(rsa[y]))
  <2>1. R!Tbs(rsa[y]) = R!Tbs(rsa[x])
    BY <1>4 DEF R!Tbs
  <2> QED BY <1>1, <1>2, <1>4, <2>1, SigTaken
<1> QED BY <1>3, <1>4
------------------------------------------------------------------------------
(* The contexts of every kind keep what their calls rely on. *)
Inv == SigInv /\ EncInv /\ OpInv

LEMMA ContextsInit == Init => Inv
BY SigInvInit, EncInvInit, OpInvInit DEF Init, Inv

LEMMA ContextsStep == Inv /\ [Next]_<<kind, rsa, sets, enc, held, ctx, refs, app>> => Inv'
<1> SUFFICES ASSUME Inv, [Next]_<<kind, rsa, sets, enc, held, ctx, refs, app>> PROVE Inv'
  OBVIOUS
<1>1. [R!Next]_(R!vars) /\ [X!Next]_(X!vars) /\ [O!Next]_(O!vars)
  BY DEF Next, R!vars, X!vars, O!vars
<1> QED BY <1>1, SigInvStep, EncInvStep, OpInvStep DEF Inv

LEMMA ContextsKept == Spec => []Inv
BY ContextsInit, ContextsStep, PTL DEF Spec

(* The signature that a final call makes, with an RSA, DSA or EC key, is of every chunk
   that the context was fed since its initialization, under the digest that the context
   names (rsa_digest_signverify_init, rsa_set_ctx_params and rsa_digest_sign_final of
   lunaRsaSig.c, the functions of the same names in lunaEcSig.c and lunaDsaSig.c). *)
THEOREM MessagesAreWhole == Spec => []WholeMessage
<1>1. Inv => WholeMessage
  BY SigWhole, OpWhole DEF Inv, WholeMessage
<1> QED BY <1>1, ContextsKept, PTL

(* Contexts keep their types, and no sequence of calls makes a context of a restricted
   RSA-PSS key sign or accept with another padding or digest, or with a salt below the
   minimum of the key (rsa_signverify_init, rsa_check_parameters and rsa_set_ctx_params of
   lunaRsaSig.c). *)
THEOREM RestrictionsAreKept == Spec => []RestrictionsHold
<1>1. Inv => RestrictionsHold
  BY SigTypes, EncTypes, OpTypes, SigRestrictions DEF Inv, RestrictionsHold
<1> QED BY <1>1, ContextsKept, PTL

(* Two contexts of one key that were given the same parameters agree: what the first signs
   or encrypts, in the token or in software, the second verifies or decrypts, the identifier
   of the algorithm describes the signature, and a context with other OAEP parameters does
   not get the message (rsa_sign, rsa_verify and rsa_generate_signature_aid of
   lunaRsaSig.c, rsa_encrypt and rsa_decrypt of lunaRsaEnc.c, and the software paths of
   lunaEddsaSig.c). *)
THEOREM SignaturesAreVerified == Spec => []SignaturesVerify
<1>1. Inv => SignaturesVerify
  BY SigVerifies, EncDecrypts, EncRefuses, OpEdVerifies DEF Inv, SignaturesVerify
<1> QED BY <1>1, ContextsKept, PTL

(* The references to a key are those of the application and of the contexts that hold it:
   no call that fails, replaces a key, copies or frees a context leaves one behind or drops
   one too many (rsa_init, rsa_dupctx and rsa_freectx of lunaRsaEnc.c, dsa_dupctx and
   dsa_freectx of lunaDsaSig.c, ecdh_init, ecdh_set_peer and ecdh_freectx of lunaEcdh.c). *)
THEOREM ReferencesAreExact == Spec => []RefsExact
<1>1. Inv => RefsExact
  BY EncRefs, OpRefs DEF Inv, RefsExact
<1> QED BY <1>1, ContextsKept, PTL
==============================================================================
