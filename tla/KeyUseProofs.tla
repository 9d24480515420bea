----------------------------- MODULE KeyUseProofs -----------------------------
(***************************************************************************)
(* What the threads that use keys of the token can rely on, for any number *)
(* of threads and of initializations of the library (KeyPaths).            *)
(*                                                                         *)
(* The shared key context: between its open and its close of a context a   *)
(* thread sees one initialization of the library, so all the searches that *)
(* are under way store handles of the same one, and a handle is only ever  *)
(* replaced by a younger one.                                              *)
(*                                                                         *)
(* The random numbers: a clean cache has not given out what is beyond its  *)
(* offset, and who fills it has marked it and holds the mutex; a child and *)
(* its parent have both only what the cache of the parent held unread.     *)
(*                                                                         *)
(* The secrets: proved in TokenSecretProofs, of which SP is an instance.   *)
(*                                                                         *)
(* The references: the bytes of a key name its pair, and an outdated KEM   *)
(* key finds no pair again, because KEM pairs go with their initialization.*)
(***************************************************************************)
EXTENDS KeyPaths, FunctionTheorems, FiniteSetTheorems, TLAPS

(* The places where a thread holds an open context. *)
Inside == {"decode", "decoded", "private", "count", "ok", "opened", "created", "stale", "use"}

(* The places that only a key found in the token leads to. *)
Beyond == {"private", "count", "ok", "begin", "opened", "created", "stale", "use"}

OpenInv ==
    /\ open # {} => luna_have
    /\ \A t \in Threads : pc[t] \in Inside => t \in open

(* What a search has stored so far is of this initialization. *)
SearchInv ==
    \A t \in Threads :
        /\ pc[t] \in {"private", "count", "ok"} => hPublic = luna_count
        /\ pc[t] \in {"count", "ok"} => hPrivate = luna_count

(* The handles are at least as young as their count says. *)
AgeInv == key_count <= hPublic /\ key_count <= hPrivate

(* A key found once has both its handles. *)
FoundInv ==
    /\ magic = "ok" => hPublic # 0 /\ hPrivate # 0
    /\ \A t \in Threads :
          /\ pc[t] \in {"begin", "opened"} => hPublic # 0 /\ hPrivate # 0
          /\ pc[t] \in {"created", "stale", "use"} => h[t] # 0

HardwareInv ==
    /\ in_token => is_hardware
    /\ ~in_token => magic # "ok" /\ \A t \in Threads : pc[t] \notin Beyond

IInv == TypeOK /\ OpenInv /\ SearchInv /\ AgeInv /\ FoundInv /\ HardwareInv

USE DEF Goto, Unlock, OpenContext, worldvars, keyvars, callvars

(* It holds of a loaded key and of a generated one. *)
LEMMA InitIInv == Init => IInv
  BY KeyUseAssumption DEF Init, Loaded, Generated, IInv, TypeOK, PCs, OpenInv, SearchInv,
     AgeInv, FoundInv, HardwareInv, Inside, Beyond

(* The steps of the library. *)
LEMMA LibraryStep ==
    ASSUME IInv, Finalize \/ Initialize
    PROVE  IInv'
<1>1. CASE Finalize
  BY <1>1 DEF Finalize, IInv, TypeOK, PCs, OpenInv, SearchInv, AgeInv, FoundInv, HardwareInv,
     Inside, Beyond
<1>2. CASE Initialize
  <2> USE <1>2 DEF Initialize
  <2>1. \A t \in Threads : pc[t] \notin Inside
    BY DEF IInv, OpenInv
  <2> QED
    BY <2>1 DEF IInv, TypeOK, PCs, OpenInv, SearchInv, AgeInv, FoundInv, HardwareInv,
       Inside, Beyond
<1> QED
  BY <1>1, <1>2

(* The query and its answer. *)
LEMMA QueryStep ==
    ASSUME IInv, NEW t \in Threads,
           (\E o \in Ops : Query(t, o)) \/ Choose(t) \/ Software(t)
    PROVE  IInv'
<1> USE DEF IInv, TypeOK, PCs, OpenInv, SearchInv, AgeInv, FoundInv, HardwareInv, Inside, Beyond
<1>1. CASE \E o \in Ops : Query(t, o)
  BY <1>1 DEF Query
<1>2. CASE Choose(t)
  BY <1>2 DEF Choose, InHsm
<1>3. CASE Software(t)
  BY <1>3 DEF Software
<1> QED
  BY <1>1, <1>2, <1>3

(* The search. *)
LEMMA SearchStep ==
    ASSUME IInv, NEW t \in Threads, Searching(t)
    PROVE  IInv'
<1> USE KeyUseAssumption
    DEF IInv, TypeOK, PCs, OpenInv, SearchInv, AgeInv, FoundInv, HardwareInv, Inside, Beyond
<1>1. CASE PreTest(t)
  BY <1>1 DEF PreTest
<1>2. CASE PreForce(t)
  BY <1>2 DEF PreForce
<1>3. CASE FindCheck(t)
  BY <1>3 DEF FindCheck
<1>4. CASE FindError(t)
  BY <1>4 DEF FindError
<1>5. CASE FindOpen(t)
  <2>1. /\ pc[t] \in PCs \ Inside
        /\ UNCHANGED <<in_token, magic, is_hardware, hPublic, hPrivate, key_count, reason,
                       op, querying, h>>
        /\ pc[t] = "begin" => hPublic # 0 /\ hPrivate # 0
    BY <1>5 DEF FindOpen
  <2>2. CASE UNCHANGED <<worldvars, open>> /\ pc' = [pc EXCEPT ![t] = "failed"]
    BY <2>1, <2>2
  <2>3. CASE /\ luna_have' = TRUE /\ luna_count' = luna_count
             /\ open' = open \cup {t} /\ pc' = [pc EXCEPT ![t] = "decode"]
    BY <1>5, <2>1, <2>3 DEF FindOpen
  <2>4. CASE /\ ~luna_have /\ luna_have' = TRUE /\ luna_count' = luna_count + 1
             /\ open' = open \cup {t} /\ pc' = [pc EXCEPT ![t] = "decode"]
    <3>1. \A u \in Threads : pc[u] \notin Inside
      BY <2>4
    <3> QED
      BY <1>5, <2>1, <2>4, <3>1 DEF FindOpen
  <2> QED
    BY <1>5, <2>2, <2>3, <2>4 DEF FindOpen
<1>6. CASE FindDecode(t)
  BY <1>6 DEF FindDecode
<1>7. CASE FindSoftware(t)
  BY <1>7 DEF FindSoftware
<1>8. CASE FindFails(t)
  BY <1>8 DEF FindFails
<1>9. CASE FindPublic(t)
  BY <1>9 DEF FindPublic
<1>10. CASE FindPrivate(t)
  BY <1>10 DEF FindPrivate
<1>11. CASE FindCount(t)
  BY <1>11 DEF FindCount
<1>12. CASE FindOk(t)
  BY <1>12 DEF FindOk
<1>13. CASE PreResult(t)
  BY <1>13 DEF PreResult
<1> QED
  BY <1>1, <1>2, <1>3, <1>4, <1>5, <1>6, <1>7, <1>8, <1>9, <1>10, <1>11, <1>12, <1>13
     DEF Searching

(* The operation. *)
LEMMA OperateStep ==
    ASSUME IInv, NEW t \in Threads, Operating(t)
    PROVE  IInv'
<1> USE KeyUseAssumption
    DEF IInv, TypeOK, PCs, OpenInv, SearchInv, AgeInv, FoundInv, HardwareInv, Inside, Beyond
<1>1. CASE OpOpen(t)
  <2>1. /\ pc[t] \in PCs \ Inside
        /\ UNCHANGED <<in_token, magic, is_hardware, hPublic, hPrivate, key_count, reason,
                       op, querying, h>>
        /\ pc[t] = "begin" => hPublic # 0 /\ hPrivate # 0
    BY <1>1 DEF OpOpen
  <2>2. CASE UNCHANGED <<worldvars, open>> /\ pc' = [pc EXCEPT ![t] = "noopen"]
    BY <2>1, <2>2
  <2>3. CASE /\ luna_have' = TRUE /\ luna_count' = luna_count
             /\ open' = open \cup {t} /\ pc' = [pc EXCEPT ![t] = "opened"]
    BY <1>1, <2>1, <2>3 DEF OpOpen
  <2>4. CASE /\ ~luna_have /\ luna_have' = TRUE /\ luna_count' = luna_count + 1
             /\ open' = open \cup {t} /\ pc' = [pc EXCEPT ![t] = "opened"]
    <3>1. \A u \in Threads : pc[u] \notin Inside
      BY <2>4
    <3> QED
      BY <1>1, <2>1, <2>4, <3>1 DEF OpOpen
  <2> QED
    BY <1>1, <2>2, <2>3, <2>4 DEF OpOpen
<1>2. CASE OpFails(t)
  BY <1>2 DEF OpFails
<1>3. CASE TakeHandle(t)
  BY <1>3 DEF TakeHandle
<1>4. CASE CreatePublic(t)
  BY <1>4 DEF CreatePublic
<1>5. CASE MarkCreated(t)
  BY <1>5 DEF MarkCreated
<1>6. CASE StaleCheck(t)
  BY <1>6 DEF StaleCheck
<1>7. CASE Use(t)
  BY <1>7 DEF Use
<1> QED
  BY <1>1, <1>2, <1>3, <1>4, <1>5, <1>6, <1>7 DEF Operating

(* Every step keeps the invariant. *)
LEMMA NextIInv == IInv /\ [Next]_vars => IInv'
<1> SUFFICES ASSUME IInv, [Next]_vars PROVE IInv'
  OBVIOUS
<1>1. CASE UNCHANGED vars
  BY <1>1 DEF vars, IInv, TypeOK, OpenInv, SearchInv, AgeInv, FoundInv, HardwareInv
<1>2. CASE Next
  <2>2. CASE Finalize \/ Initialize
    BY <2>2, LibraryStep
  <2>3. ASSUME NEW t \in Threads, (\E o \in Ops : Query(t, o)) \/ Choose(t) \/ Software(t)
        PROVE  IInv'
    BY <2>3, QueryStep
  <2>4. ASSUME NEW t \in Threads, Searching(t) PROVE IInv'
    BY <2>4, SearchStep
  <2>5. ASSUME NEW t \in Threads, Operating(t) PROVE IInv'
    BY <2>5, OperateStep
  <2> QED
    BY <1>2, <2>2, <2>3, <2>4, <2>5 DEF Next
<1> QED
  BY <1>1, <1>2

(* The inductive invariant: what each thread has opened, stored and read so
   far, against the handles and the count that all threads share. *)
THEOREM KeyUseSafety == Spec => []IInv
  BY InitIInv, NextIInv, PTL DEF Spec

(* The count of a key never vouches for a handle of an earlier initialization:
   the test for stale handles compares the right things. *)
THEOREM FreshCountFreshHandles == Spec => []CountVouches
<1>1. IInv => CountVouches
  BY DEF IInv, TypeOK, AgeInv, CountVouches
<1> QED
  BY <1>1, KeyUseSafety, PTL

(* No operation of the token starts with the null handle, although readers
   search, store handles and operate at the same time. *)
THEOREM HandlesAreSet == Spec => []NeverNullHandle
<1>1. IInv => NeverNullHandle
  BY DEF IInv, FoundInv, NeverNullHandle
<1> QED
  BY <1>1, KeyUseSafety, PTL

(* A key of liboqs is never given to the token. *)
THEOREM SoftwareKeysStayOut == Spec => []SoftwareKeyNotInHsm
<1>1. IInv => SoftwareKeyNotInHsm
  BY DEF IInv, HardwareInv, SoftwareKeyNotInHsm, Beyond
<1> QED
  BY <1>1, KeyUseSafety, PTL

(* A key of the token is never given to liboqs for a private key operation,
   nor for a public one while it is known to be found. *)
THEOREM HardwareKeysStayIn == Spec => FoundKeyStaysInHsm
<1>1. ASSUME IInv, [Next]_vars
      PROVE  [\A t \in Threads :
                 pc[t] = "choose" /\ pc'[t] = "software" =>
                    IF op[t] = "sign" THEN ~in_token ELSE magic # "ok"]_vars
  <2> SUFFICES ASSUME Next, NEW t \in Threads, pc[t] = "choose", pc'[t] = "software"
               PROVE  IF op[t] = "sign" THEN ~in_token ELSE magic # "ok"
    BY <1>1
  <2> USE <1>1 DEF IInv, TypeOK
  <2>1. ASSUME NEW u \in Threads, Choose(u) PROVE u = t => ~InHsm(op[t])
    BY <2>1 DEF Choose
  <2>2. ASSUME NEW u \in Threads, (\E o \in Ops : Query(u, o)) \/ Software(u)
        PROVE  FALSE
    BY <2>2 DEF Query, Software
  <2>3. ASSUME NEW u \in Threads, Searching(u) PROVE FALSE
    BY <2>3 DEF Searching, PreTest, PreForce, FindCheck, FindError, FindOpen,
       FindDecode, FindSoftware, FindFails, FindPublic, FindPrivate, FindCount, FindOk, PreResult
  <2>4. ASSUME NEW u \in Threads, Operating(u) PROVE FALSE
    BY <2>4 DEF Operating, OpOpen, OpFails, TakeHandle, CreatePublic, MarkCreated, StaleCheck, Use
  <2>5. ASSUME Finalize \/ Initialize PROVE FALSE
    BY <2>5 DEF Finalize, Initialize
  <2>6. ASSUME NEW u \in Threads, Choose(u), u # t PROVE FALSE
    BY <2>6 DEF Choose
  <2>7. ~InHsm(op[t])
    BY <2>1, <2>2, <2>3, <2>4, <2>5, <2>6 DEF Next
  <2> QED
    BY <2>7 DEF InHsm, FoundInv, HardwareInv
<1> QED
  BY <1>1, KeyUseSafety, PTL DEF Spec, FoundKeyStaysInHsm

-----------------------------------------------------------------------------
(* A small request fits an empty cache (LUNA_PQC_RNG_SMALL and LUNA_PQC_RNG_CACHE), and
   no thread is called like the owner of a free mutex. *)
Sizes == /\ CACHE \in Nat /\ SMALL \in Nat /\ MaxFills \in Nat /\ SMALL <= CACHE
         /\ N!NoThread \notin Callers

(* A process has been given each byte once; what a clean cache has beyond its offset it
   has not been given; and who fills the cache has marked it and holds the mutex. *)
CacheInv(r, g) ==
    ~r.dirty => /\ r.bytes \in 1..fills /\ r.offset <= CACHE
                /\ \A i \in Int : i > r.offset => <<r.bytes, i>> \notin g

CacheType == [error : BOOLEAN, mu : Callers \cup {N!NoThread}, dirty : BOOLEAN,
              offset : Nat, bytes : Nat]

RngInv ==
    /\ fills \in 0..MaxFills
    /\ rng \in [1..2 -> CacheType]
    /\ given \in [1..2 -> SUBSET ((1..fills) \X (1..CACHE))]
    /\ count \in [1..2 -> Nat]
    /\ outlen \in [Callers -> Nat]
    /\ rpc \in [Callers -> {"unborn", "idle", "hw", "enter", "fill", "liboqs"}]
    /\ \A p \in 1..2 : IsFiniteSet(given[p]) /\ Cardinality(given[p]) = count[p]
    /\ \A p \in 1..2 : CacheInv(rng[p], given[p])
    /\ \A t \in Callers : rpc[t] \in {"enter", "fill"} => outlen[t] <= SMALL
    /\ \A t \in Callers : rpc[t] = "fill" => rng[N!Process(t)].mu = t /\ rng[N!Process(t)].dirty

-----------------------------------------------------------------------------
(* A request is as many bytes as it asks for. *)
LEMMA BytesCount ==
    ASSUME NEW f \in Nat, NEW a \in Nat, NEW n \in Nat
    PROVE  IsFiniteSet(N!Bytes(f, a, n)) /\ Cardinality(N!Bytes(f, a, n)) = n
<1> DEFINE I == (a + 1)..(a + n)
           F == [i \in I |-> <<f, i>>]
<1>1. IsFiniteSet(I) /\ Cardinality(I) = n
  <2>1. a + 1 \in Int /\ a + n \in Int
    OBVIOUS
  <2>2. IsFiniteSet(I) /\ Cardinality(I) = IF a + 1 > a + n THEN 0 ELSE a + n - (a + 1) + 1
    BY <2>1, FS_Interval
  <2> QED
    BY <2>2
<1>2. F \in Bijection(I, N!Bytes(f, a, n))
  <2>1. F \in [I -> N!Bytes(f, a, n)]
    BY DEF N!Bytes
  <2>2. \A i, j \in I : F[i] = F[j] => i = j
    OBVIOUS
  <2>3. \A b \in N!Bytes(f, a, n) : \E i \in I : F[i] = b
    BY DEF N!Bytes
  <2> QED
    BY <2>1, <2>2, <2>3, Fun_IsBij
<1>3. ExistsBijection(I, N!Bytes(f, a, n))
  BY <1>2 DEF ExistsBijection
<1> QED
  BY <1>1, <1>3, FS_Bijection

(* Giving out bytes of a fill that were not given keeps the count. *)
LEMMA GivenMore ==
    ASSUME NEW g, IsFiniteSet(g), NEW f \in Nat, NEW a \in Nat, NEW n \in Nat,
           \A i \in Int : i > a => <<f, i>> \notin g
    PROVE  /\ IsFiniteSet(g \cup N!Bytes(f, a, n))
           /\ Cardinality(g \cup N!Bytes(f, a, n)) = Cardinality(g) + n
<1>1. g \cap N!Bytes(f, a, n) = {}
  BY DEF N!Bytes
<1>2. Cardinality({}) = 0 /\ Cardinality(g) \in Nat
  BY FS_EmptySet, FS_CardinalityType
<1>3. IsFiniteSet(N!Bytes(f, a, n)) /\ Cardinality(N!Bytes(f, a, n)) = n
  BY BytesCount
<1>4. /\ IsFiniteSet(g \cup N!Bytes(f, a, n))
      /\ Cardinality(g \cup N!Bytes(f, a, n))
           = Cardinality(g) + Cardinality(N!Bytes(f, a, n)) - Cardinality(g \cap N!Bytes(f, a, n))
  BY <1>3, FS_Union
<1>5. Cardinality(g \cap N!Bytes(f, a, n)) = 0
  BY <1>1, <1>2
<1> HIDE DEF N!Bytes
<1> QED
  BY <1>2, <1>3, <1>4, <1>5

LEMMA ProcessType == \A t : N!Process(t) \in 1..2
  BY DEF N!Process

LEMMA RngInit ==
    ASSUME Sizes
    PROVE  N!Init => RngInv
<1> SUFFICES ASSUME N!Init PROVE RngInv
  OBVIOUS
<1>1. IsFiniteSet({}) /\ Cardinality({}) = 0
  BY FS_EmptySet
<1> QED
  BY <1>1 DEF Sizes, N!Init, RngInv, N!Static, CacheInv, CacheType

(* The cache serves a request. *)
LEMMA ServeKeeps ==
    ASSUME Sizes, RngInv, NEW t \in Callers, N!luna_pqc_rng_hw_cache(t), N!Fits(t)
    PROVE  RngInv'
<1> DEFINE p == N!Process(t)
           n == outlen[t]
           r == rng[p]
           b == N!Bytes(r.bytes, r.offset, n)
<1>1. p \in 1..2 /\ n \in Nat /\ r.offset \in Nat /\ r.bytes \in 1..fills /\ ~r.dirty
      /\ r.offset + n <= CACHE /\ rpc[t] = "enter"
  BY ProcessType DEF RngInv, CacheType, N!Fits, CacheInv, N!luna_pqc_rng_hw_cache
<1>2. /\ rng' = [rng EXCEPT ![p].offset = @ + n]
      /\ given' = [given EXCEPT ![p] = @ \cup b]
      /\ count' = [count EXCEPT ![p] = @ + n]
      /\ rpc' = [rpc EXCEPT ![t] = "idle"] /\ UNCHANGED <<fills, outlen>>
  BY <1>1 DEF N!luna_pqc_rng_hw_cache, N!Copied, N!Answer, N!Goto, RngInv
<1> HIDE DEF p
<1>3. b \subseteq (1..fills) \X (1..CACHE)
  BY <1>1 DEF N!Bytes, Sizes
<1>4. IsFiniteSet(given[p] \cup b) /\ Cardinality(given[p] \cup b) = count[p] + n
  <2>1. IsFiniteSet(given[p]) /\ Cardinality(given[p]) = count[p] /\ r.bytes \in Nat
        /\ \A i \in Int : i > r.offset => <<r.bytes, i>> \notin given[p]
    BY <1>1 DEF RngInv, CacheInv
  <2> DEFINE g == given[p]
             f == r.bytes
             a == r.offset
  <2>2. IsFiniteSet(g) /\ f \in Nat /\ a \in Nat /\ n \in Nat
        /\ \A i \in Int : i > a => <<f, i>> \notin g
    BY <1>1, <2>1
  <2> HIDE DEF g, f, a, n
  <2>3. IsFiniteSet(g \cup N!Bytes(f, a, n)) /\ Cardinality(g \cup N!Bytes(f, a, n)) = Cardinality(g) + n
    BY <2>2, GivenMore
  <2> QED
    BY <2>1, <2>3 DEF g, f, a
<1>5. /\ rng' \in [1..2 -> CacheType]
      /\ \A q \in 1..2 : /\ rng'[q].dirty = rng[q].dirty /\ rng'[q].mu = rng[q].mu
                         /\ rng'[q].bytes = rng[q].bytes
                         /\ rng'[q].offset = IF q = p THEN r.offset + n ELSE rng[q].offset
  BY <1>1, <1>2 DEF RngInv, CacheType
<1>6. /\ given' \in [1..2 -> SUBSET ((1..fills') \X (1..CACHE))]
      /\ count' \in [1..2 -> Nat]
      /\ \A q \in 1..2 : given'[q] = IF q = p THEN given[p] \cup b ELSE given[q]
      /\ \A q \in 1..2 : count'[q] = IF q = p THEN count[p] + n ELSE count[q]
  BY <1>1, <1>2, <1>3 DEF RngInv
<1>7. \A q \in 1..2 : IsFiniteSet(given'[q]) /\ Cardinality(given'[q]) = count'[q]
  BY <1>4, <1>6 DEF RngInv
<1>8. (\A q \in 1..2 : CacheInv(rng[q], given[q]))'
  <2> SUFFICES ASSUME NEW q \in 1..2, ~rng'[q].dirty
               PROVE  /\ rng'[q].bytes \in 1..fills' /\ rng'[q].offset <= CACHE
                      /\ \A i \in Int : i > rng'[q].offset => <<rng'[q].bytes, i>> \notin given'[q]
    BY DEF CacheInv
  <2>1. CASE q = p
    <3>1. \A i \in Int : i > r.offset + n => <<r.bytes, i>> \notin b
      BY <1>1 DEF N!Bytes
    <3>2. \A i \in Int : i > r.offset + n => <<r.bytes, i>> \notin given[p]
      BY <1>1 DEF RngInv, CacheInv
    <3> QED
      BY <1>1, <1>2, <1>5, <1>6, <2>1, <3>1, <3>2
  <2>2. CASE q # p
    BY <1>2, <1>5, <1>6, <2>2 DEF RngInv, CacheInv
  <2> QED
    BY <2>1, <2>2
<1>9. /\ rpc' \in [Callers -> {"unborn", "idle", "hw", "enter", "fill", "liboqs"}]
      /\ \A u \in Callers : rpc'[u] = IF u = t THEN "idle" ELSE rpc[u]
  BY <1>2 DEF RngInv
<1>10. \A u \in Callers : rpc'[u] = "fill" => rng'[N!Process(u)].mu = u /\ rng'[N!Process(u)].dirty
  BY <1>5, <1>9, ProcessType DEF RngInv
<1> QED
  BY <1>2, <1>5, <1>6, <1>7, <1>8, <1>9, <1>10 DEF RngInv

(* The cache is marked dirty before it is filled. *)
LEMMA DirtyKeeps ==
    ASSUME Sizes, RngInv, NEW t \in Callers, N!luna_pqc_rng_hw_cache(t), ~N!Fits(t)
    PROVE  RngInv'
<1> DEFINE p == N!Process(t)
<1>1. p \in 1..2 /\ rng[p].mu = N!NoThread /\ rpc[t] = "enter"
  BY ProcessType DEF N!luna_pqc_rng_hw_cache
<1>2. /\ rng' = [rng EXCEPT ![p].dirty = TRUE, ![p].mu = t]
      /\ rpc' = [rpc EXCEPT ![t] = "fill"] /\ UNCHANGED <<given, count, fills, outlen>>
  BY DEF N!luna_pqc_rng_hw_cache, N!Goto
<1>3. /\ rng' \in [1..2 -> CacheType]
      /\ \A q \in 1..2 : IF q = p THEN rng'[q].dirty /\ rng'[q].mu = t ELSE rng'[q] = rng[q]
  <2> DEFINE x == [rng[p] EXCEPT !.dirty = TRUE, !.mu = t]
  <2>1. x \in CacheType /\ x.dirty /\ x.mu = t
    <3>1. rng[p] \in CacheType /\ rng[p].dirty \in BOOLEAN
      BY <1>1 DEF RngInv, CacheType
    <3> HIDE DEF p
    <3> QED
      BY <1>1, <3>1 DEF CacheType
  <2>2. rng' = [rng EXCEPT ![p] = x]
    BY <1>1, <1>2 DEF RngInv, CacheType
  <2> HIDE DEF p, x
  <2> QED
    BY <1>1, <2>1, <2>2 DEF RngInv
<1>4. /\ rpc' \in [Callers -> {"unborn", "idle", "hw", "enter", "fill", "liboqs"}]
      /\ \A u \in Callers : rpc'[u] = IF u = t THEN "fill" ELSE rpc[u]
  BY <1>2 DEF RngInv
<1>5. (\A q \in 1..2 : CacheInv(rng[q], given[q]))'
  BY <1>2, <1>3 DEF RngInv, CacheInv
<1>6. ASSUME NEW u \in Callers, rpc'[u] = "fill"
      PROVE  rng'[N!Process(u)].mu = u /\ rng'[N!Process(u)].dirty
  <2>1. CASE u = t
    BY <1>1, <1>3, <2>1
  <2>2. CASE u # t
    <3>1. rng[N!Process(u)].mu = u /\ rng[N!Process(u)].dirty
      BY <1>4, <1>6, <2>2 DEF RngInv
    <3>2. N!Process(u) # p
      BY <1>1, <3>1 DEF Sizes
    <3> QED
      BY <1>3, <3>1, <3>2, ProcessType
  <2> QED
    BY <2>1, <2>2
<1>7. \A u \in Callers : rpc'[u] \in {"enter", "fill"} => outlen'[u] <= SMALL
  BY <1>1, <1>2, <1>4 DEF RngInv
<1> QED
  BY <1>2, <1>3, <1>4, <1>5, <1>6, <1>7 DEF RngInv

(* The token fills the cache with bytes nobody was given, or fails and leaves it dirty. *)
LEMMA FillKeeps ==
    ASSUME Sizes, RngInv, NEW t \in Callers, N!luna_pqc_rng_hw_pkcs11(t)
    PROVE  RngInv'
<1> DEFINE p == N!Process(t)
           n == outlen[t]
<1>1. p \in 1..2 /\ n \in Nat /\ n <= SMALL /\ rpc[t] = "fill" /\ rng[p].mu = t /\ rng[p].dirty
      /\ fills \in Nat
  BY ProcessType DEF RngInv, N!luna_pqc_rng_hw_pkcs11
<1>2. \A u \in Callers : u # t /\ rpc[u] = "fill" => N!Process(u) # p
  BY <1>1 DEF RngInv
<1>3. ASSUME fills < MaxFills, fills' = fills + 1, UNCHANGED outlen,
             rng' = [rng EXCEPT ![p] = [@ EXCEPT !.dirty = FALSE, !.bytes = fills',
                                                 !.offset = n, !.mu = N!NoThread]],
             N!Answer(t, fills', 0, n), N!Goto(t, "idle")
      PROVE  RngInv'
  <2> DEFINE b == N!Bytes(fills + 1, 0, n)
             f == fills + 1
  <2>1. /\ rng' \in [1..2 -> CacheType]
        /\ \A q \in 1..2 : IF q = p THEN /\ ~rng'[q].dirty /\ rng'[q].bytes = f
                                         /\ rng'[q].offset = n
                           ELSE rng'[q] = rng[q]
    <3>1. fills' = f /\ f \in Nat
      BY <1>1, <1>3
    <3> DEFINE x == [rng[p] EXCEPT !.dirty = FALSE, !.bytes = f, !.offset = n,
                                   !.mu = N!NoThread]
    <3>2. x \in CacheType /\ ~x.dirty /\ x.bytes = f /\ x.offset = n
      <4>1. rng[p] \in CacheType /\ rng[p].dirty
        BY <1>1 DEF RngInv, CacheType
      <4> HIDE DEF p, n, f
      <4> QED
        BY <1>1, <3>1, <4>1 DEF CacheType
    <3>3. rng' = [rng EXCEPT ![p] = x]
      BY <1>1, <1>3, <3>1
    <3> HIDE DEF p, n, f, x
    <3> QED
      BY <1>1, <3>2, <3>3 DEF RngInv
  <2>2. /\ \A q \in 1..2 : given'[q] = IF q = p THEN given[p] \cup b ELSE given[q]
        /\ \A q \in 1..2 : count'[q] = IF q = p THEN count[p] + n ELSE count[q]
        /\ count' \in [1..2 -> Nat] /\ DOMAIN given' = 1..2
        /\ given' = [q \in 1..2 |-> given'[q]]
    <3>1. /\ given' = [given EXCEPT ![p] = @ \cup b] /\ count' = [count EXCEPT ![p] = @ + n]
      BY <1>1, <1>3 DEF N!Answer
    <3>2. DOMAIN given = 1..2 /\ count \in [1..2 -> Nat] /\ count[p] + n \in Nat
      BY <1>1 DEF RngInv
    <3> HIDE DEF p, n, b
    <3> QED
      BY <1>1, <3>1, <3>2
  <2>3. b \subseteq (1..f) \X (1..CACHE)
    BY <1>1 DEF N!Bytes, Sizes
  <2>4. \A q \in 1..2 : given[q] \subseteq (1..f) \X (1..CACHE)
    BY <1>1 DEF RngInv
  <2>5. given' \in [1..2 -> SUBSET ((1..fills') \X (1..CACHE))]
    BY <1>3, <2>2, <2>3, <2>4
  <2>6. \A q \in 1..2, i \in Int : <<f, i>> \notin given[q]
    BY <1>1 DEF RngInv
  <2>7. \A q \in 1..2 : IsFiniteSet(given'[q]) /\ Cardinality(given'[q]) = count'[q]
    <3> DEFINE g == given[p]
               a == 0
    <3>1. IsFiniteSet(g) /\ Cardinality(g) = count[p] /\ f \in Nat /\ n \in Nat /\ a \in Nat
          /\ \A i \in Int : i > a => <<f, i>> \notin g
      BY <1>1, <2>6 DEF RngInv
    <3> HIDE DEF g, f, n, a
    <3>2. /\ IsFiniteSet(g \cup N!Bytes(f, a, n))
          /\ Cardinality(g \cup N!Bytes(f, a, n)) = Cardinality(g) + n
      BY <3>1, GivenMore
    <3>3. IsFiniteSet(given[p] \cup b) /\ Cardinality(given[p] \cup b) = count[p] + n
      BY <3>1, <3>2 DEF g, f, a
    <3> QED
      BY <2>2, <3>3 DEF RngInv
  <2>8. (\A q \in 1..2 : CacheInv(rng[q], given[q]))'
    <3> SUFFICES ASSUME NEW q \in 1..2, ~rng'[q].dirty
                 PROVE  /\ rng'[q].bytes \in 1..fills' /\ rng'[q].offset <= CACHE
                        /\ \A i \in Int : i > rng'[q].offset => <<rng'[q].bytes, i>> \notin given'[q]
      BY DEF CacheInv
    <3>1. CASE q = p
      <4>1. \A i \in Int : i > n => <<f, i>> \notin b
        BY <1>1 DEF N!Bytes
      <4> QED
        BY <1>1, <1>3, <2>1, <2>2, <2>6, <3>1, <4>1 DEF Sizes
    <3>2. CASE q # p
      BY <1>1, <1>3, <2>1, <2>2, <3>2 DEF RngInv, CacheInv
    <3> QED
      BY <3>1, <3>2
  <2>9. /\ rpc' \in [Callers -> {"unborn", "idle", "hw", "enter", "fill", "liboqs"}]
        /\ \A u \in Callers : rpc'[u] = IF u = t THEN "idle" ELSE rpc[u]
    BY <1>3 DEF N!Goto, RngInv
  <2>10. \A u \in Callers : rpc'[u] = "fill" => rng'[N!Process(u)].mu = u /\ rng'[N!Process(u)].dirty
    BY <1>2, <2>1, <2>9, ProcessType DEF RngInv
  <2>11. fills' \in 0..MaxFills
    BY <1>1, <1>3 DEF Sizes
  <2>12. \A u \in Callers : rpc'[u] \in {"enter", "fill"} => outlen'[u] <= SMALL
    BY <1>3, <2>9 DEF RngInv
  <2>13. outlen' \in [Callers -> Nat]
    BY <1>3 DEF RngInv
  <2> QED
    BY <2>1, <2>2, <2>5, <2>7, <2>8, <2>9, <2>10, <2>11, <2>12, <2>13 DEF RngInv
<1>4. ASSUME rng' = [rng EXCEPT ![p] = [@ EXCEPT !.bytes = 0, !.error = TRUE, !.mu = N!NoThread]],
             N!Goto(t, "liboqs"), UNCHANGED <<given, count, fills, outlen>>
      PROVE  RngInv'
  <2>1. /\ rng' \in [1..2 -> CacheType]
        /\ \A q \in 1..2 : IF q = p THEN rng'[q].dirty ELSE rng'[q] = rng[q]
    <3> DEFINE x == [rng[p] EXCEPT !.bytes = 0, !.error = TRUE, !.mu = N!NoThread]
    <3>1. x \in CacheType /\ x.dirty
      <4>1. rng[p] \in CacheType /\ rng[p].dirty
        BY <1>1 DEF RngInv, CacheType
      <4> HIDE DEF p
      <4> QED
        BY <1>1, <4>1 DEF CacheType
    <3>2. rng' = [rng EXCEPT ![p] = x]
      BY <1>4
    <3> HIDE DEF p, x
    <3> QED
      BY <1>1, <3>1, <3>2 DEF RngInv
  <2>2. /\ rpc' \in [Callers -> {"unborn", "idle", "hw", "enter", "fill", "liboqs"}]
        /\ \A u \in Callers : rpc'[u] = IF u = t THEN "liboqs" ELSE rpc[u]
    BY <1>4 DEF N!Goto, RngInv
  <2>3. (\A q \in 1..2 : CacheInv(rng[q], given[q]))'
    BY <1>4, <2>1 DEF RngInv, CacheInv
  <2>4. \A u \in Callers : rpc'[u] = "fill" => rng'[N!Process(u)].mu = u /\ rng'[N!Process(u)].dirty
    BY <1>2, <2>1, <2>2, ProcessType DEF RngInv
  <2> QED
    BY <1>4, <2>1, <2>2, <2>3, <2>4 DEF RngInv
<1> QED
  BY <1>3, <1>4 DEF N!luna_pqc_rng_hw_pkcs11

(* A child starts with what its parent had, and none of its threads fills the cache. *)
LEMMA ForkKeeps ==
    ASSUME Sizes, RngInv, N!Fork
    PROVE  RngInv'
<1>1. /\ \A c \in Child \cap Callers : rpc[c] = "unborn"
      /\ rng' = [rng EXCEPT ![2] = rng[1]]
      /\ given' = [given EXCEPT ![2] = given[1]] /\ count' = [count EXCEPT ![2] = count[1]]
      /\ rpc' = [u \in Callers |-> IF u \in Child THEN "idle" ELSE rpc[u]]
      /\ UNCHANGED <<fills, outlen>>
  BY DEF N!Fork
<1>2. 1 \in 1..2 /\ 2 \in 1..2
  OBVIOUS
<1>3. /\ rng' \in [1..2 -> CacheType]
      /\ given' \in [1..2 -> SUBSET ((1..fills') \X (1..CACHE))] /\ count' \in [1..2 -> Nat]
      /\ \A q \in 1..2 : /\ rng'[q] = rng[1] /\ given'[q] = given[1] /\ count'[q] = count[1]
  BY <1>1, <1>2 DEF RngInv
<1>4. (\A q \in 1..2 : CacheInv(rng[q], given[q]))'
  BY <1>1, <1>2, <1>3 DEF RngInv, CacheInv
<1>5. \A q \in 1..2 : IsFiniteSet(given'[q]) /\ Cardinality(given'[q]) = count'[q]
  BY <1>2, <1>3 DEF RngInv
<1>6. rpc' \in [Callers -> {"unborn", "idle", "hw", "enter", "fill", "liboqs"}]
  BY <1>1 DEF RngInv
<1>7. ASSUME NEW u \in Callers, rpc'[u] = "fill"
      PROVE  rng'[N!Process(u)].mu = u /\ rng'[N!Process(u)].dirty
  <2>1. u \notin Child /\ rpc[u] = "fill" /\ N!Process(u) = 1
    BY <1>1, <1>7 DEF N!Process
  <2> QED
    BY <1>2, <1>3, <2>1 DEF RngInv
<1>8. \A u \in Callers : rpc'[u] \in {"enter", "fill"} => outlen'[u] <= SMALL
  BY <1>1 DEF RngInv
<1> QED
  BY <1>1, <1>3, <1>4, <1>5, <1>6, <1>7, <1>8 DEF RngInv

(* The other steps only move a thread. *)
LEMMA RngMoves ==
    ASSUME Sizes, RngInv, NEW t \in Callers, NEW l \in {"idle", "hw", "enter", "liboqs"},
           rpc' = [rpc EXCEPT ![t] = l], outlen' \in [Callers -> Nat],
           \A u \in Callers : u # t => outlen'[u] = outlen[u],
           l = "enter" => outlen'[t] <= SMALL, UNCHANGED <<rng, given, count, fills>>
    PROVE  RngInv'
<1>1. /\ rpc' \in [Callers -> {"unborn", "idle", "hw", "enter", "fill", "liboqs"}]
      /\ \A u \in Callers : rpc'[u] = IF u = t THEN l ELSE rpc[u]
  BY DEF RngInv
<1>2. (\A q \in 1..2 : CacheInv(rng[q], given[q]))'
  BY DEF RngInv, CacheInv
<1>3. \A u \in Callers : rpc'[u] = "fill" => rng'[N!Process(u)].mu = u /\ rng'[N!Process(u)].dirty
  BY <1>1 DEF RngInv
<1>4. \A u \in Callers : rpc'[u] \in {"enter", "fill"} => outlen'[u] <= SMALL
  BY <1>1 DEF RngInv
<1> QED
  BY <1>1, <1>2, <1>3, <1>4 DEF RngInv

LEMMA RngNext ==
    ASSUME Sizes, RngInv, [N!Next]_(N!vars)
    PROVE  RngInv'
<1>1. ASSUME NEW t \in Callers, NEW n \in 1..(SMALL + 1), N!luna_pqc_rng(t, n)
      PROVE  RngInv'
  <2>1. n \in Nat /\ outlen' = [outlen EXCEPT ![t] = n]
    BY <1>1 DEF N!luna_pqc_rng, Sizes
  <2>2. outlen' \in [Callers -> Nat] /\ \A u \in Callers : u # t => outlen'[u] = outlen[u]
    BY <2>1 DEF RngInv
  <2>3. PICK l \in {"liboqs", "hw"} : rpc' = [rpc EXCEPT ![t] = l]
    BY <1>1 DEF N!luna_pqc_rng, N!Goto
  <2>4. UNCHANGED <<rng, given, count, fills>>
    BY <1>1 DEF N!luna_pqc_rng
  <2> QED
    BY <2>2, <2>3, <2>4, RngMoves
<1>2. ASSUME NEW t \in Callers, N!luna_pqc_rng_hw(t)
      PROVE  RngInv'
  <2>1. UNCHANGED <<rng, given, count, fills, outlen>> /\ outlen \in [Callers -> Nat]
    BY <1>2 DEF N!luna_pqc_rng_hw, RngInv
  <2>2. PICK l \in {"enter", "liboqs"} : rpc' = [rpc EXCEPT ![t] = l] /\ (l = "enter" => outlen[t] <= SMALL)
    BY <1>2 DEF N!luna_pqc_rng_hw, N!Goto
  <2> QED
    BY <2>1, <2>2, RngMoves
<1>3. ASSUME NEW t \in Callers, N!luna_pqc_rng_liboqs(t)
      PROVE  RngInv'
  BY <1>3, RngMoves DEF N!luna_pqc_rng_liboqs, N!Goto, RngInv
<1>4. ASSUME NEW t \in Callers, N!luna_pqc_rng_hw_cache(t)
      PROVE  RngInv'
  BY <1>4, ServeKeeps, DirtyKeeps
<1>5. ASSUME UNCHANGED N!vars
      PROVE  RngInv'
  BY <1>5 DEF N!vars, RngInv, CacheInv
<1> QED
  BY <1>1, <1>2, <1>3, <1>4, <1>5, FillKeeps, ForkKeeps DEF N!Next

(* What parent and child have both is what they shared at the fork.  It stays so because
   the bytes one of them still has unread, if the other had them or has them unread too,
   are of that kind. *)
Sharing ==
    /\ given[1] \cap given[2] \subseteq shared
    /\ \A p, q \in 1..2, i \in 1..CACHE :
          p # q /\ ~rng[p].dirty /\ i > rng[p].offset =>
             /\ <<rng[p].bytes, i>> \in given[q] => <<rng[p].bytes, i>> \in shared
             /\ ~rng[q].dirty /\ rng[q].bytes = rng[p].bytes => <<rng[p].bytes, i>> \in shared

LEMMA SharingInit ==
    ASSUME N!Init
    PROVE  Sharing
BY DEF N!Init, N!Static, Sharing

(* A request served from the cache takes bytes that the other process has only if shared. *)
LEMMA SharingServe ==
    ASSUME Sizes, RngInv, Sharing, NEW t \in Callers, N!luna_pqc_rng_hw_cache(t), N!Fits(t),
           shared' = shared
    PROVE  Sharing'
<1> DEFINE p == N!Process(t)
           r == rng[p]
           b == N!Bytes(r.bytes, r.offset, outlen[t])
<1>1. p \in 1..2 /\ outlen[t] \in Nat /\ r.offset \in Nat /\ r.bytes \in Nat /\ ~r.dirty
      /\ r.offset + outlen[t] <= CACHE /\ CACHE \in Nat
  BY ProcessType DEF RngInv, CacheType, N!Fits, Sizes
<1>2. /\ rng' = [rng EXCEPT ![p].offset = @ + outlen[t]] /\ given' = [given EXCEPT ![p] = @ \cup b]
      /\ rng \in [1..2 -> CacheType] /\ DOMAIN given = 1..2
  BY DEF N!luna_pqc_rng_hw_cache, N!Copied, N!Answer, RngInv
<1>3. \A q \in 1..2 : /\ rng'[q].dirty = rng[q].dirty /\ rng'[q].bytes = rng[q].bytes
                      /\ rng'[q].offset = IF q = p THEN r.offset + outlen[t] ELSE rng[q].offset
                      /\ given'[q] = IF q = p THEN given[p] \cup b ELSE given[q]
  BY <1>1, <1>2 DEF CacheType
<1>4. \A x \in b : \E i \in 1..CACHE : x = <<r.bytes, i>> /\ i > r.offset
  BY <1>1 DEF N!Bytes
<1>5. \A q \in 1..2 : q # p => b \cap given[q] \subseteq shared
  BY <1>1, <1>4 DEF Sharing
<1> HIDE DEF p, r, b
<1>6. given'[1] \cap given'[2] \subseteq shared
  BY <1>1, <1>3, <1>5 DEF Sharing
<1>7. ASSUME NEW x \in 1..2, NEW q \in 1..2, NEW i \in 1..CACHE,
             x # q, ~rng'[x].dirty, i > rng'[x].offset
      PROVE  /\ <<rng'[x].bytes, i>> \in given'[q] => <<rng'[x].bytes, i>> \in shared
             /\ ~rng'[q].dirty /\ rng'[q].bytes = rng'[x].bytes => <<rng'[x].bytes, i>> \in shared
  <2>1. ~rng[x].dirty /\ i > rng[x].offset /\ rng'[x].bytes = rng[x].bytes
    BY <1>1, <1>3, <1>7 DEF r
  <2>2. /\ <<rng[x].bytes, i>> \in given[q] => <<rng[x].bytes, i>> \in shared
        /\ ~rng[q].dirty /\ rng[q].bytes = rng[x].bytes => <<rng[x].bytes, i>> \in shared
    BY <1>7, <2>1 DEF Sharing
  <2>3. q = p /\ <<rng[x].bytes, i>> \in b => rng[q].bytes = rng[x].bytes /\ ~rng[q].dirty
    BY <1>1, <1>4 DEF r
  <2> QED
    BY <1>3, <2>1, <2>2, <2>3
<1> QED
  BY <1>6, <1>7 DEF Sharing

(* A fill is of one process. *)
LEMMA SharingFill ==
    ASSUME Sizes, RngInv, Sharing, NEW t \in Callers, N!luna_pqc_rng_hw_pkcs11(t),
           shared' = shared
    PROVE  Sharing'
<1> DEFINE p == N!Process(t)
           b == N!Bytes(fills', 0, outlen[t])
<1>1. p \in 1..2 /\ rng[p].dirty /\ fills \in Nat /\ CACHE \in Nat
      /\ rng \in [1..2 -> CacheType] /\ DOMAIN given = 1..2
      /\ \A q \in 1..2 : given[q] \subseteq (1..fills) \X (1..CACHE)
  BY ProcessType DEF RngInv, N!luna_pqc_rng_hw_pkcs11, Sizes
<1>2. \A q \in 1..2 : ~rng[q].dirty => rng[q].bytes \in 1..fills
  BY DEF RngInv, CacheInv
<1>3. CASE fills' = fills + 1 /\ given' = [given EXCEPT ![p] = @ \cup b]
           /\ \A q \in 1..2 : IF q = p THEN rng'[q].bytes = fills' ELSE rng'[q] = rng[q]
  <2>1. \A q \in 1..2, i \in Int : <<fills', i>> \notin given[q]
    BY <1>1, <1>3
  <2>2. \A x \in b : \E i \in Int : x = <<fills', i>>
    BY DEF N!Bytes
  <2>3. \A q \in 1..2 : given'[q] = IF q = p THEN given[p] \cup b ELSE given[q]
    BY <1>1, <1>3
  <2> HIDE DEF p, b
  <2>4. given'[1] \cap given'[2] \subseteq shared
    BY <1>1, <2>1, <2>2, <2>3 DEF Sharing
  <2>5. ASSUME NEW x \in 1..2, NEW q \in 1..2, NEW i \in 1..CACHE,
               x # q, ~rng'[x].dirty, i > rng'[x].offset
        PROVE  /\ <<rng'[x].bytes, i>> \in given'[q] => <<rng'[x].bytes, i>> \in shared
               /\ ~rng'[q].dirty /\ rng'[q].bytes = rng'[x].bytes => <<rng'[x].bytes, i>> \in shared
    <3>1. CASE x = p
      <4>1. rng'[x].bytes = fills' /\ q # p /\ rng'[q] = rng[q] /\ given'[q] = given[q]
        BY <1>3, <2>3, <2>5, <3>1
      <4>2. <<rng'[x].bytes, i>> \notin given'[q]
        BY <2>1, <4>1
      <4>3. ~rng[q].dirty => rng[q].bytes # fills'
        BY <1>1, <1>2, <1>3
      <4> QED
        BY <4>1, <4>2, <4>3
    <3>2. CASE x # p
      <4>1. q = p /\ rng'[x] = rng[x] /\ rng'[q].bytes = fills'
        BY <1>1, <1>3, <2>5, <3>2
      <4>2. rng[x].bytes # fills'
        BY <1>1, <1>2, <1>3, <2>5, <4>1
      <4>3. <<rng[x].bytes, i>> \notin b
        BY <2>2, <4>2
      <4> QED
        BY <2>3, <2>5, <4>1, <4>2, <4>3 DEF Sharing
    <3> QED
      BY <3>1, <3>2
  <2> QED
    BY <2>4, <2>5 DEF Sharing
<1>4. CASE given' = given /\ \A q \in 1..2 : IF q = p THEN rng'[q].dirty ELSE rng'[q] = rng[q]
  BY <1>1, <1>4 DEF Sharing
<1>5. ASSUME NEW x, rng' = [rng EXCEPT ![p] = x]
      PROVE  \A q \in 1..2 : rng'[q] = IF q = p THEN x ELSE rng[q]
  <2> HIDE DEF p
  <2> QED
    BY <1>1, <1>5
<1>6. rng[p] \in CacheType
  BY <1>1
<1>7. ASSUME fills' = fills + 1, given' = [given EXCEPT ![p] = @ \cup b],
             rng' = [rng EXCEPT ![p] = [@ EXCEPT !.dirty = FALSE, !.bytes = fills',
                                                 !.offset = outlen[t], !.mu = N!NoThread]]
      PROVE  Sharing'
  <2> DEFINE x == [rng[p] EXCEPT !.dirty = FALSE, !.bytes = fills', !.offset = outlen[t],
                                 !.mu = N!NoThread]
  <2>1. x.bytes = fills'
    BY <1>6 DEF CacheType
  <2>2. rng' = [rng EXCEPT ![p] = x]
    BY <1>7
  <2> HIDE DEF x
  <2>3. \A q \in 1..2 : rng'[q] = IF q = p THEN x ELSE rng[q]
    BY <1>5, <2>2
  <2> HIDE DEF p, b
  <2> QED
    BY <1>3, <1>7, <2>1, <2>3
<1>8. ASSUME given' = given,
             rng' = [rng EXCEPT ![p] = [@ EXCEPT !.bytes = 0, !.error = TRUE, !.mu = N!NoThread]]
      PROVE  Sharing'
  <2> DEFINE x == [rng[p] EXCEPT !.bytes = 0, !.error = TRUE, !.mu = N!NoThread]
  <2>1. x.dirty
    BY <1>1, <1>6 DEF CacheType
  <2>2. rng' = [rng EXCEPT ![p] = x]
    BY <1>8
  <2> HIDE DEF x
  <2>3. \A q \in 1..2 : rng'[q] = IF q = p THEN x ELSE rng[q]
    BY <1>5, <2>2
  <2> HIDE DEF p, b
  <2> QED
    BY <1>4, <1>8, <2>1, <2>3
<1> QED
  BY <1>7, <1>8 DEF N!luna_pqc_rng_hw_pkcs11, N!Answer

(* At the fork parent and child have the same bytes, read and unread. *)
LEMMA SharingFork ==
    ASSUME Sizes, RngInv, N!Fork
    PROVE  Sharing'
<1>1. /\ rng' = [rng EXCEPT ![2] = rng[1]] /\ given' = [given EXCEPT ![2] = given[1]]
      /\ shared' = given[1] \cup N!Unread(rng[1])
      /\ DOMAIN rng = 1..2 /\ DOMAIN given = 1..2 /\ rng[1] \in CacheType /\ CACHE \in Nat
  BY DEF N!Fork, RngInv, Sizes
<1>2. \A q \in 1..2 : rng'[q] = rng[1] /\ given'[q] = given[1]
  BY <1>1
<1>3. \A i \in 1..CACHE : ~rng[1].dirty /\ i > rng[1].offset
                          => <<rng[1].bytes, i>> \in N!Unread(rng[1])
  BY <1>1 DEF N!Unread, N!Bytes, CacheType
<1> QED
  BY <1>1, <1>2, <1>3 DEF Sharing

LEMMA SharingNext ==
    ASSUME Sizes, RngInv, Sharing, [N!Next]_(N!vars)
    PROVE  Sharing'
<1>1. ASSUME UNCHANGED <<rng, given, shared>>
      PROVE  Sharing'
  BY <1>1 DEF Sharing
<1>2. ASSUME NEW t \in Callers, N!luna_pqc_rng_hw_cache(t), ~N!Fits(t), shared' = shared
      PROVE  Sharing'
  <2>1. /\ N!Process(t) \in 1..2 /\ given' = given
        /\ rng' = [rng EXCEPT ![N!Process(t)].dirty = TRUE, ![N!Process(t)].mu = t]
        /\ rng \in [1..2 -> CacheType]
    BY <1>2, ProcessType DEF N!luna_pqc_rng_hw_cache, RngInv
  <2>2. \A q \in 1..2 : IF q = N!Process(t) THEN rng'[q].dirty ELSE rng'[q] = rng[q]
    BY <2>1 DEF CacheType
  <2> QED
    BY <1>2, <2>1, <2>2 DEF Sharing
<1>3. ASSUME NEW t \in Callers, UNCHANGED shared,
             \/ \E n \in 1..(SMALL + 1) : N!luna_pqc_rng(t, n)
             \/ N!luna_pqc_rng_hw(t) \/ N!luna_pqc_rng_liboqs(t)
      PROVE  Sharing'
  BY <1>1, <1>3 DEF N!luna_pqc_rng, N!luna_pqc_rng_hw, N!luna_pqc_rng_liboqs
<1>4. CASE UNCHANGED N!vars
  BY <1>1, <1>4 DEF N!vars
<1> QED
  BY <1>2, <1>3, <1>4, SharingServe, SharingFill, SharingFork DEF N!Next

(* The types of the cache, which a request for more than the cache holds would break. *)
RngExact == [error : BOOLEAN, mu : Callers \cup {N!NoThread}, dirty : BOOLEAN,
             offset : 0..CACHE, bytes : 0..MaxFills]
RngTypes == rng \in [1..2 -> RngExact] /\ outlen \in [Callers -> 0..(SMALL + 1)]

LEMMA RngTypesInit ==
    ASSUME Sizes
    PROVE  N!Init => RngTypes
<1>1. N!Static \in RngExact
  BY DEF N!Static, RngExact, Sizes
<1> QED
  BY <1>1 DEF N!Init, RngTypes, Sizes

LEMMA RngTypesStep ==
    ASSUME Sizes, RngInv, RngTypes, [N!Next]_(N!vars)
    PROVE  RngTypes'
<1>1. /\ rng \in [1..2 -> RngExact] /\ outlen \in [Callers -> 0..(SMALL + 1)]
      /\ \A q \in 1..2, x \in RngExact : [rng EXCEPT ![q] = x] \in [1..2 -> RngExact]
  BY DEF RngTypes
<1>2. ASSUME NEW t \in Callers, NEW n \in 1..(SMALL + 1), N!luna_pqc_rng(t, n)
      PROVE  RngTypes'
  BY <1>1, <1>2 DEF N!luna_pqc_rng, RngTypes, Sizes
<1>3. ASSUME NEW t \in Callers, N!luna_pqc_rng_hw(t) \/ N!luna_pqc_rng_liboqs(t)
      PROVE  RngTypes'
  BY <1>1, <1>3 DEF N!luna_pqc_rng_hw, N!luna_pqc_rng_liboqs, RngTypes
<1>4. ASSUME NEW t \in Callers, N!luna_pqc_rng_hw_cache(t)
      PROVE  RngTypes'
  <2> DEFINE p == N!Process(t)
             r == rng[p]
             served == [r EXCEPT !.offset = @ + outlen[t]]
             marked == [r EXCEPT !.dirty = TRUE, !.mu = t]
  <2>1. p \in 1..2 /\ r \in RngExact /\ outlen[t] \in 0..(SMALL + 1)
    BY <1>1, ProcessType
  <2> HIDE DEF p
  <2>2. N!Fits(t) => served \in RngExact
    <3>1. N!Fits(t) => r.offset + outlen[t] \in 0..CACHE
      BY <2>1 DEF N!Fits, p, RngExact, Sizes
    <3> HIDE DEF r
    <3> QED
      BY <2>1, <3>1 DEF RngExact
  <2>3. marked \in RngExact
    <3> HIDE DEF r
    <3> QED
      BY <2>1 DEF RngExact
  <2>4. \/ N!Fits(t) /\ rng' = [rng EXCEPT ![p] = served]
        \/ rng' = [rng EXCEPT ![p] = marked]
    BY <1>4 DEF N!luna_pqc_rng_hw_cache, N!Copied, p
  <2>5. outlen' = outlen
    BY <1>4 DEF N!luna_pqc_rng_hw_cache
  <2> HIDE DEF served, marked
  <2> QED
    BY <1>1, <2>1, <2>2, <2>3, <2>4, <2>5 DEF RngTypes
<1>5. ASSUME NEW t \in Callers, N!luna_pqc_rng_hw_pkcs11(t)
      PROVE  RngTypes'
  <2> DEFINE p == N!Process(t)
             r == rng[p]
             filled == [r EXCEPT !.dirty = FALSE, !.bytes = fills + 1, !.offset = outlen[t],
                                 !.mu = N!NoThread]
             failed == [r EXCEPT !.bytes = 0, !.error = TRUE, !.mu = N!NoThread]
  <2>1. p \in 1..2 /\ r \in RngExact /\ fills \in 0..MaxFills /\ outlen[t] \in 0..CACHE
    <3>1. outlen[t] <= SMALL
      BY <1>5 DEF N!luna_pqc_rng_hw_pkcs11, RngInv
    <3> QED
      BY <1>1, <3>1, ProcessType DEF RngInv, Sizes
  <2>2. fills < MaxFills => filled \in RngExact
    <3>1. fills < MaxFills => fills + 1 \in 0..MaxFills
      BY <2>1 DEF Sizes
    <3> HIDE DEF r
    <3> QED
      BY <2>1, <3>1 DEF RngExact
  <2>3. failed \in RngExact
    <3>1. 0 \in 0..MaxFills
      BY DEF Sizes
    <3> HIDE DEF r
    <3> QED
      BY <2>1, <3>1 DEF RngExact
  <2>4. \/ fills < MaxFills /\ rng' = [rng EXCEPT ![p] = filled]
        \/ rng' = [rng EXCEPT ![p] = failed]
    BY <1>5 DEF N!luna_pqc_rng_hw_pkcs11, p
  <2>5. outlen' = outlen
    BY <1>5 DEF N!luna_pqc_rng_hw_pkcs11
  <2> HIDE DEF filled, failed, p
  <2> QED
    BY <1>1, <2>1, <2>2, <2>3, <2>4, <2>5 DEF RngTypes
<1>6. CASE N!Fork
  BY <1>1, <1>6 DEF N!Fork, RngTypes
<1>7. CASE UNCHANGED N!vars
  BY <1>7 DEF N!vars, RngTypes
<1> QED
  BY <1>2, <1>3, <1>4, <1>5, <1>6, <1>7 DEF N!Next

LEMMA SizesHold == Sizes
  BY KeyPathsAssumption DEF Sizes, N!NoThread

LEMMA SameCardinality == \A s : N!Cardinality(s) = Cardinality(s)
  BY DEF N!Cardinality, Cardinality

(* No random byte of the token is given to a process twice, or to a child after its parent
   had it; parent and child are both given a byte only if it was unread in the cache at the
   fork.  This holds whatever the sizes and however many threads ask at the same time. *)
THEOREM BytesGivenOnce == PathSpec => []BytesOnce
<1> DEFINE Inv == part = "random" => RngInv /\ Sharing
<1>1. PathInit => Inv
  BY SizesHold, RngInit, SharingInit DEF PathInit
<1>2. Inv /\ [PathNext]_all => Inv'
  <2> SUFFICES ASSUME Inv, [PathNext]_all, part' = "random" PROVE RngInv' /\ Sharing'
    OBVIOUS
  <2>1. part = "random" /\ [N!Next]_(N!vars)
    BY DEF PathNext, all, random, N!vars
  <2> QED
    BY <2>1, SizesHold, RngNext, SharingNext
<1>3. RngInv /\ Sharing => N!BytesOnce
  <2> SUFFICES ASSUME RngInv, Sharing PROVE N!BytesOnce
    OBVIOUS
  <2>1. (1..fills) \X (1..CACHE) \subseteq (1..MaxFills) \X (1..CACHE)
    BY SizesHold DEF RngInv, Sizes
  <2>2. \A p \in 1..2 : Cardinality(given[p]) = count[p] /\ given[p] \subseteq (1..fills) \X (1..CACHE)
    BY DEF RngInv
  <2>3. given[1] \cap given[2] \subseteq shared
    BY DEF Sharing
  <2> QED
    BY <2>1, <2>2, <2>3, SameCardinality DEF N!BytesOnce
<1>4. Inv => BytesOnce
  BY <1>3 DEF BytesOnce
<1> QED
  BY <1>1, <1>2, <1>4, PTL DEF PathSpec

-----------------------------------------------------------------------------
(* The way of a secret, whose invariant is proved in TokenSecretProofs. *)
SP == INSTANCE TokenSecretProofs WITH Ops <- SecretOps, open <- sessions, pc <- spc

LEMMA SecretBounds == SP!Bounds /\ MaxInit \in Nat \ {0} /\ MaxKeys \in Nat
  BY KeyPathsAssumption, KeyUseAssumption DEF SP!Bounds

LEMMA SameSecret ==
    /\ S!Init <=> SP!Init
    /\ S!Next <=> SP!Next
    /\ UNCHANGED S!vars <=> UNCHANGED SP!vars
    /\ S!TypeOK <=> SP!TypeOK
    /\ S!WrapperFresh <=> SP!WrapperFresh
    /\ S!NoSecretStays <=> SP!NoSecretStays
<1>1. S!Init <=> SP!Init
  BY DEF S!Init, SP!Init, S!NoObj, SP!NoObj, S!Local, SP!Local
<1>2. UNCHANGED S!vars <=> UNCHANGED SP!vars
  BY DEF S!vars, SP!vars, S!wvars, SP!wvars
<1>3. S!Next <=> SP!Next
  BY DEF S!Next, SP!Next, S!NoObj, SP!NoObj, S!Local, SP!Local, S!wvars, SP!wvars,
     S!Goto, SP!Goto, S!Fails, SP!Fails, S!Object, SP!Object, S!Idle, SP!Idle,
     S!Reinit, SP!Reinit, S!luna_init_ecdh, SP!luna_init_ecdh,
     S!luna_open_context, SP!luna_open_context, S!Compute, SP!Compute,
     S!LunaPqcKemDecap, SP!LunaPqcKemDecap, S!LunaPqcKemEncap, SP!LunaPqcKemEncap,
     S!LunaEcdhComputeKey, SP!LunaEcdhComputeKey,
     S!luna_prov_ECDH_compute_key_ex, SP!luna_prov_ECDH_compute_key_ex,
     S!Prep, SP!Prep, S!luna_init_wrapping_pkey_deferred, SP!luna_init_wrapping_pkey_deferred,
     S!Generated, SP!Generated, S!Reset, SP!Reset, S!Prepared, SP!Prepared,
     S!LunaUnwrapKeyBytes_prep, SP!LunaUnwrapKeyBytes_prep, S!Load, SP!Load, S!Check, SP!Check,
     S!Take, SP!Take, S!Import, SP!Import, S!Stores, SP!Stores, S!Store, SP!Store,
     S!Wrap, SP!Wrap, S!Unwrap, SP!Unwrap,
     S!LunaUnwrapKeyBytesOAEP, SP!LunaUnwrapKeyBytesOAEP, S!Destroyed, SP!Destroyed,
     S!Destroy, SP!Destroy, S!luna_close_context_w_err, SP!luna_close_context_w_err
<1>4. S!TypeOK <=> SP!TypeOK
  BY DEF S!TypeOK, SP!TypeOK, S!Handles, SP!Handles, S!NoObj, SP!NoObj
<1>5. S!WrapperFresh <=> SP!WrapperFresh
  BY DEF S!WrapperFresh, SP!WrapperFresh, S!NoObj, SP!NoObj
<1>6. S!NoSecretStays <=> SP!NoSecretStays
  BY DEF S!NoSecretStays, SP!NoSecretStays
<1> QED
  BY <1>1, <1>2, <1>3, <1>4, <1>5, <1>6

(* However calls interleave, fail, and are cut by initializations of the library: a secret
   leaves the token under a key of this initialization, and its object does not stay. *)
THEOREM SecretsAlwaysArrive == PathSpec => []SecretsArrive
<1> DEFINE Inv == part = "secret" => SP!IInv
<1>1. PathInit => Inv
  BY SecretBounds, SameSecret, SP!InitInv DEF PathInit
<1>2. Inv /\ [PathNext]_all => Inv'
  <2> SUFFICES ASSUME Inv, [PathNext]_all, part' = "secret" PROVE SP!IInv'
    OBVIOUS
  <2>1. part = "secret" /\ [S!Next]_(S!vars)
    BY DEF PathNext, all, secret, S!vars, S!wvars
  <2>2. SP!IInv /\ [SP!Next]_(SP!vars)
    BY <2>1, SameSecret
  <2> QED
    BY <2>2, SecretBounds, SP!NextInv
<1>3. SP!IInv => SP!WrapperFresh /\ SP!NoSecretStays
  BY DEF SP!IInv, SP!FreshInv, SP!Fresh, SP!WrapperFresh, SP!SecretInv
<1>4. Inv => SecretsArrive
  BY <1>3, SameSecret DEF SecretsArrive
<1> QED
  BY <1>1, <1>2, <1>4, PTL DEF PathSpec

-----------------------------------------------------------------------------
(* The references a key travels with. *)

(* Neither "no pair" nor the bytes of no pair is a pair. *)
RefBounds == 0 \notin Pairs /\ P!Garbage \notin Pairs /\ MaxInit \in Nat \ {0}

Reference(b) == b.form \in {"v1", "v2"}
Reasons == P!Outside \cup {"zero", "gen", "create"}
BytesType == [form : {"null", "key", "v1", "v2"}, p : Pairs \cup {0}]
CtxType == [magic : {"zero", "ok", "error"}, hw : BOOLEAN, hPrivate : P!Objects,
            hPublic : P!Objects, count : 0..MaxInit, reason : Reasons]
KeyType == [kind : {kind, "free"}, bytes : BytesType, pub : Pairs \cup {0, P!Garbage},
            ctx : CtxType]

(* What holds of a key of the token wherever it has travelled. *)
RefGood(r) ==
    /\ Reference(r.bytes) => r.bytes.p \in Pairs /\ r.ctx.hw
    /\ r.bytes.form = "v1" => ~P!Ecx(r.kind)
    /\ r.ctx.hPrivate # P!NoObj => /\ Reference(r.bytes)
                                 /\ r.ctx.hPrivate.half = "priv" /\ r.ctx.hPrivate.p = r.bytes.p
    /\ r.ctx.magic = "ok" => Reference(r.bytes)

(* The pair of a KEM key is never stored, so an outdated handle is of a pair that is gone:
   a second search cannot bring the handle of the pair back beside the bytes of a peer. *)
KemGood(r) ==
    r.kind = "kem" =>
        /\ r.pub # P!Garbage
        /\ r.ctx.magic = "zero" => r.ctx.reason \notin {"gen", "create"}
        /\ r.ctx.magic = "ok" /\ r.ctx.count # gen => P!Find("priv", r.bytes.p) = {}
        /\ r.ctx.magic = "ok" /\ r.ctx.count = gen /\ r.ctx.reason \in {"gen", "create"}
              => r.ctx.hPublic.p = r.pub

Good(r) == r \in KeyType /\ r.ctx.count <= gen /\ RefGood(r) /\ KemGood(r)

RefInv ==
    /\ gen \in 1..MaxInit /\ kind \in P!Kinds /\ tokenobjs \subseteq P!Objects \ {P!NoObj}
    /\ kind = "kem" => \A o \in tokenobjs : ~o.token
    /\ DOMAIN key = Keys
    /\ \A k \in Keys : Good(key[k])
-----------------------------------------------------------------------------
(* Changes of a key and of its context. *)
LEMMA KeyFields ==
    ASSUME NEW r \in KeyType, NEW c \in CtxType, NEW p \in Pairs \cup {0, P!Garbage}
    PROVE  /\ [r EXCEPT !.ctx = c] \in KeyType /\ [r EXCEPT !.ctx = c].kind = r.kind
           /\ [r EXCEPT !.ctx = c].bytes = r.bytes /\ [r EXCEPT !.ctx = c].pub = r.pub
           /\ [r EXCEPT !.ctx = c].ctx = c
           /\ [r EXCEPT !.pub = p] \in KeyType /\ [r EXCEPT !.pub = p].kind = r.kind
           /\ [r EXCEPT !.pub = p].bytes = r.bytes /\ [r EXCEPT !.pub = p].pub = p
           /\ [r EXCEPT !.pub = p].ctx = r.ctx
  BY DEF KeyType

LEMMA KeyParts ==
    ASSUME NEW r \in KeyType
    PROVE  /\ r.ctx \in CtxType /\ r.bytes \in BytesType /\ r.pub \in Pairs \cup {0, P!Garbage}
           /\ r.kind \in {kind, "free"}
  BY DEF KeyType

LEMMA NewCtx ==
    ASSUME RefBounds
    PROVE  /\ P!NewKeyCtx \in CtxType /\ P!NewKeyCtx.magic = "zero" /\ P!NewKeyCtx.hw
           /\ P!NewKeyCtx.hPrivate = P!NoObj /\ P!NewKeyCtx.count = 0 /\ P!NewKeyCtx.reason = "zero"
<1>1. P!NoObj \in P!Objects
  BY DEF P!NoObj, P!Objects
<1>2. "zero" \in Reasons
  BY DEF Reasons
<1> QED
  BY <1>1, <1>2 DEF P!NewKeyCtx, CtxType, RefBounds

(* The labels of a reference name its pair, whatever its form; other bytes have none. *)
LEMMA LabelsOf ==
    ASSUME RefBounds, NEW r, RefGood(r)
    PROVE  /\ Reference(r.bytes) => /\ P!DecodeTemplate(r.kind, r.bytes) # P!Undecodable
                                    /\ P!DecodeTemplate(r.kind, r.bytes).private = r.bytes.p
                                    /\ P!DecodeTemplate(r.kind, r.bytes).public = r.bytes.p
           /\ ~Reference(r.bytes) => P!DecodeTemplate(r.kind, r.bytes) = P!Undecodable
<1>1. CASE r.bytes.form = "v2"
  <2>1. r.bytes.p # 0
    BY <1>1 DEF RefGood, Reference, RefBounds
  <2>2. P!DecodeTemplateV2(r.bytes) = P!Labels(r.bytes.p, r.bytes.p)
    BY <1>1 DEF P!DecodeTemplateV2
  <2>3. P!Labels(r.bytes.p, r.bytes.p) # P!Undecodable
    BY <2>1 DEF P!Labels, P!Undecodable
  <2>4. P!DecodeTemplate(r.kind, r.bytes) = P!Labels(r.bytes.p, r.bytes.p)
    BY <2>2, <2>3 DEF P!DecodeTemplate
  <2> QED
    BY <1>1, <2>3, <2>4 DEF P!Labels, Reference
<1>2. CASE r.bytes.form = "v1"
  <2>1. r.bytes.p # 0 /\ ~P!Ecx(r.kind)
    BY <1>2 DEF RefGood, Reference, RefBounds
  <2>2. P!DecodeTemplateV2(r.bytes) = P!Undecodable
    BY <1>2 DEF P!DecodeTemplateV2
  <2>3. P!DecodeTemplateV1(r.bytes) = P!Labels(r.bytes.p, r.bytes.p)
    BY <1>2 DEF P!DecodeTemplateV1
  <2>4. P!Labels(r.bytes.p, r.bytes.p) # P!Undecodable
    BY <2>1 DEF P!Labels, P!Undecodable
  <2>5. P!DecodeTemplate(r.kind, r.bytes) = P!Labels(r.bytes.p, r.bytes.p)
    BY <2>1, <2>2, <2>3 DEF P!DecodeTemplate
  <2> QED
    BY <1>2, <2>4, <2>5 DEF P!Labels, Reference
<1>3. CASE ~Reference(r.bytes)
  BY <1>3 DEF P!DecodeTemplate, P!DecodeTemplateV1, P!DecodeTemplateV2, Reference
<1> QED
  BY <1>1, <1>2, <1>3 DEF Reference

(* What a search makes of a context. *)
Searched(r, c) ==
    /\ c \in CtxType /\ c.count <= gen /\ c.reason = r.ctx.reason
    /\ Reference(r.bytes) => c.hw
    /\ \/ c.magic = "error" /\ c.hPrivate = r.ctx.hPrivate
       \/ /\ c.magic = "ok" /\ c.count = gen /\ Reference(r.bytes)
          /\ c.hPrivate \in P!Find("priv", r.bytes.p) /\ c.hPublic \in P!Find("pub", r.bytes.p)

LEMMA FindSearched ==
    ASSUME RefBounds, gen \in 1..MaxInit, tokenobjs \subseteq P!Objects \ {P!NoObj},
           NEW r, Good(r), NEW c \in P!LunaPqcFind(r)
    PROVE  Searched(r, c)
<1> DEFINE x == r.ctx
           m == [x EXCEPT !.hw = TRUE, !.magic = "error"]
<1>1. x \in CtxType /\ x.count <= gen
  BY KeyParts DEF Good
<1> HIDE DEF x
<1>2. m \in CtxType /\ m.hw /\ m.magic = "error" /\ m.hPrivate = x.hPrivate
      /\ m.count = x.count /\ m.reason = x.reason
  BY <1>1 DEF CtxType
<1>3. Searched(r, m)
  BY <1>1, <1>2 DEF Searched, x
<1>4. CASE c = m
  BY <1>3, <1>4
<1>5. CASE ~Reference(r.bytes) /\ c = [m EXCEPT !.hw = FALSE]
  <2> HIDE DEF m
  <2>1. c \in CtxType /\ c.magic = "error" /\ c.hPrivate = x.hPrivate
        /\ c.count = x.count /\ c.reason = x.reason
    BY <1>2, <1>5 DEF CtxType
  <2> QED
    BY <1>1, <1>5, <2>1 DEF Searched, x
<1>6. CASE c = [m EXCEPT !.count = 0]
  <2> HIDE DEF m
  <2>1. c \in CtxType /\ c.magic = "error" /\ c.hPrivate = x.hPrivate /\ c.hw
        /\ c.count = 0 /\ c.reason = x.reason
    BY <1>2, <1>6 DEF CtxType, RefBounds
  <2> QED
    BY <1>1, <2>1 DEF Searched, x
<1>7. ASSUME Reference(r.bytes), NEW a \in P!Find("priv", r.bytes.p), NEW b \in P!Find("pub", r.bytes.p),
             c = [m EXCEPT !.magic = "ok", !.hPrivate = a, !.hPublic = b, !.count = gen]
      PROVE  Searched(r, c)
  <2> HIDE DEF m
  <2>1. a \in P!Objects /\ b \in P!Objects /\ gen \in 0..MaxInit
    BY DEF P!Find, RefBounds
  <2>2. c \in CtxType /\ c.magic = "ok" /\ c.hPrivate = a /\ c.hPublic = b /\ c.hw
        /\ c.count = gen /\ c.reason = x.reason
    BY <1>2, <1>7, <2>1 DEF CtxType
  <2> QED
    BY <1>7, <2>2 DEF Searched, x
<1>8. r.bytes.form # "null" /\ P!DecodeTemplate(r.kind, r.bytes) # P!Undecodable => Reference(r.bytes)
  BY LabelsOf DEF Good
<1>9. CASE r.bytes.form = "null" \/ P!DecodeTemplate(r.kind, r.bytes) = P!Undecodable
  <2>1. ~Reference(r.bytes)
    BY <1>9, LabelsOf DEF Good, Reference
  <2>2. c = m \/ c = [m EXCEPT !.hw = FALSE]
    BY <1>9 DEF P!LunaPqcFind, x
  <2> QED
    BY <1>4, <1>5, <2>1, <2>2
<1>10. CASE r.bytes.form # "null" /\ P!DecodeTemplate(r.kind, r.bytes) # P!Undecodable
  <2>1. Reference(r.bytes)
    BY <1>8, <1>10
  <2>2. /\ P!DecodeTemplate(r.kind, r.bytes).private = r.bytes.p
        /\ P!DecodeTemplate(r.kind, r.bytes).public = r.bytes.p
    BY <2>1, LabelsOf DEF Good
  <2>3. \/ c = m \/ c = [m EXCEPT !.count = 0]
        \/ \E pair \in P!Find("priv", r.bytes.p) \X P!Find("pub", r.bytes.p) :
              c = [m EXCEPT !.magic = "ok", !.hPrivate = pair[1], !.hPublic = pair[2], !.count = gen]
    BY <1>10, <2>2 DEF P!LunaPqcFind, x
  <2>4. ASSUME NEW pair \in P!Find("priv", r.bytes.p) \X P!Find("pub", r.bytes.p),
               c = [m EXCEPT !.magic = "ok", !.hPrivate = pair[1], !.hPublic = pair[2], !.count = gen]
        PROVE  Searched(r, c)
    BY <1>7, <2>1, <2>4
  <2> QED
    BY <1>4, <1>6, <2>3, <2>4
<1> QED
  BY <1>9, <1>10

(* The key with the context of a search that was called for. *)
LEMMA SearchedGood ==
    ASSUME RefBounds, gen \in 1..MaxInit, NEW r, Good(r), NEW c, Searched(r, c),
           r.ctx.magic = "zero" \/ (r.ctx.magic = "ok" /\ r.ctx.count # gen)
    PROVE  Good([r EXCEPT !.ctx = c])
<1> DEFINE q == [r EXCEPT !.ctx = c]
<1>1. r \in KeyType /\ c \in CtxType /\ 0 \in Pairs \cup {0, P!Garbage}
  BY DEF Good, Searched
<1>2. q \in KeyType /\ q.kind = r.kind /\ q.bytes = r.bytes /\ q.pub = r.pub /\ q.ctx = c
  BY <1>1, KeyFields
<1> HIDE DEF q
<1>3. RefGood(q)
  BY <1>2 DEF Good, RefGood, Searched, P!Find
<1>4. KemGood(q)
  <2> SUFFICES ASSUME r.kind = "kem"
               PROVE  /\ r.pub # P!Garbage
                      /\ c.magic = "zero" => c.reason \notin {"gen", "create"}
                      /\ c.magic = "ok" /\ c.count # gen => P!Find("priv", r.bytes.p) = {}
                      /\ c.magic = "ok" /\ c.count = gen /\ c.reason \in {"gen", "create"}
                            => c.hPublic.p = r.pub
    BY <1>2 DEF KemGood
  <2>1. CASE r.ctx.magic = "zero"
    BY <2>1 DEF Good, KemGood, Searched
  <2>2. CASE r.ctx.magic = "ok" /\ r.ctx.count # gen
    <3>1. P!Find("priv", r.bytes.p) = {}
      BY <2>2 DEF Good, KemGood
    <3> QED
      BY <3>1 DEF Good, KemGood, Searched
  <2> QED
    BY <2>1, <2>2
<1>5. c.count <= gen
  BY DEF Searched
<1> QED
  BY <1>2, <1>3, <1>4, <1>5 DEF Good, q

(* Its public bytes read from the token, of a key that is not a KEM key. *)
LEMMA ExportGood ==
    ASSUME RefBounds, tokenobjs \subseteq P!Objects \ {P!NoObj}, NEW r, Good(r), P!Ecx(r.kind),
           NEW q \in P!LunaEcxExportPublic(r)
    PROVE  Good(q) /\ q.kind = r.kind /\ q.bytes = r.bytes
<1>1. CASE q = r
  BY <1>1
<1>2. ASSUME NEW o \in tokenobjs, r.ctx.hPublic = o, q = [r EXCEPT !.pub = r.ctx.hPublic.p]
      PROVE  Good(q) /\ q.kind = r.kind /\ q.bytes = r.bytes
  <2>1. o.p \in Pairs \cup {0, P!Garbage}
    BY DEF P!Objects
  <2>2. r \in KeyType /\ r.ctx \in CtxType
    BY KeyParts DEF Good
  <2>3. q \in KeyType /\ q.kind = r.kind /\ q.bytes = r.bytes /\ q.ctx = r.ctx
    BY <1>2, <2>1, <2>2, KeyFields
  <2>4. q.kind # "kem"
    BY <2>3 DEF P!Ecx
  <2> QED
    BY <2>3, <2>4 DEF Good, RefGood, KemGood
<1> QED
  BY <1>1, <1>2 DEF P!LunaEcxExportPublic

LEMMA PreparedGood ==
    ASSUME RefBounds, gen \in 1..MaxInit, tokenobjs \subseteq P!Objects \ {P!NoObj},
           NEW r, Good(r), NEW q \in P!Prepared(r)
    PROVE  Good(q) /\ q.kind = r.kind /\ q.bytes = r.bytes
<1> DEFINE search == \/ r.ctx.magic = "zero"
                     \/ r.ctx.magic = "ok" /\ r.ctx.count # gen
           found == {[r EXCEPT !.ctx = c] : c \in P!LunaPqcFind(r)}
                    \cup {[r EXCEPT !.ctx.magic = "error"]}
<1>1. CASE ~search
  BY <1>1 DEF P!Prepared
<1>2. CASE search
  <2>1. ASSUME NEW f \in found
        PROVE  Good(f) /\ f.kind = r.kind /\ f.bytes = r.bytes
    <3>1. ASSUME NEW c, Searched(r, c), f = [r EXCEPT !.ctx = c]
          PROVE  Good(f) /\ f.kind = r.kind /\ f.bytes = r.bytes
      <4>1. r \in KeyType /\ c \in CtxType /\ 0 \in Pairs \cup {0, P!Garbage}
        BY <3>1 DEF Good, Searched
      <4> QED
        BY <1>2, <3>1, <4>1, KeyFields, SearchedGood
    <3>2. CASE f = [r EXCEPT !.ctx.magic = "error"]
      <4> DEFINE c == [r.ctx EXCEPT !.magic = "error"]
      <4>1. r.ctx \in CtxType /\ r.ctx.count <= gen
        BY KeyParts DEF Good
      <4>2. c \in CtxType /\ c.count = r.ctx.count /\ c.reason = r.ctx.reason
            /\ c.hw = r.ctx.hw /\ c.magic = "error" /\ c.hPrivate = r.ctx.hPrivate
        BY <4>1 DEF CtxType
      <4>3. f = [r EXCEPT !.ctx = c]
        BY <3>2
      <4> HIDE DEF c
      <4>4. Searched(r, c)
        BY <4>1, <4>2 DEF Searched, Good, RefGood
      <4> QED
        BY <3>1, <4>3, <4>4
    <3>3. ASSUME NEW c \in P!LunaPqcFind(r), f = [r EXCEPT !.ctx = c]
          PROVE  Good(f) /\ f.kind = r.kind /\ f.bytes = r.bytes
      BY <3>1, <3>3, FindSearched
    <3> QED
      BY <2>1, <3>2, <3>3
  <2>2. \E f \in found : q = f \/ (P!Ecx(r.kind) /\ q \in P!LunaEcxExportPublic(f))
    BY <1>2 DEF P!Prepared
  <2> HIDE DEF found
  <2>3. PICK f \in found : q = f \/ (P!Ecx(r.kind) /\ q \in P!LunaEcxExportPublic(f))
    BY <2>2
  <2> QED
    BY <2>1, <2>3, ExportGood
<1> QED
  BY <1>1, <1>2

(* A key read anew. *)
LEMMA FixPublicGood ==
    ASSUME RefBounds, gen \in 1..MaxInit, tokenobjs \subseteq P!Objects \ {P!NoObj},
           NEW r, Good(r), P!Ecx(r.kind), NEW q \in P!luna_prov_ecx_fix_public(r)
    PROVE  Good(q)
<1>1. CASE q = r
  BY <1>1
<1>2. ASSUME NEW c \in P!LunaPqcFind(r), c.magic = "ok", NEW e \in P!LunaEcxExportPublic([r EXCEPT !.ctx = c]),
             q = [r EXCEPT !.pub = e.pub]
      PROVE  Good(q)
  <2>1. Searched(r, c)
    BY FindSearched
  <2> DEFINE x == [r EXCEPT !.ctx = c]
  <2>2. r \in KeyType /\ c \in CtxType /\ 0 \in Pairs \cup {0, P!Garbage}
    BY <2>1 DEF Good, Searched
  <2>3. x \in KeyType /\ x.ctx = c /\ x.kind = r.kind
    BY <2>2, KeyFields
  <2> HIDE DEF x
  <2>4. e = x \/ e = [x EXCEPT !.pub = c.hPublic.p]
    BY <1>2, <2>3 DEF P!LunaEcxExportPublic, x
  <2>5. c.hPublic.p \in Pairs \cup {0, P!Garbage}
    BY <2>2 DEF CtxType, P!Objects
  <2>6. e.pub \in Pairs \cup {0, P!Garbage}
    BY <2>3, <2>4, <2>5, KeyParts, KeyFields
  <2>7. q \in KeyType /\ q.kind = r.kind /\ q.bytes = r.bytes /\ q.ctx = r.ctx
    BY <1>2, <2>2, <2>6, KeyFields
  <2>8. q.kind # "kem"
    BY <2>7 DEF P!Ecx
  <2> QED
    BY <2>7, <2>8 DEF Good, RefGood, KemGood
<1> QED
  BY <1>1, <1>2 DEF P!luna_prov_ecx_fix_public

-----------------------------------------------------------------------------
(* A key that was not looked for yet. *)
LEMMA NewGood ==
    ASSUME RefBounds, gen \in 1..MaxInit, NEW r \in KeyType, r.ctx.magic = "zero", r.ctx.hw,
           r.ctx.hPrivate = P!NoObj, r.ctx.count = 0, Reference(r.bytes) => r.bytes.p \in Pairs,
           r.bytes.form = "v1" => ~P!Ecx(r.kind),
           r.kind = "kem" => r.pub # P!Garbage /\ r.ctx.reason \notin {"gen", "create"}
    PROVE  Good(r)
  BY DEF Good, RefGood, KemGood

LEMMA KeyForGood ==
    ASSUME RefBounds, gen \in 1..MaxInit, NEW kd \in {kind, "free"}, NEW b \in BytesType,
           NEW p \in Pairs \cup {0, P!Garbage}, NEW why \in P!Outside,
           Reference(b) => b.p \in Pairs, b.form = "v1" => ~P!Ecx(kd), kd = "kem" => p # P!Garbage
    PROVE  Good(P!Key(kd, b, p)) /\ Good(P!KeyFor(kd, b, p, why)) /\ P!KeyFor(kd, b, p, why).kind = kd
<1> DEFINE r == P!Key(kd, b, p)
           c == [P!NewKeyCtx EXCEPT !.reason = IF P!Ecx(kd) THEN @ ELSE why]
<1>1. P!NewKeyCtx \in CtxType /\ why \in Reasons /\ why \notin {"gen", "create"}
  BY NewCtx DEF Reasons, P!Outside
<1>2. r \in KeyType /\ r.kind = kd /\ r.bytes = b /\ r.pub = p /\ r.ctx = P!NewKeyCtx
  BY <1>1 DEF P!Key, KeyType
<1>3. /\ c \in CtxType /\ c.magic = "zero" /\ c.hw /\ c.hPrivate = P!NoObj /\ c.count = 0
      /\ c.reason \notin {"gen", "create"}
  <2>1. /\ "zero" \in Reasons /\ P!NewKeyCtx.magic = "zero" /\ P!NewKeyCtx.hw
        /\ P!NewKeyCtx.hPrivate = P!NoObj /\ P!NewKeyCtx.count = 0 /\ P!NewKeyCtx.reason = "zero"
    BY NewCtx DEF Reasons
  <2> QED
    BY <1>1, <2>1 DEF CtxType
<1>4. P!KeyFor(kd, b, p, why) = [r EXCEPT !.ctx = c]
  BY <1>2 DEF P!KeyFor
<1> HIDE DEF r, c
<1>5. Good(r)
  BY <1>2, NewCtx, NewGood
<1> DEFINE q == [r EXCEPT !.ctx = c]
<1>6. q \in KeyType /\ q.kind = kd /\ q.bytes = b /\ q.pub = p /\ q.ctx = c
  <2>1. q \in KeyType /\ q.kind = r.kind /\ q.bytes = r.bytes /\ q.pub = r.pub /\ q.ctx = c
    <3>1. r \in KeyType /\ c \in CtxType /\ p \in Pairs \cup {0, P!Garbage}
      BY <1>2, <1>3
    <3> QED
      BY <3>1 DEF KeyType
  <2> HIDE DEF q
  <2> QED
    BY <1>2, <2>1
<1> HIDE DEF q
<1>7. Good(q)
  BY <1>3, <1>6, NewGood
<1> QED
  BY <1>4, <1>5, <1>6, <1>7 DEF q, r

LEMMA FreeGood ==
    ASSUME RefBounds, gen \in 1..MaxInit
    PROVE  Good(P!Free) /\ P!Free.kind = "free"
<1>1. P!NoBytes \in BytesType /\ ~Reference(P!NoBytes) /\ P!NoBytes.form # "v1"
  BY DEF P!NoBytes, BytesType, Reference
<1>2. "set_params" \in P!Outside /\ 0 \in Pairs \cup {0, P!Garbage} /\ "free" \in {kind, "free"}
  BY DEF P!Outside
<1>3. Good(P!Key("free", P!NoBytes, 0))
  BY <1>1, <1>2, KeyForGood
<1> QED
  BY <1>3 DEF P!Free, P!Key

LEMMA RefInit ==
    ASSUME RefBounds
    PROVE  P!Init => RefInv
<1> SUFFICES ASSUME P!Init PROVE RefInv
  OBVIOUS
<1>1. gen \in 1..MaxInit
  BY DEF P!Init, RefBounds
<1>2. \A k \in Keys : key[k] = P!Free
  BY DEF P!Init
<1>3. \A k \in Keys : Good(key[k])
  BY <1>1, <1>2, FreeGood
<1> QED
  BY <1>1, <1>3 DEF P!Init, RefInv

(* One key changes, and nothing else. *)
LEMMA OneKey ==
    ASSUME RefBounds, RefInv, NEW k \in Keys, NEW q, Good(q), key' = [key EXCEPT ![k] = q],
           UNCHANGED <<gen, tokenobjs, kind>>
    PROVE  RefInv'
<1>1. DOMAIN key' = Keys /\ \A j \in Keys : key'[j] = IF j = k THEN q ELSE key[j]
  BY DEF RefInv
<1>2. \A j \in Keys : Good(key'[j])
  BY <1>1 DEF RefInv
<1>3. \A j \in Keys : Good(key[j])'
  <2> SUFFICES ASSUME NEW j \in Keys PROVE Good(key[j])'
    OBVIOUS
  <2>1. Good(key'[j])
    BY <1>2
  <2> QED
    BY <2>1 DEF Good, RefGood, KemGood, KeyType, P!Find
<1> QED
  BY <1>1, <1>3 DEF RefInv

(* The objects change; no key is brought a private half it lost. *)
LEMMA OtherKey ==
    ASSUME RefInv, NEW j \in Keys, key'[j] = key[j], UNCHANGED <<gen, kind>>,
           \A o \in tokenobjs' : o.half = "priv" /\ o.p = key[j].bytes.p => o \in tokenobjs
    PROVE  Good(key[j])'
<1>1. Good(key[j])
  BY DEF RefInv
<1>2. P!Find("priv", key[j].bytes.p)' \subseteq P!Find("priv", key[j].bytes.p)
  BY DEF P!Find
<1>3. KemGood(key[j])'
  BY <1>1, <1>2 DEF Good, KemGood
<1> QED
  BY <1>1, <1>3 DEF Good, RefGood, KeyType

LEMMA GoneKeeps ==
    ASSUME RefBounds, RefInv, NEW o \in tokenobjs, P!Gone(o), UNCHANGED kind
    PROVE  RefInv'
<1>1. tokenobjs' \subseteq tokenobjs /\ UNCHANGED <<gen, key>>
  BY DEF P!Gone
<1>2. \A j \in Keys : Good(key[j])'
  BY <1>1, OtherKey
<1> QED
  BY <1>1, <1>2 DEF RefInv

LEMMA ReinitKeeps ==
    ASSUME RefBounds, RefInv, P!Reinit, UNCHANGED kind
    PROVE  RefInv'
<1>1. /\ gen' = gen + 1 /\ gen' \in 1..MaxInit /\ key' = key
      /\ tokenobjs' = {o \in tokenobjs : o.token} /\ gen \in Nat
  BY DEF P!Reinit, RefInv, RefBounds
<1>2. ASSUME NEW j \in Keys
      PROVE  Good(key[j])'
  <2>1. Good(key[j]) /\ key'[j] = key[j]
    BY <1>1 DEF RefInv
  <2>2. key[j].ctx.count \in Nat
    BY <2>1, KeyParts DEF Good, CtxType, RefBounds
  <2>3. key[j].kind = "kem" => kind = "kem"
    BY <2>1, KeyParts DEF Good
  <2>4. kind = "kem" => tokenobjs' = {}
    BY <1>1 DEF RefInv
  <2>5. key[j].kind = "kem" => P!Find("priv", key[j].bytes.p)' = {}
    BY <2>3, <2>4 DEF P!Find
  <2>6. KemGood(key[j])'
    BY <1>1, <2>1, <2>2, <2>5 DEF Good, KemGood
  <2> QED
    BY <1>1, <2>1, <2>2, <2>6 DEF Good, RefGood, KeyType
<1> QED
  BY <1>1, <1>2 DEF RefInv

(* A key pair is generated: its label is in no key, so no key finds it. *)
LEMMA GenerateKeeps ==
    ASSUME RefBounds, RefInv, NEW k \in Keys, P!Generate(k), UNCHANGED kind
    PROVE  RefInv'
<1>1. PICK p \in P!New : \E token \in P!TokenObject(kind), whole \in BOOLEAN :
        LET priv == P!Object("priv", p, token)
            pub == P!Object("pub", p, token)
            c == [magic |-> "ok", hw |-> TRUE, hPrivate |-> priv, hPublic |-> pub,
                  count |-> gen, reason |-> "gen"]
        IN  /\ tokenobjs' = tokenobjs \cup {priv, pub}
            /\ IF ~whole THEN UNCHANGED key
               ELSE key' = [key EXCEPT ![k] =
                       [P!Key(kind, P!EncodeTemplate(kind, p), p) EXCEPT !.ctx = c]]
  BY DEF P!Generate
<1>2. PICK token \in P!TokenObject(kind) : \E whole \in BOOLEAN :
        LET priv == P!Object("priv", p, token)
            pub == P!Object("pub", p, token)
            c == [magic |-> "ok", hw |-> TRUE, hPrivate |-> priv, hPublic |-> pub,
                  count |-> gen, reason |-> "gen"]
        IN  /\ tokenobjs' = tokenobjs \cup {priv, pub}
            /\ IF ~whole THEN UNCHANGED key
               ELSE key' = [key EXCEPT ![k] =
                       [P!Key(kind, P!EncodeTemplate(kind, p), p) EXCEPT !.ctx = c]]
  BY <1>1
<1> DEFINE priv == P!Object("priv", p, token)
           pub == P!Object("pub", p, token)
           c == [magic |-> "ok", hw |-> TRUE, hPrivate |-> priv, hPublic |-> pub,
                 count |-> gen, reason |-> "gen"]
           b == P!EncodeTemplate(kind, p)
           q == [P!Key(kind, b, p) EXCEPT !.ctx = c]
<1>3. tokenobjs' = tokenobjs \cup {priv, pub} /\ (key' = key \/ key' = [key EXCEPT ![k] = q])
  BY <1>2
<1>4. gen' = gen /\ gen \in 1..MaxInit /\ gen \in 0..MaxInit /\ kind \in P!Kinds
  BY DEF P!Generate, RefInv, RefBounds
<1>5. p \in Pairs /\ \A j \in Keys : key[j].bytes.p # p
  BY DEF P!New
<1>6. token \in BOOLEAN /\ (kind = "kem" => ~token)
  BY DEF P!TokenObject, P!IsKem
<1>7. /\ priv \in P!Objects \ {P!NoObj} /\ priv.half = "priv" /\ priv.p = p /\ priv.token = token
      /\ pub \in P!Objects \ {P!NoObj} /\ pub.half = "pub" /\ pub.p = p /\ pub.token = token
  BY <1>5, <1>6 DEF P!Object, P!Objects, P!NoObj
<1> HIDE DEF priv, pub
<1>8. c \in CtxType /\ c.magic = "ok" /\ c.hw /\ c.hPrivate = priv /\ c.hPublic = pub
      /\ c.count = gen
  BY <1>4, <1>7 DEF CtxType, Reasons
<1>9. /\ b \in BytesType /\ Reference(b) /\ b.p = p /\ (b.form = "v1" => ~P!Ecx(kind))
  BY <1>5 DEF P!EncodeTemplate, P!EncodeTemplateV1, P!EncodeTemplateV2, BytesType, Reference
<1> HIDE DEF b, c
<1>10. q \in KeyType /\ q.kind = kind /\ q.bytes = b /\ q.pub = p /\ q.ctx = c
  <2> DEFINE r == P!Key(kind, b, p)
  <2>1. P!NewKeyCtx \in CtxType
    BY NewCtx
  <2>2. r \in KeyType /\ r.kind = kind /\ r.bytes = b /\ r.pub = p
    BY <1>5, <1>9, <2>1 DEF P!Key, KeyType
  <2>3. p \in Pairs \cup {0, P!Garbage}
    BY <1>5
  <2> HIDE DEF r
  <2>4. [r EXCEPT !.ctx = c] \in KeyType /\ [r EXCEPT !.ctx = c].kind = r.kind
        /\ [r EXCEPT !.ctx = c].bytes = r.bytes /\ [r EXCEPT !.ctx = c].pub = r.pub
        /\ [r EXCEPT !.ctx = c].ctx = c
    BY <1>8, <2>2, <2>3, KeyFields, Zenon
  <2>5. q = [r EXCEPT !.ctx = c]
    BY DEF r
  <2> HIDE DEF q
  <2> QED
    BY <2>2, <2>4, <2>5
<1> HIDE DEF q
<1>11. Good(q)
  <2>1. RefGood(q)
    BY <1>5, <1>7, <1>8, <1>9, <1>10 DEF RefGood
  <2>2. p # P!Garbage
    BY <1>5 DEF RefBounds
  <2>3. KemGood(q)
    BY <1>7, <1>8, <1>10, <2>2 DEF KemGood
  <2> QED
    BY <1>4, <1>8, <1>10, <2>1, <2>3 DEF Good
<1>12. ASSUME NEW j \in Keys, key'[j] = key[j]
       PROVE  Good(key[j])'
  <2>1. \A o \in tokenobjs' : o.half = "priv" /\ o.p = key[j].bytes.p => o \in tokenobjs
    BY <1>3, <1>5, <1>7
  <2> QED
    BY <1>4, <1>12, <2>1, OtherKey
<1>13. ASSUME key' = [key EXCEPT ![k] = q]
       PROVE  Good(key[k])'
  <2>1. key'[k] = q
    BY <1>13 DEF RefInv
  <2>2. KemGood(key[k])'
    BY <1>4, <1>8, <1>10, <1>11, <2>1 DEF Good, KemGood
  <2> QED
    BY <1>4, <1>11, <2>1, <2>2 DEF Good, RefGood, KeyType
<1>14. \A j \in Keys : Good(key[j])'
  <2> SUFFICES ASSUME NEW j \in Keys PROVE Good(key[j])'
    OBVIOUS
  <2>1. CASE key'[j] = key[j]
    BY <1>12, <2>1
  <2>2. CASE key'[j] # key[j]
    <3>1. key' = [key EXCEPT ![k] = q] /\ j = k
      BY <1>3, <2>2 DEF RefInv
    <3> QED
      BY <1>13, <3>1
  <2> QED
    BY <2>1, <2>2
<1>15. DOMAIN key' = Keys /\ tokenobjs' \subseteq P!Objects \ {P!NoObj}
  BY <1>3, <1>7 DEF RefInv
<1>16. kind = "kem" => \A o \in tokenobjs' : ~o.token
  BY <1>3, <1>6, <1>7 DEF RefInv
<1> QED
  BY <1>4, <1>14, <1>15, <1>16 DEF RefInv

(* An encapsulation imports the bytes of the peer, beside the pair of the key. *)
LEMMA EncapKeeps ==
    ASSUME RefBounds, RefInv, NEW k \in Keys, NEW firmware \in BOOLEAN,
           P!LunaPqcKemEncap(k, firmware), UNCHANGED kind
    PROVE  RefInv'
<1>1. PICK r \in P!Prepared(key[k]) :
          /\ r.ctx.magic = "ok" /\ r.ctx.hPublic # P!NoObj
          /\ r.ctx.reason \in P!Outside \cup {"create", "gen"}
          /\ LET o == P!Object("created", r.pub, FALSE)
             IN  IF firmware /\ r.ctx.reason \in P!Outside
                 THEN /\ tokenobjs' = tokenobjs \cup {o}
                      /\ key' = [key EXCEPT ![k] = [r EXCEPT !.ctx.hPublic = o,
                                                             !.ctx.reason = "create"]]
                 ELSE UNCHANGED tokenobjs /\ key' = [key EXCEPT ![k] = r]
  BY DEF P!LunaPqcKemEncap
<1>2. gen' = gen /\ key[k].kind = "kem" /\ Good(key[k])
  BY DEF P!LunaPqcKemEncap, RefInv
<1>3. Good(r) /\ r.kind = "kem"
  BY <1>2, PreparedGood DEF RefInv
<1>4. CASE UNCHANGED tokenobjs /\ key' = [key EXCEPT ![k] = r]
  BY <1>2, <1>3, <1>4, OneKey
<1>5. CASE ~(UNCHANGED tokenobjs /\ key' = [key EXCEPT ![k] = r])
  <2> DEFINE o == P!Object("created", r.pub, FALSE)
             c == [r.ctx EXCEPT !.hPublic = o, !.reason = "create"]
             q == [r EXCEPT !.ctx = c]
  <2>1. tokenobjs' = tokenobjs \cup {o} /\ key' = [key EXCEPT ![k] = q]
    BY <1>1, <1>5
  <2>2. r.pub \in Pairs \cup {0} /\ r.ctx \in CtxType
    BY <1>3, KeyParts DEF Good, KemGood
  <2>3. o \in P!Objects \ {P!NoObj} /\ o.half = "created" /\ ~o.token /\ o.p = r.pub
    BY <2>2 DEF P!Object, P!Objects, P!NoObj
  <2> HIDE DEF o
  <2>4. /\ c \in CtxType /\ c.magic = "ok" /\ c.hw = r.ctx.hw /\ c.hPrivate = r.ctx.hPrivate
        /\ c.count = r.ctx.count /\ c.hPublic = o
    <3>1. "create" \in Reasons
      BY DEF Reasons
    <3> QED
      BY <1>1, <2>2, <2>3, <3>1 DEF CtxType
  <2> HIDE DEF c
  <2>5. q \in KeyType /\ q.kind = r.kind /\ q.bytes = r.bytes /\ q.pub = r.pub /\ q.ctx = c
    <3>1. r \in KeyType /\ 0 \in Pairs \cup {0, P!Garbage}
      BY <1>3 DEF Good
    <3> QED
      BY <2>4, <3>1, KeyFields
  <2> HIDE DEF q
  <2>6. Good(q)
    BY <1>1, <1>3, <2>3, <2>4, <2>5 DEF Good, RefGood, KemGood
  <2>7. ASSUME NEW j \in Keys, j # k
        PROVE  Good(key[j])'
    <3>1. key'[j] = key[j]
      BY <2>1, <2>7 DEF RefInv
    <3>2. \A x \in tokenobjs' : x.half = "priv" /\ x.p = key[j].bytes.p => x \in tokenobjs
      BY <2>1, <2>3
    <3> QED
      BY <1>2, <3>1, <3>2, OtherKey
  <2>8. Good(key[k])'
    <3>1. key'[k] = q
      BY <2>1 DEF RefInv
    <3>2. P!Find("priv", q.bytes.p)' \subseteq P!Find("priv", q.bytes.p)
      BY <2>1, <2>3 DEF P!Find
    <3>3. KemGood(key[k])'
      BY <1>2, <2>6, <3>1, <3>2 DEF Good, KemGood, P!Find
    <3> QED
      BY <1>2, <2>6, <3>1, <3>3 DEF Good, RefGood, KeyType
  <2>9. DOMAIN key' = Keys /\ tokenobjs' \subseteq P!Objects \ {P!NoObj} /\ \A x \in tokenobjs' : kind = "kem" => ~x.token
    BY <2>1, <2>3 DEF RefInv
  <2> QED
    BY <1>2, <2>7, <2>8, <2>9 DEF RefInv
<1> QED
  BY <1>4, <1>5

LEMMA RefNext ==
    ASSUME RefBounds, RefInv, [P!Next]_(P!vars)
    PROVE  RefInv'
<1>0. /\ gen \in 1..MaxInit /\ tokenobjs \subseteq P!Objects \ {P!NoObj} /\ kind \in P!Kinds
      /\ \A k \in Keys : Good(key[k])
  BY DEF RefInv
<1>1. ASSUME NEW k \in Keys, P!GenerateSoftware(k), UNCHANGED kind
      PROVE  RefInv'
  <2>1. PICK p \in P!New : key' = [key EXCEPT ![k] = P!Key(kind, [form |-> "key", p |-> p], p)]
    BY <1>1 DEF P!GenerateSoftware
  <2> DEFINE b == [form |-> "key", p |-> p]
  <2>2. p \in Pairs /\ p \in Pairs \cup {0, P!Garbage} /\ p # P!Garbage
    BY DEF P!New, RefBounds
  <2>3. b \in BytesType /\ ~Reference(b) /\ b.form # "v1"
    BY <2>2 DEF BytesType, Reference
  <2>4. key' = [key EXCEPT ![k] = P!Key(kind, b, p)]
    BY <2>1
  <2> HIDE DEF b
  <2>5. "set_params" \in P!Outside
    BY DEF P!Outside
  <2>6. Good(P!Key(kind, b, p))
    BY <1>0, <2>2, <2>3, <2>5, KeyForGood
  <2>7. UNCHANGED <<gen, tokenobjs, kind>>
    BY <1>1 DEF P!GenerateSoftware
  <2> QED
    BY <2>4, <2>6, <2>7, OneKey
<1>2. ASSUME NEW k \in Keys, NEW j \in Keys, P!Decode(k, j) \/ P!Import(k, j), UNCHANGED kind
      PROVE  RefInv'
  <2>1. /\ key[j] \in KeyType /\ RefGood(key[j]) /\ key[j].kind \in {kind, "free"}
        /\ key[j].bytes \in BytesType /\ key[j].pub \in Pairs \cup {0, P!Garbage}
        /\ key[j].kind = "kem" => key[j].pub # P!Garbage
    BY <1>0, KeyParts DEF Good, KemGood
  <2>2. UNCHANGED <<gen, tokenobjs, kind>>
    BY <1>2 DEF P!Decode, P!Import
  <2>3. /\ Reference(key[j].bytes) => key[j].bytes.p \in Pairs
        /\ key[j].bytes.form = "v1" => ~P!Ecx(key[j].kind)
    BY <2>1 DEF RefGood
  <2>4. "from_encoding" \in P!Outside /\ "from_data" \in P!Outside
    BY DEF P!Outside
  <2>5. ASSUME NEW p \in Pairs \cup {0, P!Garbage}, key[j].kind = "kem" => p # P!Garbage,
               NEW why \in P!Outside
        PROVE  /\ Good(P!KeyFor(key[j].kind, key[j].bytes, p, why))
               /\ P!KeyFor(key[j].kind, key[j].bytes, p, why).kind = key[j].kind
    BY <1>0, <2>1, <2>3, <2>5, KeyForGood
  <2>6. CASE P!Import(k, j)
    <3>1. key' = [key EXCEPT ![k] = P!KeyFor(key[j].kind, key[j].bytes, key[j].pub, "from_data")]
      BY <2>6 DEF P!Import
    <3> QED
      BY <2>1, <2>2, <2>4, <2>5, <3>1, OneKey
  <2>7. CASE key' = [key EXCEPT ![k] = P!KeyFor(key[j].kind, P!NoBytes, key[j].pub, "from_encoding")]
    <3>1. P!NoBytes \in BytesType /\ ~Reference(P!NoBytes) /\ P!NoBytes.form # "v1"
      BY DEF P!NoBytes, BytesType, Reference
    <3>2. Good(P!KeyFor(key[j].kind, P!NoBytes, key[j].pub, "from_encoding"))
      BY <1>0, <2>1, <2>4, <3>1, KeyForGood
    <3> QED
      BY <2>2, <2>7, <3>2, OneKey
  <2>8. CASE P!Decode(k, j)
             /\ key' # [key EXCEPT ![k] = P!KeyFor(key[j].kind, P!NoBytes, key[j].pub, "from_encoding")]
    <3> DEFINE unread == P!Ecx(key[j].kind) /\ key[j].bytes.form = "v2"
               p == IF unread THEN P!Garbage ELSE key[j].pub
               r == P!KeyFor(key[j].kind, key[j].bytes, p, "from_encoding")
    <3>1. \E f \in IF unread THEN P!luna_prov_ecx_fix_public(r) ELSE {r} : key' = [key EXCEPT ![k] = f]
      BY <2>8 DEF P!Decode
    <3>2. p \in Pairs \cup {0, P!Garbage} /\ (key[j].kind = "kem" => p # P!Garbage)
      BY <2>1 DEF P!Ecx
    <3> HIDE DEF p
    <3>3. Good(r) /\ (unread => P!Ecx(r.kind))
      BY <2>4, <2>5, <3>2
    <3> HIDE DEF r
    <3>4. PICK f \in IF unread THEN P!luna_prov_ecx_fix_public(r) ELSE {r} : key' = [key EXCEPT ![k] = f]
      BY <3>1
    <3>5. Good(f)
      <4>1. CASE unread
        BY <1>0, <3>3, <3>4, <4>1, FixPublicGood
      <4>2. CASE ~unread
        BY <3>3, <3>4, <4>2
      <4> QED
        BY <4>1, <4>2
    <3> QED
      BY <2>2, <3>4, <3>5, OneKey
  <2> QED
    BY <1>2, <2>6, <2>7, <2>8
<1>3. ASSUME NEW k \in Keys, NEW p \in Pairs, P!SetParams(k, p), UNCHANGED kind
      PROVE  RefInv'
  <2> DEFINE c == [key[k].ctx EXCEPT !.reason = "set_params"]
             x == [key[k] EXCEPT !.pub = p]
             q == [x EXCEPT !.ctx = c]
  <2>1. Good(key[k]) /\ key[k] \in KeyType /\ key[k].ctx \in CtxType /\ key[k].kind = "kem"
    BY <1>0, <1>3, KeyParts DEF Good, P!SetParams
  <2>2. /\ c \in CtxType /\ c.reason = "set_params" /\ c.magic = key[k].ctx.magic
        /\ c.hw = key[k].ctx.hw /\ c.hPrivate = key[k].ctx.hPrivate /\ c.count = key[k].ctx.count
    <3>1. "set_params" \in Reasons
      BY DEF Reasons, P!Outside
    <3> QED
      BY <2>1, <3>1 DEF CtxType
  <2>3. key' = [key EXCEPT ![k] = q] /\ UNCHANGED <<gen, tokenobjs, kind>>
    BY <1>3 DEF P!SetParams
  <2> HIDE DEF c
  <2>4. p \in Pairs \cup {0, P!Garbage} /\ p # P!Garbage
    BY DEF RefBounds
  <2>5. x \in KeyType /\ x.kind = key[k].kind /\ x.bytes = key[k].bytes /\ x.pub = p
    BY <2>1, <2>2, <2>4, KeyFields
  <2> HIDE DEF x
  <2>6. q \in KeyType /\ q.kind = x.kind /\ q.bytes = x.bytes /\ q.pub = x.pub /\ q.ctx = c
    BY <2>2, <2>4, <2>5, KeyFields
  <2> HIDE DEF q
  <2>7. Good(q)
    BY <2>1, <2>2, <2>4, <2>5, <2>6 DEF Good, RefGood, KemGood
  <2> QED
    BY <2>3, <2>7, OneKey
<1>4. ASSUME NEW k \in Keys, P!Operate(k), UNCHANGED kind
      PROVE  RefInv'
  <2>1. PICK r \in P!Prepared(key[k]) : key' = [key EXCEPT ![k] = r]
    BY <1>4 DEF P!Operate
  <2>2. UNCHANGED <<gen, tokenobjs, kind>>
    BY <1>4 DEF P!Operate
  <2>3. Good(r)
    BY <1>0, PreparedGood
  <2> QED
    BY <2>1, <2>2, <2>3, OneKey
<1>5. ASSUME NEW k \in Keys, P!NewContext(k), UNCHANGED kind
      PROVE  RefInv'
  <2> DEFINE q == [key[k] EXCEPT !.ctx = P!NewKeyCtx]
  <2>1. Good(key[k]) /\ key[k] \in KeyType /\ P!Ecx(key[k].kind)
    BY <1>0, <1>5 DEF Good, P!NewContext
  <2>2. P!NewKeyCtx \in CtxType /\ 0 \in Pairs \cup {0, P!Garbage}
    BY NewCtx
  <2>3. q \in KeyType /\ q.kind = key[k].kind /\ q.bytes = key[k].bytes /\ q.ctx = P!NewKeyCtx
    BY <2>1, <2>2, KeyFields
  <2>4. key' = [key EXCEPT ![k] = q] /\ UNCHANGED <<gen, tokenobjs, kind>>
    BY <1>5 DEF P!NewContext
  <2> HIDE DEF q
  <2>5. q.kind # "kem" /\ (Reference(q.bytes) => q.bytes.p \in Pairs)
        /\ (q.bytes.form = "v1" => ~P!Ecx(q.kind))
    BY <2>1, <2>3 DEF Good, RefGood, P!Ecx
  <2>6. Good(q)
    BY <1>0, <2>3, <2>5, NewCtx, NewGood
  <2> QED
    BY <2>4, <2>6, OneKey
<1>6. ASSUME NEW k \in Keys, P!Release(k), UNCHANGED kind
      PROVE  RefInv'
  <2>1. key' = [key EXCEPT ![k] = P!Free] /\ UNCHANGED <<gen, tokenobjs, kind>>
    BY <1>6 DEF P!Release
  <2> QED
    BY <1>0, <2>1, FreeGood, OneKey
<1>7. CASE UNCHANGED P!vars
  BY <1>7 DEF P!vars, RefInv, Good, RefGood, KemGood, KeyType, P!Find
<1>8. ASSUME NEW o \in tokenobjs, P!Gone(o), UNCHANGED kind
      PROVE  RefInv'
  BY <1>8, GoneKeeps
<1>9. ASSUME NEW k \in Keys, P!Generate(k), UNCHANGED kind
      PROVE  RefInv'
  BY <1>9, GenerateKeeps
<1>10. ASSUME NEW k \in Keys, NEW firmware \in BOOLEAN, P!LunaPqcKemEncap(k, firmware), UNCHANGED kind
       PROVE  RefInv'
  BY <1>10, EncapKeeps
<1> QED
  BY <1>1, <1>2, <1>3, <1>4, <1>5, <1>6, <1>7, <1>8, <1>9, <1>10, ReinitKeeps DEF P!Next

(* A reference finds its pair, and only its own private half is used with it. *)
LEMMA RefHolds ==
    ASSUME RefBounds, RefInv
    PROVE  P!ReferencesHold /\ P!EncapsulatesToBytes /\ P!TypeOK
<1>1. P!ReferencesHold
  <2> SUFFICES ASSUME NEW k \in Keys
               PROVE  LET r == key[k] IN
                      /\ Reference(r.bytes) =>
                            /\ r.ctx.hw
                            /\ {P!Object("priv", r.bytes.p, t) : t \in BOOLEAN} \cap tokenobjs # {}
                                  /\ {P!Object("pub", r.bytes.p, t) : t \in BOOLEAN} \cap tokenobjs # {}
                               => \E c \in P!LunaPqcFind(r) : c.magic = "ok"
                      /\ r.ctx.hPrivate # P!NoObj =>
                            /\ Reference(r.bytes)
                            /\ r.ctx.hPrivate.half = "priv" /\ r.ctx.hPrivate.p = r.bytes.p
    BY DEF P!ReferencesHold, Reference
  <2> DEFINE r == key[k]
  <2>1. Good(r)
    BY DEF RefInv
  <2>2. ASSUME Reference(r.bytes), {P!Object("priv", r.bytes.p, t) : t \in BOOLEAN} \cap tokenobjs # {},
               {P!Object("pub", r.bytes.p, t) : t \in BOOLEAN} \cap tokenobjs # {}
        PROVE  \E c \in P!LunaPqcFind(r) : c.magic = "ok"
    <3>1. PICK a \in tokenobjs : a \in P!Find("priv", r.bytes.p)
      BY <2>2 DEF P!Find, P!Object
    <3>2. PICK b \in tokenobjs : b \in P!Find("pub", r.bytes.p)
      BY <2>2 DEF P!Find, P!Object
    <3>3. /\ P!DecodeTemplate(r.kind, r.bytes) # P!Undecodable
          /\ P!DecodeTemplate(r.kind, r.bytes).private = r.bytes.p
          /\ P!DecodeTemplate(r.kind, r.bytes).public = r.bytes.p
          /\ r.bytes.form # "null"
      BY <2>1, <2>2, LabelsOf DEF Good, Reference
    <3> DEFINE m == [r.ctx EXCEPT !.hw = TRUE, !.magic = "error"]
               c == [m EXCEPT !.magic = "ok", !.hPrivate = <<a, b>>[1], !.hPublic = <<a, b>>[2], !.count = gen]
    <3>4. <<a, b>> \in P!Find("priv", r.bytes.p) \X P!Find("pub", r.bytes.p)
      BY <3>1, <3>2
    <3>5. c \in P!LunaPqcFind(r)
      <4>1. \A pair \in P!Find("priv", r.bytes.p) \X P!Find("pub", r.bytes.p) :
              [m EXCEPT !.magic = "ok", !.hPrivate = pair[1], !.hPublic = pair[2], !.count = gen]
                \in P!LunaPqcFind(r)
        BY <3>3 DEF P!LunaPqcFind
      <4> HIDE DEF r, m
      <4> QED
        BY <3>4, <4>1, Zenon
    <3>6. c.magic = "ok"
      <4>1. r.ctx \in CtxType
        BY <2>1, KeyParts DEF Good
      <4> QED
        BY <4>1 DEF CtxType
    <3> QED
      BY <3>5, <3>6
  <2> QED
    BY <2>1, <2>2 DEF Good, RefGood
<1>2. P!EncapsulatesToBytes
  BY DEF RefInv, Good, KemGood, P!EncapsulatesToBytes
<1>3. P!TypeOK
  <2> SUFFICES ASSUME NEW k \in Keys
               PROVE  LET r == key[k] c == r.ctx
                      IN  /\ r.kind \in {kind, "free"} /\ r.pub \in Pairs \cup {0, P!Garbage}
                          /\ r.bytes \in [form : {"null", "key", "v1", "v2"}, p : Pairs \cup {0}]
                          /\ c.magic \in {"zero", "ok", "error"} /\ c.hw \in BOOLEAN
                          /\ {c.hPrivate, c.hPublic} \subseteq P!Objects /\ c.count \in 0..MaxInit
                          /\ c.reason \in P!Outside \cup {"zero", "gen", "create"}
    BY DEF P!TypeOK, RefInv
  <2>1. key[k] \in KeyType
    BY DEF RefInv, Good
  <2> QED
    BY <2>1 DEF KeyType, CtxType, BytesType, Reasons
<1> QED
  BY <1>1, <1>2, <1>3

(* The theorems about a key wherever it travels, and about the types of all parts. *)
LEMMA RefBoundsHold == RefBounds
  BY KeyPathsAssumption, KeyUseAssumption DEF RefBounds, P!Garbage

LEMMA RefPart ==
    /\ PathInit => (part = "reference" => RefInv)
    /\ (part = "reference" => RefInv) /\ [PathNext]_all => (part = "reference" => RefInv)'
<1>1. PathInit => (part = "reference" => RefInv)
  BY RefBoundsHold, RefInit DEF PathInit
<1>2. ASSUME part = "reference" => RefInv, [PathNext]_all, part' = "reference"
      PROVE  RefInv'
  <2>1. part = "reference" /\ [P!Next]_(P!vars)
    BY <1>2 DEF PathNext, all, reference, P!vars
  <2> QED
    BY <1>2, <2>1, RefBoundsHold, RefNext
<1> QED
  BY <1>1, <1>2

(* However a key is copied, encoded, read again and searched for, its bytes lead to its own
   pair, and an encapsulation is for the public bytes the key holds. *)
THEOREM ReferencesAlwaysHold == PathSpec => []ReferencesHold
<1>1. (part = "reference" => RefInv) => ReferencesHold
  BY RefBoundsHold, RefHolds DEF ReferencesHold
<1> QED
  BY <1>1, RefPart, PTL DEF PathSpec

(* A step of the paths is a step of the shared key context, or leaves it alone. *)
LEMMA UseStep == [PathNext]_all => [Next]_vars
  BY DEF PathNext, all, vars

(* No count, offset, handle or label leaves its range, in any part. *)
THEOREM TypesAreKept == PathSpec => []TypesOK
<1> DEFINE RngPart == part = "random" => RngInv /\ RngTypes
           SecretPart == part = "secret" => SP!TypeOK
<1>1. PathInit => IInv
  BY InitIInv DEF PathInit
<1>2. IInv /\ [PathNext]_all => IInv'
  BY UseStep, NextIInv
<1>3. PathInit => RngPart
  BY SizesHold, RngInit, RngTypesInit DEF PathInit
<1>4. RngPart /\ [PathNext]_all => RngPart'
  <2> SUFFICES ASSUME RngPart, [PathNext]_all, part' = "random" PROVE RngInv' /\ RngTypes'
    OBVIOUS
  <2>1. part = "random" /\ [N!Next]_(N!vars)
    BY DEF PathNext, all, random, N!vars
  <2> QED
    BY <2>1, SizesHold, RngNext, RngTypesStep
<1>5. PathInit => SecretPart
  BY SecretBounds, SameSecret, SP!TypeInit DEF PathInit
<1>6. SecretPart /\ [PathNext]_all => SecretPart'
  <2> SUFFICES ASSUME SecretPart, [PathNext]_all, part' = "secret" PROVE SP!TypeOK'
    OBVIOUS
  <2>1. part = "secret" /\ [S!Next]_(S!vars)
    BY DEF PathNext, all, secret, S!vars, S!wvars
  <2>2. SP!TypeOK /\ [SP!Next]_(SP!vars) /\ MaxInit \in Nat
    BY <2>1, SameSecret, SecretBounds
  <2> QED
    BY <2>2, SecretBounds, SP!TypeStep
<1>7. RngPart => (part = "random" => N!TypeOK)
  BY DEF N!TypeOK, RngInv, RngTypes, RngExact
<1>8. SecretPart => (part = "secret" => S!TypeOK)
  BY SameSecret
<1>9. (part = "reference" => RefInv) => (part = "reference" => P!TypeOK)
  BY RefBoundsHold, RefHolds
<1>10. IInv => TypeOK
  BY DEF IInv
<1> DEFINE J == IInv /\ RngPart /\ SecretPart /\ (part = "reference" => RefInv)
<1>11. J => TypesOK
  BY <1>7, <1>8, <1>9, <1>10 DEF TypesOK
<1> HIDE DEF RngPart, SecretPart
<1> QED
  BY <1>1, <1>2, <1>3, <1>4, <1>5, <1>6, <1>11, RefPart, PTL DEF PathSpec
=============================================================================
