-------------------------------- MODULE PqcRng --------------------------------
(* The random numbers of liboqs drawn from the token (lunaCommon.c, luna_pqc_rng): small
   requests are served from a cache, filled by one call of the token, under a mutex;
   larger ones, and all once the token has failed, from liboqs.

   The cache, its mutex and the flag of a failure are static data: a child process gets
   copies of them, in whatever state they are. *)
EXTENDS Integers, FiniteSets

CONSTANTS
    Threads,    \* of all processes, model values
    Child,      \* those of a child process that the others fork
    CACHE,      \* LUNA_PQC_RNG_CACHE, and
    SMALL,      \*   LUNA_PQC_RNG_SMALL, in units of a byte
    MaxFills    \* bound on the calls of the token that succeed
VARIABLES
    rng,        \* the static data of each process, 1 and its child 2
    given,      \* the bytes of the token each process, or its parent before, was given
    count,      \* and how many they were
    shared,     \* the bytes both may have: given before the fork, or unread in the cache then
    fills,      \* calls of the token so far
    pc,         \* where each thread is
    outlen      \* the length it asks for
vars == <<rng, given, count, shared, fills, pc, outlen>>

Process(t) == IF t \in Child THEN 2 ELSE 1
NoThread == "none"

(* The bytes of a fill are told by its number, 0 for bytes of no complete fill. *)
Static == [error |-> FALSE, mu |-> NoThread, dirty |-> TRUE, offset |-> 0, bytes |-> 0]
Bytes(fill, from, n) == {<<fill, i>> : i \in (from + 1)..(from + n)}

Init == /\ rng = [p \in 1..2 |-> Static]
        /\ given = [p \in 1..2 |-> {}] /\ count = [p \in 1..2 |-> 0]
        /\ shared = {} /\ fills = 0
        /\ pc = [t \in Threads |-> IF t \in Child THEN "unborn" ELSE "idle"]
        /\ outlen = [t \in Threads |-> 0]

Goto(t, p) == pc' = [pc EXCEPT ![t] = p]
Answer(t, fill, from, n) ==
    /\ given' = [given EXCEPT ![Process(t)] = @ \cup Bytes(fill, from, n)]
    /\ count' = [count EXCEPT ![Process(t)] = @ + n]
------------------------------------------------------------------------------
luna_pqc_rng(t, n) ==
    /\ pc[t] = "idle"
    /\ outlen' = [outlen EXCEPT ![t] = n]
    /\ Goto(t, IF rng[Process(t)].error THEN "liboqs" ELSE "hw")
    /\ UNCHANGED <<rng, given, count, fills>>

(* luna_pqc_rng_hw: the cache is for small requests. *)
luna_pqc_rng_hw(t) ==
    /\ pc[t] = "hw"
    /\ Goto(t, IF outlen[t] <= SMALL THEN "enter" ELSE "liboqs")
    /\ UNCHANGED <<rng, given, count, fills, outlen>>

Fits(t) == ~rng[Process(t)].dirty /\ rng[Process(t)].offset + outlen[t] <= CACHE

(* Mutant: the offset is left where it was. *)
Copied_SamePlace(r, n) == r

Copied(r, n) == [r EXCEPT !.offset = @ + n]

(* luna_pqc_rng_hw_cache: the mutex is entered; what the cache holds is copied, or it is
   marked dirty and filled. *)
luna_pqc_rng_hw_cache(t) ==
    LET p == Process(t) IN
    /\ pc[t] = "enter" /\ rng[p].mu = NoThread
    /\ IF Fits(t)
       THEN /\ rng' = [rng EXCEPT ![p] = Copied(@, outlen[t])]
            /\ Answer(t, rng[p].bytes, rng[p].offset, outlen[t])
            /\ Goto(t, "idle")
       ELSE /\ rng' = [rng EXCEPT ![p].dirty = TRUE, ![p].mu = t]
            /\ Goto(t, "fill") /\ UNCHANGED <<given, count>>
    /\ UNCHANGED <<fills, outlen>>

(* C_GenerateRandom into the cache. Once it has failed, only the calls under way still ask
   the token. *)
luna_pqc_rng_hw_pkcs11(t) ==
    LET p == Process(t) IN
    /\ pc[t] = "fill"
    /\ \/ /\ fills < MaxFills /\ fills' = fills + 1
          /\ rng' = [rng EXCEPT ![p] = [@ EXCEPT !.dirty = FALSE, !.bytes = fills',
                                                 !.offset = outlen[t], !.mu = NoThread]]
          /\ Answer(t, fills', 0, outlen[t])
          /\ Goto(t, "idle")
       \/ /\ rng' = [rng EXCEPT ![p] = [@ EXCEPT !.bytes = 0, !.error = TRUE, !.mu = NoThread]]
          /\ Goto(t, "liboqs") /\ UNCHANGED <<given, count, fills>>
    /\ UNCHANGED outlen

luna_pqc_rng_liboqs(t) ==
    /\ pc[t] = "liboqs"
    /\ Goto(t, "idle")
    /\ UNCHANGED <<rng, given, count, fills, outlen>>

(* What a cache holds that was not read. *)
Unread(r) == IF r.dirty THEN {} ELSE Bytes(r.bytes, r.offset, CACHE - r.offset)

(* The child has a copy of the cache: the bytes not read yet may be given out by both. *)
Fork == \E t \in Threads \ Child :
    /\ pc[t] = "idle" /\ \A c \in Child : pc[c] = "unborn"
    /\ rng' = [rng EXCEPT ![2] = rng[1]]
    /\ given' = [given EXCEPT ![2] = given[1]] /\ count' = [count EXCEPT ![2] = count[1]]
    /\ shared' = given[1] \cup Unread(rng[1])
    /\ pc' = [u \in Threads |-> IF u \in Child THEN "idle" ELSE pc[u]]
    /\ UNCHANGED <<fills, outlen>>

Next == \/ /\ \E t \in Threads :
                 \/ \E n \in 1..(SMALL + 1) : luna_pqc_rng(t, n)
                 \/ luna_pqc_rng_hw(t) \/ luna_pqc_rng_hw_cache(t)
                 \/ luna_pqc_rng_hw_pkcs11(t) \/ luna_pqc_rng_liboqs(t)
           /\ UNCHANGED shared
        \/ Fork
Spec == Init /\ [][Next]_vars
------------------------------------------------------------------------------
TypeOK == /\ rng \in [1..2 -> [error : BOOLEAN, mu : Threads \cup {NoThread}, dirty : BOOLEAN,
                               offset : 0..CACHE, bytes : 0..MaxFills]]
          /\ outlen \in [Threads -> 0..(SMALL + 1)] /\ fills \in 0..MaxFills
          /\ \A p \in 1..2 : count[p] >= 0

(* A process is given no byte of the token twice, nor one that its parent was given before
   the fork, and none that the token did not deliver: whatever calls are under way when the
   cache is filled, used up, or cannot be filled.  Across the fork that does not hold: the
   child has a copy of the cache, and what was unread in it may be given to both.  It is
   the only thing they share: no later fill, no fill that was under way at the fork and no
   byte of a cache that was dirty then. *)
BytesOnce == /\ \A p \in 1..2 : /\ Cardinality(given[p]) = count[p]
                                /\ given[p] \subseteq (1..MaxFills) \X (1..CACHE)
             /\ given[1] \cap given[2] \subseteq shared
==============================================================================
