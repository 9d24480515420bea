------------------------------ MODULE KeyPaths -------------------------------
(* Keys in the token and the threads that use them: a shared key context (KeyUse), the way
   of a secret out of the token (TokenSecret), the references a key travels with (PqcRef)
   and the random numbers (PqcRng). These share no state, and a behaviour is of one of
   them. *)
EXTENDS KeyUse

CONSTANTS
    Parts,                          \* the parts whose behaviours are looked at
    Sessions, SecretOps, MaxKeys,   \* TokenSecret
    Keys, Pairs,                    \* PqcRef
    Callers, Child,                 \* PqcRng: the threads, and those of a child process
    CACHE, SMALL, MaxFills

(* 0 is no session and no pair, and "none" no operation and no thread; a small request
   fits the cache (LUNA_PQC_RNG_SMALL and LUNA_PQC_RNG_CACHE). *)
ASSUME KeyPathsAssumption ==
    /\ Parts \subseteq {"use", "secret", "reference", "random"}
    /\ 0 \notin Sessions /\ SecretOps \subseteq {"encap", "decap", "ecdh"} /\ MaxKeys \in Nat
    /\ 0 \notin Pairs /\ 0 - 1 \notin Pairs
    /\ "none" \notin Callers /\ Child \subseteq Callers
    /\ CACHE \in Nat /\ SMALL \in Nat /\ SMALL <= CACHE /\ MaxFills \in Nat

VARIABLES
    part, gen,
    sessions, objs, wkey, werror, whandle, wcount, made, spc, call,    \* TokenSecret
    tokenobjs, kind, key,                                              \* PqcRef
    rng, given, count, shared, fills, rpc, outlen                      \* PqcRng

S == INSTANCE TokenSecret WITH Ops <- SecretOps, open <- sessions, pc <- spc
P == INSTANCE PqcRef WITH objs <- tokenobjs
N == INSTANCE PqcRng WITH Threads <- Callers, pc <- rpc

secret == <<sessions, objs, wkey, werror, whandle, wcount, made, spc, call>>
reference == <<tokenobjs, kind, key>>
random == <<rng, given, count, shared, fills, rpc, outlen>>
all == <<part, gen, vars, secret, reference, random>>

PathInit == /\ part \in Parts
            /\ Init
            /\ part = "use" \/ (in_token /\ Generated /\ op = [t \in Threads |-> "sign"])
            /\ S!Init /\ P!Init /\ N!Init
            /\ part = "reference" \/ kind = "kem"
PathNext == /\ \/ part = "use" /\ Next /\ UNCHANGED <<gen, secret, reference, random>>
               \/ part = "secret" /\ S!Next /\ UNCHANGED <<vars, reference, random>>
               \/ part = "reference" /\ P!Next /\ UNCHANGED <<vars, secret, random>>
               \/ part = "random" /\ N!Next /\ UNCHANGED <<vars, gen, secret, reference>>
            /\ UNCHANGED part
PathSpec == PathInit /\ [][PathNext]_all
------------------------------------------------------------------------------
(* The state keeps its types: no count, offset or label leaves its range. *)
TypesOK == /\ part = "use" => TypeOK
           /\ part = "secret" => S!TypeOK
           /\ part = "reference" => P!TypeOK
           /\ part = "random" => N!TypeOK

(* A secret leaves the token wrapped with a handle of this initialization, and no object
   of one stays there (lunaCommon.c, lunaPqcKem.c). *)
SecretsArrive == part = "secret" => S!WrapperFresh /\ S!NoSecretStays

(* The bytes of a key of the token find its objects, and what is encapsulated is for the
   public bytes the key holds (lunaPqcSig.c, lunaPqcKem.c). *)
ReferencesHold == part = "reference" => P!ReferencesHold /\ P!EncapsulatesToBytes

(* No random byte of the token is given to a process twice, and to a parent and its child
   both only if it was unread in the cache at the fork (luna_pqc_rng). *)
BytesOnce == part = "random" => N!BytesOnce
==============================================================================
