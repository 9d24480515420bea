----------------------------- MODULE KeyObjects -----------------------------
(* The key objects of the provider: key management of the classic families (KeyMgmt), the
   keys of the oqs part (OqsKey), and the store loader that gives libcrypto keys
   (StoreLoader). Their objects do not interact, and a behaviour uses one of the parts. *)
EXTENDS Integers, Sequences

CONSTANTS
    Objs, Families, HwTypes,    \* of KeyMgmt, and Objs of StoreLoader
    Pairs,                      \* of KeyMgmt and OqsKey
    Keys, Faults,               \* of OqsKey
    Entries, Streams            \* of StoreLoader

VARIABLES part, types, obj, app, ref, gen, pair, joined, alg, key, ldr, held, refs
kmgmt == <<types, obj, app, ref, gen, pair, joined>>
oqs == <<alg, key>>
store == <<ldr, held, refs>>
vars == <<part, kmgmt, oqs, store>>

K == INSTANCE KeyMgmt
O == INSTANCE OqsKey
S == INSTANCE StoreLoader

(* No object has the name of the missing reference, and no pair the number of no pair. *)
ASSUME KeyObjectsAssumption ==
    /\ K!None \notin Objs /\ Pairs \subseteq Nat \ {0}
    /\ Families \subseteq SUBSET K!KeyTypes
    /\ Entries \in Seq(S!NameKinds) /\ Streams \subseteq Seq(S!Items)

(* What a behaviour does not use starts in one way. *)
Init == /\ part \in {"classic", "oqs", "store"} /\ K!Init /\ O!Init /\ S!Init
        /\ part = "classic" \/ types = CHOOSE f \in Families : TRUE
        /\ part = "oqs" \/ alg = "mlkem"
Next == /\ \/ part = "classic" /\ K!Next /\ UNCHANGED <<oqs, store>>
           \/ part = "oqs" /\ O!Next /\ UNCHANGED <<kmgmt, store>>
           \/ part = "store" /\ S!Next /\ UNCHANGED <<kmgmt, oqs>>
        /\ UNCHANGED part
Spec == Init /\ [][Next]_vars

(* What KeyMgmt, OqsKey and StoreLoader state. *)
TypeOK == K!TypeOK /\ O!TypeOK /\ S!TypeOK
OwnedOnce == K!OwnedOnce /\ S!HeldIsAlive
EachOnce == S!EachOnce
GuessAndPair == K!GuessIsRight /\ K!ValidIsPair
EqualIsSame == K!EqualIsSame /\ O!EqualIsSame
BothPartsCount == O!BothPartsCount
GeneratedWhole == O!GeneratedWhole
=============================================================================
