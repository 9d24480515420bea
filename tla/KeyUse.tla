-------------------------------- MODULE KeyUse --------------------------------
(***************************************************************************)
(* One PQC key context shared by the threads of a process: the queries     *)
(* that decide between the hsm and liboqs, the lazy search for the key in  *)
(* the token, and the operation with the object handle found.              *)
(*                                                                         *)
(* All of it runs under the read side of the key lock, which lets readers  *)
(* run together, and none of the fields below is volatile or written under *)
(* keyctx->mu: the steps here are the loads and stores of the source, in   *)
(* source order.  A handle is represented by the initialization of the     *)
(* library it belongs to, 0 being no handle.                               *)
(*                                                                         *)
(* Of the session layer this module keeps what Session guarantees it: the  *)
(* library is finalized or initialized again only while no context is      *)
(* open, and opening a context initializes the library.  Of its slots it   *)
(* keeps one: luna_open_context takes the slot with the shortest line, but *)
(* a key context remembers no slot, so with Engine2Init a handle may be    *)
(* used in the slot it was not found in, which is outside this module.     *)
(***************************************************************************)
EXTENDS Naturals

CONSTANTS
    Threads,
    Ops,        \* the operations called: "sign" (a private key operation, as is
                \*   decaps), "verify" and "encaps" (public key operations)
    MaxInit     \* bound on the number of initializations of the library

ASSUME KeyUseAssumption ==
    /\ Ops \subseteq {"sign", "verify", "encaps"}
    /\ MaxInit \in Nat \ {0}

VARIABLES
    luna_have,      \* luna_have_c_init
    luna_count,     \* luna_count_c_init
    open,           \* the threads that hold an open luna_context_t
    in_token,       \* the key bytes are the reference to a key in the token
    magic,          \* keyctx->magic
    is_hardware,    \* keyctx->is_hardware
    hPublic,        \* keyctx->hPublic
    hPrivate,       \* keyctx->hPrivate
    key_count,      \* keyctx->count_c_init
    reason,         \* keyctx->reason: what the public key is known from
    pc,             \* where each thread is
    op,             \* the operation it performs
    querying,       \* it is in the query, not yet in the operation
    h               \* the handle it will use

worldvars == <<luna_have, luna_count, in_token>>
keyvars == <<magic, is_hardware, hPublic, hPrivate, key_count, reason>>
callvars == <<op, querying, h>>
vars == <<worldvars, open, keyvars, pc, callvars>>

(* A key read from a file or a peer, not looked for yet. *)
Loaded ==
    /\ magic = "zero"
    /\ hPublic = 0 /\ hPrivate = 0 /\ key_count = 0
    /\ reason = "encoding"

(* A key generated in the token by LUNA_OQS_keypair. *)
Generated ==
    /\ in_token
    /\ magic = "ok"
    /\ hPublic = 1 /\ hPrivate = 1 /\ key_count = 1
    /\ reason = "gen"

Init ==
    /\ luna_have = TRUE
    /\ luna_count = 1
    /\ open = {}
    /\ in_token \in BOOLEAN
    /\ is_hardware = TRUE
    /\ Loaded \/ Generated
    /\ pc = [t \in Threads |-> "idle"]
    /\ op \in [Threads -> Ops]
    /\ querying = [t \in Threads |-> FALSE]
    /\ h = [t \in Threads |-> 0]

Goto(t, p) == pc' = [pc EXCEPT ![t] = p]

(* KEYCTX_CHECK_COUNT: the handles are of an earlier initialization. *)
Stale == ~luna_have \/ key_count # luna_count

-----------------------------------------------------------------------------
(* The library, as other calls of the process see to it. *)

Finalize ==
    /\ luna_have
    /\ open = {}
    /\ luna_have' = FALSE
    /\ UNCHANGED <<luna_count, in_token, open, keyvars, pc, callvars>>

Initialize ==
    /\ ~luna_have
    /\ luna_count < MaxInit
    /\ luna_have' = TRUE
    /\ luna_count' = luna_count + 1
    /\ UNCHANGED <<in_token, open, keyvars, pc, callvars>>

(* luna_open_context on the context of the call, already open or not.  An
   open that fails leaves the context in error. *)
OpenContext(t, ok, failed) ==
    \/ /\ open' = open \cup {t}
       /\ luna_have' = TRUE
       /\ IF luna_have THEN UNCHANGED luna_count
            ELSE luna_count < MaxInit /\ luna_count' = luna_count + 1
       /\ UNCHANGED in_token
       /\ Goto(t, ok)
    \/ /\ t \notin open
       /\ Goto(t, failed)
       /\ UNCHANGED <<worldvars, open>>

(* LUNA_OQS_READKEY_UNLOCK: the context is closed with the read lock. *)
Unlock(t, p) ==
    /\ open' = open \ {t}
    /\ Goto(t, p)
    /\ UNCHANGED <<worldvars, keyvars>>

-----------------------------------------------------------------------------
(* LUNA_OQS_QUERY_any_private_op and LUNA_OQS_QUERY_any_public_op *)

(* The first query looks for the key. *)
Query(t, o) ==
    /\ pc[t] = "idle"
    /\ op' = [op EXCEPT ![t] = o]
    /\ querying' = [querying EXCEPT ![t] = TRUE]
    /\ Goto(t, IF magic = "zero" THEN "enter" ELSE "choose")
    /\ UNCHANGED <<worldvars, open, keyvars, h>>

(* Mutant: handles of an earlier initialization do not count. *)
InHsm_Fresh(o) ==
    IF o = "sign" THEN is_hardware \/ hPrivate # 0 ELSE hPublic # 0 /\ ~Stale

(* The answer: an operation of the token, or one of liboqs. *)
InHsm(o) == IF o = "sign" THEN is_hardware \/ hPrivate # 0 ELSE hPublic # 0

Choose(t) ==
    /\ pc[t] = "choose"
    /\ querying' = [querying EXCEPT ![t] = FALSE]
    /\ Goto(t, IF InHsm(op[t]) THEN "enter" ELSE "software")
    /\ UNCHANGED <<worldvars, open, keyvars, op, h>>

Software(t) ==
    /\ pc[t] = "software"
    /\ Goto(t, "idle")
    /\ UNCHANGED <<worldvars, open, keyvars, callvars>>

-----------------------------------------------------------------------------
(* _LUNA_OQS_findobject_helper_pre and _LUNA_OQS_findobject_internal. Between the
   test and the store the code reads magic again, for bFoundItHere: whether the
   public bytes are to be read from the token afterwards, which is not modelled. *)

PreTest(t) ==
    /\ pc[t] = "enter"
    /\ Goto(t, IF magic = "zero" \/ (magic = "ok" /\ Stale) THEN "force" ELSE "result")
    /\ UNCHANGED <<worldvars, open, keyvars, callvars>>

PreForce(t) ==
    /\ pc[t] = "force"
    /\ magic' = "zero"
    /\ Goto(t, "check")
    /\ UNCHANGED <<worldvars, open, is_hardware, hPublic, hPrivate, key_count, reason, callvars>>

FindCheck(t) ==
    /\ pc[t] = "check"
    /\ Goto(t, IF magic = "zero" THEN "error" ELSE "result")
    /\ UNCHANGED <<worldvars, open, keyvars, callvars>>

(* "initially, keyctx error" *)
FindError(t) ==
    /\ pc[t] = "error"
    /\ magic' = "error"
    /\ Goto(t, "open")
    /\ UNCHANGED <<worldvars, open, is_hardware, hPublic, hPrivate, key_count, reason, callvars>>

FindOpen(t) ==
    /\ pc[t] = "open"
    /\ OpenContext(t, "decode", "failed")
    /\ UNCHANGED <<keyvars, callvars>>

(* LunaPqcFind: "assume hardware", *)
FindDecode(t) ==
    /\ pc[t] = "decode"
    /\ is_hardware' = TRUE
    /\ Goto(t, "decoded")
    /\ UNCHANGED <<worldvars, open, magic, hPublic, hPrivate, key_count, reason, callvars>>

(* "proven not hardware", *)
FindSoftware(t) ==
    /\ pc[t] = "decoded"
    /\ ~in_token
    /\ is_hardware' = FALSE
    /\ Goto(t, "result")
    /\ UNCHANGED <<worldvars, open, magic, hPublic, hPrivate, key_count, reason, callvars>>

(* not found, *)
FindFails(t) ==
    /\ pc[t] = "decoded"
    /\ in_token
    /\ key_count' = 0
    /\ Goto(t, "result")
    /\ UNCHANGED <<worldvars, open, magic, is_hardware, hPublic, hPrivate, reason, callvars>>

(* Mutant: the count is brought up to date before the handles. *)
FindPublic_CountFirst(t) ==
    /\ pc[t] = "decoded"
    /\ in_token
    /\ hPublic' = luna_count
    /\ key_count' = luna_count
    /\ Goto(t, "private")
    /\ UNCHANGED <<worldvars, open, magic, is_hardware, hPrivate, reason, callvars>>

(* or found: the handles, then the count that says they are fresh. *)
FindPublic(t) ==
    /\ pc[t] = "decoded"
    /\ in_token
    /\ hPublic' = luna_count
    /\ Goto(t, "private")
    /\ UNCHANGED <<worldvars, open, magic, is_hardware, hPrivate, key_count, reason, callvars>>

FindPrivate(t) ==
    /\ pc[t] = "private"
    /\ hPrivate' = luna_count
    /\ Goto(t, "count")
    /\ UNCHANGED <<worldvars, open, magic, is_hardware, hPublic, key_count, reason, callvars>>

(* Mutant: the count is one ahead of that of the library. *)
FindCount_Ahead(t) ==
    /\ pc[t] = "count"
    /\ key_count' = luna_count + 1
    /\ Goto(t, "ok")
    /\ UNCHANGED <<worldvars, open, magic, is_hardware, hPublic, hPrivate, reason, callvars>>

FindCount(t) ==
    /\ pc[t] = "count"
    /\ key_count' = luna_count
    /\ Goto(t, "ok")
    /\ UNCHANGED <<worldvars, open, magic, is_hardware, hPublic, hPrivate, reason, callvars>>

FindOk(t) ==
    /\ pc[t] = "ok"
    /\ magic' = "ok"
    /\ Goto(t, "result")
    /\ UNCHANGED <<worldvars, open, is_hardware, hPublic, hPrivate, key_count, reason, callvars>>

(* Mutant: the result test lets a key through that nobody has found. *)
PreResult_NotError(t) ==
    /\ pc[t] \in {"result", "failed"}
    /\ IF querying[t] THEN Unlock(t, "choose")
       ELSE IF magic = "error" THEN Unlock(t, "idle")
       ELSE Goto(t, IF pc[t] = "failed" THEN "noopen" ELSE "begin")
            /\ UNCHANGED <<worldvars, open, keyvars>>
    /\ UNCHANGED callvars

(* The search is over, by whichever thread: the query goes on to choose, the
   operation goes on if the key is ready.  "failed" is "result" with a context
   that could not be opened: opening it again fails too. *)
PreResult(t) ==
    /\ pc[t] \in {"result", "failed"}
    /\ IF querying[t] THEN Unlock(t, "choose")
       ELSE IF magic # "ok" THEN Unlock(t, "idle")
       ELSE Goto(t, IF pc[t] = "failed" THEN "noopen" ELSE "begin")
            /\ UNCHANGED <<worldvars, open, keyvars>>
    /\ UNCHANGED callvars

-----------------------------------------------------------------------------
(* LUNA_OQS_SIG_sign_ndx, _SIG_verify_ndx, _KEM_decaps, _KEM_encaps *)

OpOpen(t) ==
    /\ pc[t] = "begin"
    /\ OpenContext(t, "opened", "noopen")
    /\ UNCHANGED <<keyvars, callvars>>

OpFails(t) ==
    /\ pc[t] = "noopen"
    /\ Unlock(t, "idle")
    /\ UNCHANGED callvars

(* The handle to use: read from the key context, *)
TakeHandle(t) ==
    /\ pc[t] = "opened"
    /\ op[t] = "encaps" => reason \in {"gen", "create"}
    /\ h' = [h EXCEPT ![t] = IF op[t] = "sign" THEN hPrivate ELSE hPublic]
    /\ Goto(t, "stale")
    /\ UNCHANGED <<worldvars, open, keyvars, op, querying>>

(* or, to encapsulate to a key that came as bytes, that of a new object. *)
CreatePublic(t) ==
    /\ pc[t] = "opened"
    /\ op[t] = "encaps" /\ reason = "encoding"
    /\ \/ /\ h' = [h EXCEPT ![t] = luna_count]
          /\ hPublic' = luna_count
          /\ Goto(t, "created")
          /\ UNCHANGED open
       \/ /\ open' = open \ {t}
          /\ Goto(t, "idle")
          /\ UNCHANGED <<h, hPublic>>
    /\ UNCHANGED <<worldvars, magic, is_hardware, hPrivate, key_count, reason, op, querying>>

MarkCreated(t) ==
    /\ pc[t] = "created"
    /\ reason' = "create"
    /\ Goto(t, "stale")
    /\ UNCHANGED <<worldvars, open, magic, is_hardware, hPublic, hPrivate, key_count, callvars>>

(* "check for stale object handle": CKR_KEY_CHANGED *)
StaleCheck(t) ==
    /\ pc[t] = "stale"
    /\ IF Stale THEN Unlock(t, "idle")
         ELSE Goto(t, "use") /\ UNCHANGED <<worldvars, open, keyvars>>
    /\ UNCHANGED callvars

(* C_SignInit, C_VerifyInit, CA_EncapsulateKey ... with the handle h[t]. *)
Use(t) ==
    /\ pc[t] = "use"
    /\ Unlock(t, "idle")
    /\ UNCHANGED callvars

-----------------------------------------------------------------------------
Searching(t) ==
    \/ PreTest(t) \/ PreForce(t) \/ FindCheck(t) \/ FindError(t)
    \/ FindOpen(t) \/ FindDecode(t) \/ FindSoftware(t) \/ FindFails(t)
    \/ FindPublic(t) \/ FindPrivate(t) \/ FindCount(t) \/ FindOk(t) \/ PreResult(t)

Operating(t) ==
    \/ OpOpen(t) \/ OpFails(t) \/ TakeHandle(t) \/ CreatePublic(t)
    \/ MarkCreated(t) \/ StaleCheck(t) \/ Use(t)

Next ==
    \/ Finalize
    \/ Initialize
    \/ \E t \in Threads :
          \/ \E o \in Ops : Query(t, o)
          \/ Choose(t) \/ Software(t) \/ Searching(t) \/ Operating(t)

Spec == Init /\ [][Next]_vars

-----------------------------------------------------------------------------
PCs == {"idle", "choose", "software", "enter", "force", "check", "error",
        "open", "decode", "decoded", "private", "count", "ok", "result", "failed",
        "begin", "noopen", "opened", "created", "stale", "use"}

TypeOK ==
    /\ luna_have \in BOOLEAN
    /\ luna_count \in Nat \ {0}
    /\ open \subseteq Threads
    /\ in_token \in BOOLEAN
    /\ magic \in {"zero", "error", "ok"}
    /\ is_hardware \in BOOLEAN
    /\ hPublic \in 0 .. luna_count
    /\ hPrivate \in 0 .. luna_count
    /\ key_count \in 0 .. luna_count
    /\ reason \in {"encoding", "gen", "create"}
    /\ pc \in [Threads -> PCs]
    /\ op \in [Threads -> Ops]
    /\ querying \in [Threads -> BOOLEAN]
    /\ h \in [Threads -> 0 .. luna_count]

(* The count never vouches for older handles: when the count of the key says
   that its handles are of this initialization, both are, whatever searches and
   object creations of other threads are half done. *)
CountVouches == key_count = luna_count => hPublic = luna_count /\ hPrivate = luna_count

(* No operation is started with the null handle: the magic of a key says "ok"
   only after both handles have been stored. *)
NeverNullHandle == \A t \in Threads : pc[t] = "use" => h[t] # 0

(* "check for stale object handle": the handle given to the token is of this
   initialization of the library. *)
NoStaleHandle == \A t \in Threads : pc[t] = "use" => h[t] = luna_count

(* A key that is in the token is not taken for one that is not: liboqs gets no
   private key operation with the reference in place of the key, and once the
   search has succeeded no public key operation either. *)
FoundKeyStaysInHsm ==
    [][\A t \in Threads :
          pc[t] = "choose" /\ pc'[t] = "software" =>
              IF op[t] = "sign" THEN ~in_token ELSE magic # "ok"]_vars

(* A key of liboqs never reaches an operation of the token, although it counts
   as a hardware key until its bytes have been decoded. *)
SoftwareKeyNotInHsm ==
    ~in_token => \A t \in Threads : pc[t] \notin {"begin", "opened", "stale", "use"}
=============================================================================
