------------------------------ MODULE Contexts -------------------------------
(* The contexts that libcrypto opens in the provider: RSA signatures (RsaSig), RSA
   encryption (RsaEnc), and the signatures and exchanges of the other keys (OpContext).
   The kinds share no state, and a behaviour uses one of them. *)
EXTENDS Integers, FiniteSets

CONSTANTS
    Ctxs,
    RsaKeys, InitLists, SigLists, MaxSets, SigChunks,           \* RsaSig
    EncKeys, EncLists, TokenDigests,                            \* RsaEnc
    Keys, AppKeys, Names, DigestSize, Strings, MaxChunks        \* OpContext; Names is RsaSig's too

VARIABLES
    kind,
    rsa, sets,          \* RsaSig
    enc, held,          \* RsaEnc
    ctx, refs, app      \* OpContext

R == INSTANCE RsaSig WITH ctx <- rsa, Keys <- RsaKeys, ParamLists <- SigLists,
                          MaxChunks <- SigChunks
X == INSTANCE RsaEnc WITH ctx <- enc, refs <- held, Keys <- EncKeys, ParamLists <- EncLists
O == INSTANCE OpContext

(* Only an RSA-PSS key carries restrictions (rsa_signverify_init reads them of no other),
   and a name of a digest is neither of the words that stand for no digest. *)
ASSUME ContextsAssumption ==
    /\ IsFiniteSet(Ctxs)
    /\ RsaKeys \subseteq R!Key /\ \A k \in RsaKeys : R!Restricted(k) => k.type = "pss"
    /\ InitLists \subseteq R!Params /\ SigLists \subseteq R!Params
    /\ MaxSets \in Nat /\ SigChunks \in Nat
    /\ EncKeys \subseteq X!Key /\ EncLists \subseteq X!Params
    /\ Keys \subseteq O!Key /\ AppKeys \subseteq SUBSET Keys /\ MaxChunks \in Nat
    /\ "null" \notin Names /\ DigestSize \in [Names -> Nat]

Init == /\ kind \in {"rsa", "enc", "other"} /\ R!Init /\ X!Init /\ O!Init
        /\ kind = "other" \/ app = CHOOSE S \in AppKeys : TRUE
Next == \/ kind = "rsa" /\ R!Next /\ UNCHANGED <<kind, enc, held, ctx, refs, app>>
        \/ kind = "enc" /\ X!Next /\ UNCHANGED <<kind, rsa, sets, ctx, refs, app>>
        \/ kind = "other" /\ O!Next /\ UNCHANGED <<kind, rsa, sets, enc, held>>
Spec == Init /\ [][Next]_<<kind, rsa, sets, enc, held, ctx, refs, app>>
------------------------------------------------------------------------------
(* What a context of an RSA, DSA or EC key signs is the digest it names over all that it
   was fed (rsa_digest_sign_final of lunaRsaSig.c, ecdsa_digest_sign_final of
   lunaEcSig.c). *)
WholeMessage == R!WholeMessage /\ O!WholeMessage

(* Contexts keep their types and the restrictions of their keys (rsa_set_ctx_params and
   rsa_signverify_init of lunaRsaSig.c). *)
RestrictionsHold == R!TypeOK /\ X!TypeOK /\ O!TypeOK /\ R!RestrictionsHold

(* What one RSA context signs or encrypts, another of the same key and parameters accepts or
   opens, in the token and in software (lunaRsaSig.c, lunaRsaEnc.c). Of EdDSA signatures
   this holds of keys in software, which also refuse what another instance or string made;
   what a key of the token signs is accepted as a pure signature without a string, or not
   at all (lunaEddsaSig.c 318 and 421). *)
SignaturesVerify == R!SignaturesVerify /\ X!DecryptsSame /\ X!OthersRefused /\ O!EdVerifies

(* A key object lives exactly as long as the application or a context refers to it
   (rsa_newctx, dsa_dupctx, ecdh_set_peer and the functions that free contexts). *)
RefsExact == X!RefsExact /\ O!RefsExact
==============================================================================
