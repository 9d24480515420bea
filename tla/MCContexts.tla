----------------------------- MODULE MCContexts -----------------------------
(* The contexts for TLC.

   RSA keys: 1025 bits make the encoded message a byte shorter than the key, and the
   minimum of the last key fits rsa_check_parameters only. *)
EXTENDS Contexts, TLC

Plain == [type |-> "rsa", bits |-> 1024, place |-> "token", min |-> -1,
          md |-> "null", mgf1 |-> "null"]
MCRsaKeys ==
    {Plain,
     [Plain EXCEPT !.bits = 1025, !.place = "software"],
     [Plain EXCEPT !.type = "pss", !.bits = 1025, !.min = 30, !.md = "sha256", !.mgf1 = "sha1"],
     [Plain EXCEPT !.type = "pss", !.bits = 1025, !.place = "software", !.min = 95,
                   !.md = "sha256", !.mgf1 = "sha256"]}
P(pad, salt, md, mgf1) ==
    [some |-> TRUE, pad |-> pad, salt |-> salt, md |-> md, mgf1 |-> mgf1]
MCInitLists == {[P("null", -9, "null", "null") EXCEPT !.some = FALSE],
                P("pss", -1, "null", "sha256")}
MCSigLists == {P("pss", -9, "null", "null"), P("pss", -2, "null", "sha256"),
               P("pss", 20, "sha1", "null"), P("null", -3, "null", "null"),
               P("null", -9, "sha3_256", "null"), P("x931", -9, "null", "null"),
               P("oaep", -9, "null", "null")}

MCEncKeys == [name : {"k"}, type : {"rsa"}, place : {"token", "software", "engine"}]
                \cup {[name |-> "k", type |-> "pss", place |-> "token"]}
E(oaep, pad, mgf1, label, version) ==
    [oaep |-> oaep, pad |-> pad, mgf1 |-> mgf1, label |-> label, version |-> version]
MCEncLists == {E("null", "null", "null", "null", 0), E("null", "oaep", "null", "null", 0),
               E("null", "none", "null", "null", 0),
               E("sha256", "oaep", "sha1", "null", 0), E("null", "null", "sha1", "null", 0),
               E("null", "null", "nodigest", "null", 0), E("nodigest", "null", "null", "null", 0),
               E("sha256", "null", "null", "null", 0),
               E("md5", "null", "null", "label", 0), E("null", "tls", "null", "null", 1)}

K(name, type, place) == [name |-> name, type |-> type, place |-> place]
Ed == K("ed", "ed25519", "software")
MCAppKeys == {{K("ec", "ec", "token"), K("ec2", "ec", "software")},
              {K("oqs", "oqs", "token"), Ed}, {Ed, K("et", "ed448", "token")}}
MCKeys == UNION MCAppKeys
MCDigestSize == [sha1 |-> 20, sha256 |-> 32]

Symmetry == Permutations(Ctxs)
=============================================================================
