------------------------------- MODULE KeyMgmt -------------------------------
(* Key management of the provider (lunaRsaGen.c, lunaDsaGen.c, lunaEcGen.c,
   lunaEcxGen.c): what becomes of the halves of a key when its object is generated,
   loaded from a decoder, copied, exported, imported, compared and validated.

   The private half of a key of the token is not there. RSA, DSA and EC objects hold a
   marker instead, the same for all keys, and the public half says which key it is. The
   private bytes of an ECX object hold a template with the name of the key, and the
   public half is read from the token. *)
EXTENDS Integers, FiniteSets

CONSTANTS
    Objs,       \* objects that exist at a time
    Pairs,      \* key pairs generated, a set of numbers
    Families,   \* the types of each family: subsets of KeyTypes
    HwTypes     \* types the configuration generates in the token

KeyTypes == {"rsa", "rsapss", "dsa", "ec", "sm2", "x25519", "ed25519"}
None == "none"
Rsa(t) == t \in {"rsa", "rsapss"}
Ec(t) == t \in {"ec", "sm2"}
Ecx(t) == t \in {"x25519", "ed25519"}

VARIABLES
    types,  \* the family: keys of two families do not meet
    obj,    \* the objects
    app,    \* those libcrypto holds in an EVP_PKEY
    ref,    \* the one a decoder or the store holds in a reference, or None
    gen,    \* a generation context
    pair,   \* type and place of the pairs generated
    joined  \* history: halves of two pairs that the application put together
vars == <<types, obj, app, ref, gen, pair, joined>>

(* The public half is that of a pair, or none, or the zeros of an ECX object without
   one. A private half says of which pair it is, if it can: born, which is a history and
   in no object, is the pair that it was made for. *)
NoPub == 0
Zeros == -1
Null == [kind |-> "null", of |-> 0, born |-> 0]
Marker(p) == [kind |-> "marker", of |-> 0, born |-> p]
Template(p) == [kind |-> "template", of |-> p, born |-> p]
Real(p) == [kind |-> "real", of |-> p, born |-> p]
SamePrivate(a, b) == a.kind = b.kind /\ a.of = b.of
Free == [type |-> "free"]
Blank(t, params) == [type |-> t, params |-> params, pub |-> NoPub, priv |-> Null]
Key(t, p, place) ==
    [Blank(t, TRUE) EXCEPT
        !.pub = p, !.priv = IF place = "software" THEN Real(p)
                            ELSE IF Ecx(t) THEN Template(p) ELSE Marker(p)]
Live(x) == obj[x] # Free

Halves == {"pub", "priv"}
All == Halves \cup {"params", "other"}
Possible(t) ==
    IF Rsa(t) THEN Halves \cup {"other"} ELSE IF t = "dsa" THEN Halves \cup {"params"}
    ELSE IF Ec(t) THEN All ELSE Halves
Selects(sel, s) == sel \cap s # {}
------------------------------------------------------------------------------
(* Is the key in the token? The answer is a guess from the private half. *)
Meaningless(o) == o.pub = NoPub \/ ~o.params

check_private_AnyIsSoftware(o) ==
    IF Ecx(o.type)
    THEN IF o.priv = Null THEN "error" ELSE IF o.priv.kind = "template" THEN "hardware" ELSE "software"
    ELSE IF Meaningless(o) THEN "error" ELSE IF o.priv = Null THEN "hardware" ELSE "software"

check_private(o) ==
    IF Ecx(o.type)
    THEN IF o.priv = Null THEN "error" ELSE IF o.priv.kind = "template" THEN "hardware" ELSE "software"
    ELSE IF Meaningless(o) THEN "error" ELSE IF o.priv.kind = "real" THEN "software" ELSE "hardware"

check_public(o) ==
    IF Meaningless(o) THEN "error" ELSE IF o.priv.kind = "marker" THEN "hardware" ELSE "software"

rsa_has(o, sel) ==
    /\ Selects(sel, Halves) => o.pub # NoPub
    /\ "priv" \in sel => o.priv # Null
dsa_has(o, sel) ==
    /\ "pub" \in sel => o.pub # NoPub
    /\ "priv" \in sel => o.priv # Null
    /\ "params" \in sel => o.params
ec_has(o, sel) == dsa_has(o, sel)
ecx_has(o, sel) ==
    /\ "pub" \in sel => o.pub # NoPub
    /\ "priv" \in sel => o.priv # Null
has(o, sel) ==
    CASE Rsa(o.type) -> rsa_has(o, sel) [] o.type = "dsa" -> dsa_has(o, sel)
      [] Ec(o.type) -> ec_has(o, sel) [] Ecx(o.type) -> ecx_has(o, sel)

(* Software is validated by computing, the token by trusting it. *)
Passes(check) == check \in {"software", "hardware"}
Pairwise(o) == Passes(check_private(o)) /\ (check_private(o) = "software" => o.priv.of = o.pub)

luna_rsa_validate(o, sel) ==
    IF Halves \subseteq sel THEN Pairwise(o)
    ELSE /\ "priv" \in sel => Passes(check_private(o))
         /\ "pub" \in sel => Passes(check_public(o))
luna_dsa_validate(o, sel) == dsa_has(o, sel) /\ (Halves \subseteq sel => Pairwise(o))
luna_ec_validate(o, sel) ==
    /\ "params" \in sel => o.params
    /\ "pub" \in sel => Passes(check_public(o))
    /\ "priv" \in sel => Passes(check_private(o))
    /\ Halves \subseteq sel => Pairwise(o)

(* SM2 keys are computed with wherever they are: no pair of the token passes. *)
sm2_validate(o, sel) ==
    /\ "params" \in sel => o.params
    /\ "pub" \in sel => o.pub # NoPub
    /\ "priv" \in sel => o.priv # Null
    /\ Halves \subseteq sel => o.priv.kind = "real" /\ o.priv.of = o.pub
ecx_validate(o, sel) == ecx_has(o, sel) /\ (Halves \subseteq sel => Pairwise(o))
validate(o, sel) ==
    CASE Rsa(o.type) -> luna_rsa_validate(o, sel) [] o.type = "dsa" -> luna_dsa_validate(o, sel)
      [] o.type = "ec" -> luna_ec_validate(o, sel) [] o.type = "sm2" -> sm2_validate(o, sel)
      [] Ecx(o.type) -> ecx_validate(o, sel)

(* Mutant: that no half was compared is forgotten. *)
SameHalves_Unchecked(a, b, sel) ==
    Selects(sel, Halves) =>
        IF "pub" \in sel /\ a.pub # NoPub /\ b.pub # NoPub THEN a.pub = b.pub
        ELSE "priv" \in sel /\ a.priv # Null /\ b.priv # Null => SamePrivate(a.priv, b.priv)

(* The public halves decide, the private halves only if one of the public is missing. *)
SameHalves(a, b, sel) ==
    Selects(sel, Halves) =>
        IF "pub" \in sel /\ a.pub # NoPub /\ b.pub # NoPub THEN a.pub = b.pub
        ELSE /\ "priv" \in sel /\ a.priv # Null /\ b.priv # Null
             /\ SamePrivate(a.priv, b.priv)

rsa_match(a, b, sel) == (a.pub = NoPub) = (b.pub = NoPub) /\ SameHalves(a, b, sel)
dsa_match(a, b, sel) == SameHalves(a, b, sel) /\ ("params" \in sel => a.params = b.params)
ec_match(a, b, sel) ==
    ("params" \in sel => a.params /\ b.params /\ a.type = b.type) /\ SameHalves(a, b, sel)
ecx_match(a, b, sel) == a.type = b.type /\ SameHalves(a, b, sel)
match(a, b, sel) ==
    CASE Rsa(a.type) -> rsa_match(a, b, sel) [] a.type = "dsa" -> dsa_match(a, b, sel)
      [] Ec(a.type) -> ec_match(a, b, sel) [] Ecx(a.type) -> ecx_match(a, b, sel)
------------------------------------------------------------------------------
(* An exported list of parameters, or Free if the export is refused. The public half
   goes with either half. *)
Listed(o, sel) ==
    [o EXCEPT !.pub = IF Selects(sel, Halves) THEN @ ELSE NoPub,
              !.priv = IF "priv" \in sel THEN @ ELSE Null]

rsa_export(o, sel) == IF Selects(sel, Possible("rsa")) THEN Listed(o, sel) ELSE Free
dsa_export(o, sel) ==
    IF ~Selects(sel, Possible("dsa")) THEN Free
    ELSE [Listed(o, sel) EXCEPT !.params = @ /\ Selects(sel, {"params", "other"})]

(* EC insists on a selection that makes sense. *)
ec_export(o, sel) ==
    IF /\ "params" \in sel /\ o.params
       /\ "priv" \in sel => "pub" \in sel
       /\ "other" \in sel => Selects(sel, Halves)
    THEN Listed(o, sel) ELSE Free

(* The public half of an ECX object that has none is exported as zeros. *)
ecx_export(o, sel) ==
    IF ~Selects(sel, Halves) THEN Free
    ELSE [Listed(o, sel) EXCEPT !.pub = IF @ = NoPub THEN Zeros ELSE @]
todata(o, sel) ==
    CASE Rsa(o.type) -> rsa_export(o, sel) [] o.type = "dsa" -> dsa_export(o, sel)
      [] Ec(o.type) -> ec_export(o, sel) [] Ecx(o.type) -> ecx_export(o, sel)

Imported(t, list, sel) ==
    [list EXCEPT !.type = t, !.pub = IF Selects(sel, Halves) THEN @ ELSE NoPub,
                 !.priv = IF "priv" \in sel THEN @ ELSE Null]

rsa_import(t, list, sel) ==
    IF Selects(sel, Possible(t)) /\ (Selects(sel, Halves) => list.pub # NoPub)
    THEN Imported(t, list, sel) ELSE Free
dsa_import(t, list, sel) == IF Selects(sel, Possible(t)) THEN Imported(t, list, sel) ELSE Free
ec_import(t, list, sel) ==
    IF "params" \in sel /\ list.params /\ list.type = t THEN Imported(t, list, sel) ELSE Free

(* An ECX list with a private half only has its public half computed. *)
ecx_key_fromdata(list, priv) ==
    [list EXCEPT !.params = TRUE, !.priv = priv,
                 !.pub = IF @ # NoPub THEN @ ELSE IF priv.kind = "real" THEN priv.of ELSE Zeros]

(* The public half of a key of the token is made unusable, and read from the token if
   the key is found. *)
luna_prov_ecx_public_from_private(o, found) ==
    IF o.priv.kind # "template" THEN o ELSE IF found THEN [o EXCEPT !.pub = o.priv.of] ELSE Free

ecx_import(t, list, sel, found) ==
    LET priv == IF "priv" \in sel THEN list.priv ELSE Null IN
    IF Selects(sel, Halves) /\ (list.pub # NoPub \/ priv # Null)
    THEN luna_prov_ecx_public_from_private(ecx_key_fromdata(list, priv), found) ELSE Free
import(t, list, sel, found) ==
    CASE Rsa(t) -> rsa_import(t, list, sel) [] t = "dsa" -> dsa_import(t, list, sel)
      [] Ec(t) -> ec_import(t, list, sel) [] Ecx(t) -> ecx_import(t, list, sel, found)

(* A copy of RSA halves is never empty, and the marker is copied with them. *)
Copied(o, sel) == [o EXCEPT !.pub = IF "pub" \in sel THEN @ ELSE NoPub,
                            !.priv = IF "priv" \in sel THEN @ ELSE Null]
rsa_dup(o, sel) == IF Selects(sel, Halves) THEN Copied(o, sel) ELSE Free
dsa_dup(o, sel) == [Copied(o, sel) EXCEPT !.params = @ /\ "params" \in sel]
ec_dup(o, sel) == [Copied(o, sel) EXCEPT !.params = @ /\ "params" \in sel]
ecx_dup(o, sel) == Copied(o, sel)
dup(o, sel) ==
    CASE Rsa(o.type) -> rsa_dup(o, sel) [] o.type = "dsa" -> dsa_dup(o, sel)
      [] Ec(o.type) -> ec_dup(o, sel) [] Ecx(o.type) -> ecx_dup(o, sel)
------------------------------------------------------------------------------
Init ==
    /\ types \in Families /\ obj = [x \in Objs |-> Free] /\ app = {} /\ ref = None /\ gen = Free
    /\ pair = [p \in Pairs |-> [type |-> None, place |-> None]] /\ joined = {}

Spare == {p \in Pairs : pair[p].place = None}
Unborn(p) == p \in Spare /\ \A q \in Spare : p <= q

(* libcrypto gets an object, or nothing. *)
Holds(x, o) ==
    /\ o # Free /\ ~Live(x)
    /\ obj' = [obj EXCEPT ![x] = o] /\ app' = app \cup {x}

(* libcrypto generates pairs or parameters. *)
Selected == {Halves, {"params", "other"}}
GenContext(t, sel) ==
    [type |-> t, sel |-> sel, params |-> FALSE, software |-> FALSE, magic |-> "zero"]
rsa_gen_init(t) == Rsa(t) /\ gen' = GenContext(t, Halves)
luna_dsa_gen_init(t) == t = "dsa" /\ \E sel \in Selected : gen' = GenContext(t, sel)

(* An EC context may be told to keep the key out of the token. *)
ec_gen_init(t) == /\ t = "ec"
                  /\ \E sel \in Selected, sw \in BOOLEAN :
                        gen' = [GenContext(t, sel) EXCEPT !.software = sw]
sm2_gen_init(t) == t = "sm2" /\ \E sel \in Selected : gen' = [GenContext(t, sel) EXCEPT !.params = TRUE]
ecx_gen_init(t) == Ecx(t) /\ \E sel \in Selected : gen' = GenContext(t, sel)
GenInit ==
    /\ gen = Free
    /\ \E t \in types : \/ rsa_gen_init(t) \/ luna_dsa_gen_init(t) \/ ec_gen_init(t)
                        \/ sm2_gen_init(t) \/ ecx_gen_init(t)
    /\ UNCHANGED <<obj, app, ref, pair>>

(* Parameters by name, or those of another key. *)
ec_gen_set_params ==
    /\ gen # Free /\ gen.type = "ec" /\ gen' = [gen EXCEPT !.params = TRUE]
    /\ UNCHANGED <<obj, app, ref, pair>>

luna_dsa_gen_set_template ==
    /\ gen # Free /\ gen.type = "dsa"
    /\ \E x \in app : obj[x].type = "dsa" /\ gen' = [gen EXCEPT !.params = obj[x].params]
    /\ UNCHANGED <<obj, app, ref, pair>>

ec_gen_set_template ==
    /\ gen # Free /\ Ec(gen.type)
    /\ \E x \in app : obj[x].type = gen.type /\ obj[x].params
    /\ gen' = [gen EXCEPT !.params = TRUE]
    /\ UNCHANGED <<obj, app, ref, pair>>

InHardware == gen.type \in HwTypes /\ ~gen.software

(* The token or OpenSSL makes a pair, or fails. *)
NewPair(x) ==
    \E p \in Spare :
        LET place == IF InHardware THEN "token" ELSE "software" IN
        /\ Unborn(p)
        /\ pair' = [pair EXCEPT ![p] = [type |-> gen.type, place |-> place]]
        /\ Holds(x, Key(gen.type, p, place))
Parameters(x) == Holds(x, Blank(gen.type, TRUE)) /\ pair' = pair

rsa_gen(x) == Rsa(gen.type) /\ NewPair(x) /\ gen' = gen
luna_dsa_gen(x) ==
    /\ gen.type = "dsa" /\ gen' = gen
    /\ IF "params" \in gen.sel THEN Parameters(x) ELSE gen.params /\ NewPair(x)
ec_gen(x) ==
    /\ Ec(gen.type) /\ gen.params /\ gen' = gen
    /\ IF Selects(gen.sel, Halves) THEN NewPair(x) ELSE Parameters(x)

(* An ECX context generates one key in the token, and none after a failure. *)
ecx_gen(x) ==
    /\ Ecx(gen.type)
    /\ IF Selects(gen.sel, Halves)
       THEN /\ InHardware => gen.magic = "zero"
            /\ NewPair(x) /\ gen' = [gen EXCEPT !.magic = IF InHardware THEN "ok" ELSE @]
       ELSE Parameters(x) /\ gen' = gen
Gen(x) ==
    /\ gen # Free /\ ref' = ref
    /\ rsa_gen(x) \/ luna_dsa_gen(x) \/ ec_gen(x) \/ ecx_gen(x)

GenFails ==
    /\ gen # Free /\ Ecx(gen.type) /\ Selects(gen.sel, Halves) /\ InHardware /\ gen.magic = "zero"
    /\ gen' = [gen EXCEPT !.magic = "error"]
    /\ UNCHANGED <<obj, app, ref, pair>>

GenCleanup == gen # Free /\ gen' = Free /\ UNCHANGED <<obj, app, ref, pair>>

(* A decoder makes an object of a file or of an object of the token, with the private
   half or without. *)
Decode(x) ==
    /\ ref = None /\ ~Live(x) /\ ref' = x
    /\ \E t \in types, p \in Pairs, place \in {"token", "software"}, hint \in Halves :
          /\ IF pair[p].place = None THEN Unborn(p)
             ELSE pair[p] = [type |-> t, place |-> place]
          /\ pair' = [pair EXCEPT ![p] = [type |-> t, place |-> place]]
          /\ obj' = [obj EXCEPT ![x] = [Key(t, p, place) EXCEPT !.priv = IF hint = "pub" THEN Null ELSE @]]
    /\ UNCHANGED <<app, gen>>

Grabs(t, still) ==
    /\ ref # None /\ app' = app \cup {ref} /\ ref' = still /\ UNCHANGED <<obj, gen, pair>>

common_load_Keeps(t) == Rsa(t) /\ Grabs(t, ref) /\ obj[ref].type = t

(* The object is taken out of the reference. RSA and EC refuse one of another type. *)
common_load(t) == Rsa(t) /\ Grabs(t, None) /\ obj[ref].type = t
ec_common_load(t) == Ec(t) /\ Grabs(t, None) /\ obj[ref].type = t
luna_dsa_load(t) == t = "dsa" /\ Grabs(t, None)
ecx_load(t) == Ecx(t) /\ Grabs(t, None)

(* libcrypto tries key managements of the family, for DSA and ECX objects only the one of
   the type that the decoder names, and frees what none of them took. *)
Load ==
    \E t \in types :
        \/ common_load(t)
        \/ ec_common_load(t)
        \/ luna_dsa_load(t) /\ obj[ref].type = t
        \/ ecx_load(t) /\ obj[ref].type = t
DropRef ==
    /\ ref # None /\ ref' = None
    /\ obj' = [obj EXCEPT ![ref] = Free] /\ UNCHANGED <<app, gen, pair>>

Dup(x) ==
    /\ \E y \in app, sel \in {All, {"params", "other"}} : Holds(x, dup(obj[y], sel))
    /\ UNCHANGED <<ref, gen, pair>>

(* What one object exports another imports, each under a selection of the callers. *)
Selections == {All, Halves \cup {"params"}, {"pub", "params"}, {"priv"}, {"params", "other"}}
ExportImport(x) ==
    /\ \E y \in app, esel, isel \in Selections, found \in BOOLEAN :
          LET list == todata(obj[y], esel) IN
          /\ list # Free
          /\ \E t \in types :
                /\ t = list.type \/ (Rsa(t) /\ Rsa(list.type))
                /\ Holds(x, import(t, list, isel, found))
    /\ UNCHANGED <<ref, gen, pair>>

(* An encoded public half, which must fit the curve, is set: libssl sets that of a peer on
   a copy of the parameters, an application on any object. *)
SetPublic(x, p, priv) ==
    /\ x \in app /\ obj[x].params /\ pair[p].place # None
    /\ obj' = [obj EXCEPT ![x].pub = p, ![x].priv = priv]
    /\ joined' = joined \cup {<<q, p>> : q \in {priv.born} \ {0, p}}
    /\ UNCHANGED <<app, ref, gen, pair>>

ec_set_params_AnyCurve(x, p) == Ec(obj[x].type) /\ SetPublic(x, p, obj[x].priv)

(* An EC object keeps the private half that it has. *)
ec_set_params(x, p) ==
    Ec(obj[x].type) /\ pair[p].type = obj[x].type /\ SetPublic(x, p, obj[x].priv)

(* An X25519 object loses its private half. *)
ecx_set_params(x, p) ==
    obj[x].type = "x25519" /\ pair[p].type = "x25519" /\ SetPublic(x, p, Null)
SetEncodedPublic(x) == \E p \in Pairs : ec_set_params(x, p) \/ ecx_set_params(x, p)

FreeData(x) ==
    /\ x \in app /\ app' = app \ {x} /\ obj' = [obj EXCEPT ![x] = Free]
    /\ UNCHANGED <<ref, gen, pair>>

Next ==
    /\ types' = types
    /\ \/ \E x \in Objs : SetEncodedPublic(x)
       \/ /\ joined' = joined
          /\ \/ GenInit \/ ec_gen_set_params \/ luna_dsa_gen_set_template \/ ec_gen_set_template
             \/ GenFails \/ GenCleanup
             \/ Load \/ DropRef
             \/ \E x \in Objs : Gen(x) \/ Decode(x) \/ Dup(x) \/ ExportImport(x) \/ FreeData(x)

Spec == Init /\ [][Next]_vars
------------------------------------------------------------------------------
(* Objects are free or of a known type, and hold halves of pairs of that type; a
   template is in ECX objects only, a marker in the others. *)
TypeOK ==
    /\ types \in Families /\ app \subseteq Objs /\ ref \in Objs \cup {None}
    /\ \A x \in Objs : Live(x) =>
          /\ obj[x].type \in types /\ obj[x].params \in BOOLEAN
          /\ obj[x].pub \in Pairs \cup {NoPub, Zeros}
          /\ obj[x].pub \in Pairs =>
                LET t == pair[obj[x].pub].type IN t = obj[x].type \/ (Rsa(t) /\ Rsa(obj[x].type))
          /\ obj[x].priv.kind \in {"null", "real", IF Ecx(obj[x].type) THEN "template" ELSE "marker"}

(* Every object has one owner, libcrypto or the decoder that made it. *)
OwnedOnce == /\ ref \notin app
             /\ {x \in Objs : Live(x)} = app \cup ({ref} \ {None})

(* The guess is right: a private half that is there is used in the place where its own
   pair was made, after every copy, export and import, and also when another public half
   was set in front of it. *)
GuessIsRight ==
    \A x \in Objs : Live(x) /\ obj[x].priv # Null /\ ~Meaningless(obj[x]) =>
        /\ obj[x].priv.born \in Pairs
        /\ check_private(obj[x]) =
              IF pair[obj[x].priv.born].place = "token" THEN "hardware" ELSE "software"

(* The token is asked for the key that the public half names, and a key of the token
   passes every validation unseen. The halves of an object that is valid are of one pair
   whatever way the object came about, with one exception: over the marker of an EC key
   the application set the public half of another pair, in this object or in one it was
   made from. *)
ValidIsPair ==
    \A x \in Objs : Live(x) /\ has(obj[x], Halves) /\ validate(obj[x], Halves) =>
        LET priv == obj[x].priv IN
        \/ obj[x].pub = priv.born
        \/ obj[x].type = "ec" /\ priv.kind = "marker" /\ <<priv.born, obj[x].pub>> \in joined

(* EVP_PKEY_eq, which compares the private halves when a public one is missing, never
   takes two keys of the token for one because their markers are equal: what it takes for
   one key has a half of the same pair, or the same zeros. *)
Known(o) == {o.pub, o.priv.born} \ {NoPub}
EqSelection(a, b) == {"params"} \cup (IF has(a, {"pub"}) /\ has(b, {"pub"}) THEN {"pub"} ELSE Halves)
EqualIsSame ==
    \A x, y \in Objs :
        /\ Live(x) /\ Live(y) /\ obj[x].type = obj[y].type
        /\ match(obj[x], obj[y], EqSelection(obj[x], obj[y]))
        => Known(obj[x]) \cap Known(obj[y]) # {}
=============================================================================
