---------------------------- MODULE MCEngineKey ----------------------------
(* The private object of an RSA key is in both slots, its public object in none; DSA
   and EC keys are to be generated. *)
EXTENDS EngineKey, TLC
CONSTANTS r, d, e, t1, t2, s1, s2
MCType == r :> "rsa" @@ d :> "dsa" @@ e :> "ec"
MCFiles == r :> "real" @@ d :> "one" @@ e :> "null"
MCStored == {<<r, "priv", 0>>, <<r, "priv", 1>>}
Config1 == [token |-> TRUE, cache |-> FALSE, public |-> FALSE, hostPads |-> FALSE, ecGen |-> FALSE, rsaOnly |-> TRUE]
Config2 == [token |-> FALSE, cache |-> TRUE, public |-> TRUE, hostPads |-> TRUE, ecGen |-> TRUE, rsaOnly |-> FALSE]
MCConfigs == {Config1, Config2}
Symmetric == Permutations({t1, t2}) \cup Permutations(Sessions)
=============================================================================
