------------------------------- MODULE MCKeys -------------------------------
(* Small instances of KeyObjects: two objects of a classic family, three keys of the oqs
   part, a directory with every kind of name, and two files. *)
EXTENDS KeyObjects, TLC

MCFamilies == {{"rsa", "rsapss"}, {"dsa"}, {"ec", "sm2"}, {"x25519", "ed25519"}}
MCHwTypes == {"rsa", "dsa", "ec", "sm2", "x25519"}
MCEntries == <<"hidden", "hash.0", "plain", "hash.r0">>
MCStreams == {<<"rsa", "junk", "ecx">>, <<"oqs", "ec">>}

Symmetry == Permutations(Objs) \cup Permutations(Keys)
=============================================================================
