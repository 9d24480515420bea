----------------------------- MODULE StoreLoader -----------------------------
(* The store loader of the provider (lunaFileStore.c): it opens a file, a directory or
   the objects of the token with a label, and gives libcrypto one object after another.

   libcrypto (OSSL_STORE_load) asks for the end before it loads, and lets parameters be
   set only before the first load. What the application gets it frees at any time. *)
EXTENDS Integers, Sequences

CONSTANTS
    Objs,       \* key objects that exist at a time
    Entries,    \* the names in the directory, a sequence of kinds of names
    Streams     \* contents of files, sequences of Items

(* Names are hidden, plain, or begin with the hash looked for and have the extension of
   a certificate or of a revocation list. *)
NameKinds == {"hidden", "plain", "hash.0", "hash.r0"}
Expected == {"any", "cert", "crl", "key"}
Classic == {"rsa", "dsa", "ec"}
Items == Classic \cup {"cert", "ecx", "oqs", "junk"}

VARIABLES
    ldr,        \* the loader context
    held,       \* the keys libcrypto or the application will free, with their kind
    refs        \* the reference counts of the key objects
vars == <<ldr, held, refs>>

Closed == [type |-> "closed"]
Dead(o) == refs[o] = 0
NoKey == "none"
------------------------------------------------------------------------------
(* Opening. The URI is tried as it is, and without the scheme "file:" if it has one; the
   path of that scheme is absolute, and an authority must be this host. *)
Uris == {"path", "file:/path", "file:path", "file:///path", "file://host/path"}

Candidates(uri) ==
    CASE uri = "path" -> <<"as is">>
      [] uri = "file:///path" -> <<"absolute">>
      [] uri = "file:/path" -> <<"as is", "absolute">>
      [] uri = "file:path" -> <<"as is", "relative">>
      [] OTHER -> <<>>

(* The first that exists; there says what the paths are, if anything. *)
file_open(uri, there) ==
    LET c == Candidates(uri)
        Tried(i) == \A j \in 1 .. i - 1 : there[c[j]] = "nothing" /\ c[j] # "relative"
        found == {i \in DOMAIN c : Tried(i) /\ c[i] # "relative" /\ there[c[i]] # "nothing"}
    IN IF found = {} THEN "nothing" ELSE there[c[CHOOSE i \in found : TRUE]]

(* The directory context reads the first name when it is opened, and one ahead later:
   last is its position, end the end, 0 a reading that failed. *)
End == Len(Entries) + 1
file_open_dir(first) ==
    [type |-> "dir", loading |-> FALSE, last |-> first, search |-> FALSE, expect |-> "any",
     given |-> <<>>]
file_open_stream(items) ==
    [type |-> "file", loading |-> FALSE, items |-> items, decoders |-> "none"]
LUNA_FIND_CTX_new ==
    [type |-> "pkcs11", loading |-> FALSE, count |-> 0, no_more |-> FALSE, given |-> <<>>]

(* A context for the token, the directory or a file; opening the session or reading the
   directory may fail, and gives none. *)
Open ==
    /\ ldr = Closed
    /\ \/ ldr' = LUNA_FIND_CTX_new
       \/ \E uri \in Uris, there \in [{"as is", "absolute", "relative"} -> {"nothing", "dir", "file"}] :
             \/ file_open(uri, there) = "dir" /\ ldr' = file_open_dir(1)
             \/ /\ file_open(uri, there) = "file"
                /\ \E items \in Streams : ldr' = file_open_stream(items)
    /\ UNCHANGED <<held, refs>>

(* A name is searched in directories only. *)
file_set_ctx_params ==
    /\ ldr.type = "dir" /\ ~ldr.loading
    /\ \E search \in BOOLEAN, expect \in Expected :
          ldr' = [ldr EXCEPT !.search = search, !.expect = expect]
    /\ UNCHANGED <<held, refs>>
------------------------------------------------------------------------------
(* Names of the hash looked for, with the extension of the type that is expected. *)
file_name_check(name, expect) ==
    \/ name = "hash.0" /\ expect \in {"any", "cert"}
    \/ name = "hash.r0" /\ expect \in {"any", "crl"}

Accepts(l, i) == Entries[i] # "hidden" /\ (l.search => file_name_check(Entries[i], l.expect))

file_load_dir_entry_SkipsFirst(l, broken) ==
    LET ok == {i \in l.last + 1 .. Len(Entries) : Accepts(l, i)}
        i == IF ok = {} THEN Len(Entries) ELSE CHOOSE j \in ok : \A m \in ok : j <= m
        accepted == ok # {} /\ broken \notin l.last .. i - 1
    IN IF l.last = 0 THEN l
       ELSE [l EXCEPT !.last = IF broken \in l.last .. i THEN 0 ELSE i + 1,
                      !.given = IF accepted THEN Append(@, i) ELSE @]

(* Names are read until one has been accepted and the one after it is known. Reading past
   a broken name fails, also when no name has been accepted yet. *)
file_load_dir_entry(l, broken) ==
    LET ok == {i \in l.last .. Len(Entries) : Accepts(l, i)}
        i == IF ok = {} THEN Len(Entries) ELSE CHOOSE j \in ok : \A m \in ok : j <= m
        accepted == ok # {} /\ broken \notin l.last .. i - 1
    IN IF l.last = 0 THEN l
       ELSE [l EXCEPT !.last = IF broken \in l.last .. i THEN 0 ELSE i + 1,
                      !.given = IF accepted THEN Append(@, i) ELSE @]

LoadDir ==
    /\ ldr.type = "dir" /\ ldr.last # End
    /\ \E broken \in 0 .. Len(Entries) :
          ldr' = [file_load_dir_entry(ldr, broken) EXCEPT !.loading = TRUE]
    /\ UNCHANGED <<held, refs>>
------------------------------------------------------------------------------
(* What the iterator looks for next: the private key, and after that the public one. *)
LUNA_FIND_CTX_next(l) == IF l.count = 0 THEN "private" ELSE IF l.count = 1 THEN "public" ELSE NoKey

(* The key stays with the iterator, which never frees it; the reference that goes to the
   key management is another. *)
Referenced == 2

(* The key of the token is there or is not, and the key management takes the reference
   or refuses it, which loses it. *)
file_load_pkcs11_object ==
    /\ ldr.type = "pkcs11" /\ ~ldr.no_more
    /\ \/ /\ ldr' = [ldr EXCEPT !.no_more = TRUE, !.loading = TRUE]
          /\ UNCHANGED <<held, refs>>
       \/ /\ LUNA_FIND_CTX_next(ldr) # NoKey
          /\ \E o \in Objs, taken \in BOOLEAN :
                /\ Dead(o)
                /\ refs' = [refs EXCEPT ![o] = Referenced]
                /\ held' = IF taken THEN [held EXCEPT ![o] = @ + 1] ELSE held
                /\ ldr' = [ldr EXCEPT !.count = @ + 1, !.loading = TRUE,
                              !.given = IF taken THEN Append(@, LUNA_FIND_CTX_next(ldr)) ELSE @]
------------------------------------------------------------------------------
(* The decoders are set up once. A failure leaves the context behind, and the next load
   finds it and goes on without the rest. *)
file_setup_decoders(l, fails) ==
    IF l.decoders # "none" THEN l
    ELSE [l EXCEPT !.decoders = IF fails THEN "partial" ELSE "whole"]

(* How many owe a reference after libcrypto made a key of the item: libcrypto's own
   EVP_PKEY is lost with the information it is in (it is never freed), and an EVP_PKEY of
   the legacy methods takes its place. That of an Edwards or Montgomery key takes a
   reference, those of the other types take over the one there is. *)
ConstructRefs(item) == IF item = "ecx" THEN 2 ELSE 1

(* A key libcrypto knows no decoder for is decoded here and handed on as a reference,
   which the key management takes or refuses. *)
luna_store_handle_load_result(item, taken) == item = "oqs" /\ taken

file_load_construct(item, o, taken) ==
    IF item \in Classic \cup {"ecx"}
    THEN /\ refs' = [refs EXCEPT ![o] = ConstructRefs(item)]
         /\ held' = [held EXCEPT ![o] = @ + 1]
    ELSE /\ refs' = [refs EXCEPT ![o] = IF item = "oqs" THEN 1 ELSE @]
         /\ held' = [held EXCEPT ![o] = IF luna_store_handle_load_result(item, taken) THEN @ + 1 ELSE @]

(* A load decodes the next item of the stream; without all the decoders it only reads
   past it. *)
file_load_file ==
    /\ ldr.type = "file" /\ ldr.items # <<>>
    /\ \E fails \in BOOLEAN :
          LET l == file_setup_decoders(ldr, fails)
          IN IF l.decoders # ldr.decoders /\ l.decoders = "partial"
             THEN /\ ldr' = [l EXCEPT !.loading = TRUE]
                  /\ UNCHANGED <<held, refs>>
             ELSE /\ ldr' = [l EXCEPT !.loading = TRUE, !.items = Tail(@)]
                  /\ IF l.decoders = "partial" THEN UNCHANGED <<held, refs>>
                     ELSE \E o \in Objs, taken \in BOOLEAN :
                             Dead(o) /\ file_load_construct(Head(l.items), o, taken)
------------------------------------------------------------------------------
(* Closing frees the context; keys that were given out stay, and so do those of the
   iterator (a TODO of LUNA_FIND_CTX_free). *)
file_close ==
    /\ ldr # Closed /\ ldr' = Closed
    /\ UNCHANGED <<held, refs>>

FreeKey(o) ==
    /\ held[o] > 0
    /\ held' = [held EXCEPT ![o] = @ - 1] /\ refs' = [refs EXCEPT ![o] = @ - 1]
    /\ UNCHANGED ldr

Init == ldr = Closed /\ held = [o \in Objs |-> 0] /\ refs = [o \in Objs |-> 0]

Next == \/ Open \/ file_set_ctx_params \/ LoadDir \/ file_load_pkcs11_object
        \/ file_load_file \/ file_close \/ \E o \in Objs : FreeKey(o)

Spec == Init /\ [][Next]_vars

(* file_eof. *)
Eof == \/ ldr.type = "dir" /\ ldr.last = End
       \/ ldr.type = "pkcs11" /\ ldr.no_more
       \/ ldr.type = "file" /\ ldr.items = <<>>
------------------------------------------------------------------------------
(* A key has at most one holder and two references. *)
TypeOK ==
    /\ ldr.type \in {"closed", "file", "dir", "pkcs11"}
    /\ held \in [Objs -> 0 .. 1] /\ refs \in [Objs -> 0 .. 2]

(* Whoever will free a key owns one of its references: what the application loaded is
   alive until it frees it, although two EVP_PKEYs of it were made and neither the first
   one nor the keys of an iterator are ever freed. *)
HeldIsAlive == \A o \in Objs : refs[o] >= held[o]

(* A directory gives every name that is accepted once and in its order, and has come to
   its end when it has given them all, although it reads one name ahead; when it cannot be
   read on, it has left none out before the place where reading failed. The iterator of
   the token gives the private key before the public one, and neither twice. *)
Wanted(l, n) == {i \in 1 .. n : Accepts(l, i)}
Given(l) == {l.given[j] : j \in DOMAIN l.given}
InOrder(l) == \A j \in 1 .. Len(l.given) - 1 : l.given[j] < l.given[j + 1]
EachOnce ==
    /\ ldr.type = "dir" =>
          /\ InOrder(ldr)
          /\ \E n \in 0 .. Len(Entries) :
                Given(ldr) = Wanted(ldr, n) /\ (ldr.last # 0 => n = ldr.last - 1)
    /\ ldr.type = "pkcs11" =>
          ldr.given \in {<<>>, <<"private">>, <<"public">>, <<"private", "public">>}
=============================================================================
