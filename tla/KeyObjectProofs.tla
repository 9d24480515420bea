-------------------------- MODULE KeyObjectProofs --------------------------
(* Theorems about the key objects of the provider, KeyObjects: for any number of objects,
   keys and pairs, any families of types and any directory and files.

   The argument is made for each part by itself. A loader has given what it wanted up to
   where it stands (Complete). A private half of a classic key stands beside a public one
   and says which pair it was made for, which is the pair of the public half unless that
   was set over it (Sound). Every key of the oqs part is Whole: its buffers hold the parts
   of one pair at the places its pointers say, in each of the layouts of one part, of two,
   and composite; a public half may be missing, and then the pointers lead nowhere. *)
EXTENDS KeyObjects, WellFoundedInduction, SequenceTheorems, TLAPS

(* Every set of numbers that is not empty has a least one. *)
LEMMA Least == ASSUME NEW S0 \in SUBSET Nat, S0 # {} PROVE \E n \in S0 : \A m \in S0 : n <= m
<1> DEFINE before == {p \in Nat \X Nat : p[1] < p[2]}
<1>1. IsWellFoundedOn(before, Nat)
  BY NatLessThanWellFounded DEF OpToRel
<1> HIDE DEF before
<1>2. PICK x \in S0 : \A y \in S0 : ~ (<<y, x>> \in before)
  BY <1>1, WFMin
<1>3. \A y \in S0 : ~(y < x)
  BY <1>2 DEF before
<1> QED
  BY <1>3

-----------------------------------------------------------------------------
(* The store loader. A loader has one of four forms. *)
FileLdr == [type : {"file"}, loading : BOOLEAN, items : Seq(S!Items),
            decoders : {"none", "partial", "whole"}]
Asked == {<<>>, <<"private">>, <<"public">>, <<"private", "public">>}
AskedBy(count) == IF count = 0 THEN {<<>>} ELSE IF count = 1 THEN {<<>>, <<"private">>} ELSE Asked
TokenLdr == [type : {"pkcs11"}, loading : BOOLEAN, count : Nat, no_more : BOOLEAN,
             given : Asked]
DirLdr == [type : {"dir"}, loading : BOOLEAN, last : 0 .. S!End, search : BOOLEAN,
           expect : S!Expected, given : Seq(Nat)]

(* A directory has given the wanted names before last, in their order, or before the place
   where reading failed; until the first load, while the name may still be set, it has
   given none. *)
UpTo(l, n) == S!Given(l) = S!Wanted(l, n) /\ (l.last # 0 => n = l.last - 1)
Complete(l) ==
    /\ ~l.loading => l.last = 1 /\ l.given = <<>>
    /\ S!InOrder(l)
    /\ \E n \in 0 .. Len(Entries) : UpTo(l, n)

LdrInv == /\ ldr \in {S!Closed} \cup FileLdr \cup TokenLdr \cup DirLdr
          /\ ldr \in DirLdr => Complete(ldr)
          /\ ldr \in TokenLdr => ldr.given \in AskedBy(ldr.count)
RefInv == /\ held \in [Objs -> 0 .. 1] /\ refs \in [Objs -> 0 .. 2]
          /\ \A o \in Objs : refs[o] >= held[o]
SInv == LdrInv /\ RefInv

LEMMA StoreShapes ==
    /\ S!End \in Nat \ {0} /\ S!End = Len(Entries) + 1
    /\ \A l \in FileLdr : l.type = "file" /\ l # S!Closed
    /\ \A l \in TokenLdr : l.type = "pkcs11" /\ l # S!Closed
    /\ \A l \in DirLdr : l.type = "dir" /\ l # S!Closed
    /\ S!Closed.type = "closed"
<1>1. Len(Entries) \in Nat
  BY KeyObjectsAssumption
<1> QED
  BY <1>1 DEF S!End, S!Closed, FileLdr, TokenLdr, DirLdr

LEMMA SInit == S!Init => SInv
  BY StoreShapes DEF S!Init, SInv, LdrInv, RefInv

(* A new loader, and one whose name is set before the first load. *)
LEMMA NewDir ==
    ASSUME NEW l \in DirLdr, ~l.loading, l.last = 1, l.given = <<>>
    PROVE  Complete(l)
<1>1. S!InOrder(l)
  BY DEF S!InOrder
<1>2. S!Given(l) = {} /\ S!Wanted(l, 0) = {} /\ 0 = l.last - 1
  BY DEF S!Given, S!Wanted
<1>3. UpTo(l, 0) /\ 0 \in 0 .. Len(Entries)
  BY <1>2, KeyObjectsAssumption DEF UpTo
<1> QED
  BY <1>1, <1>3 DEF Complete

LEMMA OpenStep == ASSUME SInv, S!Open PROVE SInv'
<1>1. held' = held /\ refs' = refs
  BY DEF S!Open
<1>2. CASE ldr' = S!LUNA_FIND_CTX_new
  <2>1. ldr' \in TokenLdr /\ ldr'.given \in AskedBy(ldr'.count)
    BY <1>2 DEF S!LUNA_FIND_CTX_new, TokenLdr, Asked, AskedBy
  <2> QED
    BY <1>1, <2>1, StoreShapes DEF SInv, LdrInv, RefInv
<1>3. CASE ldr' = S!file_open_dir(1)
  <2>1. ldr' \in DirLdr /\ ~ldr'.loading /\ ldr'.last = 1 /\ ldr'.given = <<>>
    BY <1>3, StoreShapes DEF S!file_open_dir, DirLdr, S!Expected
  <2>2. Complete(ldr')
    BY <2>1, NewDir
  <2> QED
    BY <1>1, <2>1, <2>2, StoreShapes DEF SInv, LdrInv, RefInv
<1>4. CASE \E items \in Streams : ldr' = S!file_open_stream(items)
  <2>1. ldr' \in FileLdr
    BY <1>4, KeyObjectsAssumption DEF S!file_open_stream, FileLdr
  <2> QED
    BY <1>1, <2>1, StoreShapes DEF SInv, LdrInv, RefInv
<1> QED
  BY <1>2, <1>3, <1>4 DEF S!Open

LEMMA SetStep == ASSUME SInv, S!file_set_ctx_params PROVE SInv'
<1>1. ldr.type = "dir" /\ ~ldr.loading /\ held' = held /\ refs' = refs
  BY DEF S!file_set_ctx_params
<1>2. ldr \in DirLdr /\ ldr.last = 1 /\ ldr.given = <<>>
  BY <1>1, StoreShapes DEF SInv, LdrInv, Complete
<1>3. PICK search \in BOOLEAN, expect \in S!Expected :
         ldr' = [ldr EXCEPT !.search = search, !.expect = expect]
  BY DEF S!file_set_ctx_params
<1>4. ldr' \in DirLdr /\ ~ldr'.loading /\ ldr'.last = 1 /\ ldr'.given = <<>>
  BY <1>1, <1>2, <1>3 DEF DirLdr
<1>5. Complete(ldr')
  BY <1>4, NewDir
<1> QED
  BY <1>1, <1>4, <1>5, StoreShapes DEF SInv, LdrInv, RefInv

(* A name behind those that were given keeps their order. *)
LEMMA OneMore ==
    ASSUME NEW l \in DirLdr, NEW m \in DirLdr, NEW i \in Nat, m.given = Append(l.given, i),
           S!InOrder(l), S!Given(l) = S!Wanted(l, l.last - 1), i >= l.last
    PROVE  S!InOrder(m) /\ S!Given(m) = S!Given(l) \cup {i}
<1>1. /\ l.given \in Seq(Nat) /\ Len(l.given) \in Nat /\ l.last \in Nat
      /\ Len(m.given) = Len(l.given) + 1
      /\ \A j \in 1 .. Len(l.given) : m.given[j] = l.given[j]
      /\ m.given[Len(l.given) + 1] = i
      /\ DOMAIN l.given = 1 .. Len(l.given)
      /\ DOMAIN m.given = 1 .. Len(l.given) + 1
  BY StoreShapes DEF DirLdr
<1>2. ASSUME NEW j \in 1 .. Len(l.given)
      PROVE  l.given[j] \in Nat /\ l.given[j] < i
  <2>1. l.given[j] \in S!Given(l)
    BY <1>1 DEF S!Given
  <2>2. l.given[j] \in 1 .. l.last - 1
    BY <2>1 DEF S!Wanted
  <2> QED
    BY <1>1, <2>2
<1>3. ASSUME NEW j \in 1 .. Len(m.given) - 1
      PROVE  m.given[j] < m.given[j + 1]
  <2>1. CASE j = Len(l.given)
    BY <1>1, <1>2, <2>1
  <2>2. CASE j < Len(l.given)
    <3>1. j \in 1 .. Len(l.given) - 1 /\ j + 1 \in 1 .. Len(l.given)
          /\ j \in 1 .. Len(l.given)
      BY <1>1, <2>2
    <3>2. l.given[j] < l.given[j + 1]
      BY <3>1 DEF S!InOrder
    <3> QED
      BY <1>1, <3>1, <3>2
  <2> QED
    BY <1>1, <2>1, <2>2
<1>4. S!Given(m) = S!Given(l) \cup {i}
  <2> DEFINE n == Len(l.given)
  <2>1. 1 .. n + 1 = 1 .. n \cup {n + 1}
    BY <1>1
  <2>2. S!Given(m) = {m.given[j] : j \in 1 .. n \cup {n + 1}}
    BY <1>1, <2>1 DEF S!Given
  <2>3. S!Given(l) = {l.given[j] : j \in 1 .. n}
    BY <1>1 DEF S!Given
  <2> HIDE DEF n
  <2> QED
    BY <1>1, <2>2, <2>3 DEF n
<1> QED
  BY <1>3, <1>4 DEF S!InOrder

(* Names are read: those that are passed over are not wanted. *)
LEMMA DirStep == ASSUME SInv, S!LoadDir PROVE SInv'
<1>1. ldr.type = "dir" /\ ldr.last # S!End /\ held' = held /\ refs' = refs
  BY DEF S!LoadDir
<1>2. ldr \in DirLdr /\ Complete(ldr)
  BY <1>1, StoreShapes DEF SInv, LdrInv
<1>3. PICK broken \in 0 .. Len(Entries) :
         ldr' = [S!file_load_dir_entry(ldr, broken) EXCEPT !.loading = TRUE]
  BY DEF S!LoadDir
<1> DEFINE N == Len(Entries)
           ok == {i \in ldr.last .. N : S!Accepts(ldr, i)}
           i == CHOOSE j \in ok : \A m \in ok : j <= m
<1>4. N \in Nat /\ S!End = N + 1 /\ ldr.last \in 0 .. N
  BY <1>1, <1>2, StoreShapes, KeyObjectsAssumption DEF DirLdr
<1>5. PICK n0 \in 0 .. N : UpTo(ldr, n0)
  BY <1>2 DEF Complete
<1>6. ASSUME NEW l \in DirLdr, l.search = ldr.search, l.expect = ldr.expect
      PROVE  \A n : S!Wanted(l, n) = S!Wanted(ldr, n)
  BY <1>6 DEF S!Accepts, S!Wanted
(* A load that gives nothing, and ends at n. *)
<1>7. ASSUME NEW last \in 0 .. S!End, NEW n \in 0 .. N, ldr' = [ldr EXCEPT !.last = last, !.loading = TRUE],
             S!Wanted(ldr, n) = S!Given(ldr), last # 0 => n = last - 1
      PROVE  SInv'
  <2>1. /\ ldr' \in DirLdr /\ ldr'.loading /\ ldr'.given = ldr.given /\ ldr'.last = last
        /\ ldr'.search = ldr.search /\ ldr'.expect = ldr.expect
    BY <1>2, <1>7 DEF DirLdr
  <2>2. S!InOrder(ldr') /\ S!Given(ldr') = S!Given(ldr)
    BY <1>2, <2>1 DEF Complete, S!InOrder, S!Given
  <2>3. UpTo(ldr', n)
    BY <1>6, <1>7, <2>1, <2>2 DEF UpTo
  <2> QED
    BY <1>1, <2>1, <2>2, <2>3, StoreShapes DEF SInv, LdrInv, RefInv, Complete
<1>8. CASE ldr.last = 0
  <2>1. ldr' = [ldr EXCEPT !.loading = TRUE]
    BY <1>3, <1>8 DEF S!file_load_dir_entry
  <2>2. ldr' = [ldr EXCEPT !.last = 0, !.loading = TRUE]
    BY <1>2, <1>8, <2>1 DEF DirLdr
  <2>3. 0 \in 0 .. S!End
    BY StoreShapes
  <2> QED
    BY <1>5, <1>7, <2>2, <2>3 DEF UpTo
<1>9. CASE ldr.last # 0 /\ ok = {}
  <2> DEFINE last == IF broken \in ldr.last .. N THEN 0 ELSE N + 1
  <2>1. ldr' = [ldr EXCEPT !.last = last, !.loading = TRUE]
    <3>1. S!file_load_dir_entry(ldr, broken) = [ldr EXCEPT !.last = last, !.given = ldr.given]
      BY <1>2, <1>9 DEF S!file_load_dir_entry
    <3> QED
      BY <1>2, <1>3, <3>1 DEF DirLdr
  <2>2. last \in 0 .. S!End /\ N \in 0 .. N /\ (last # 0 => N = last - 1)
    BY <1>4
  <2>3. S!Wanted(ldr, N) = S!Given(ldr)
    BY <1>4, <1>5, <1>9 DEF S!Wanted, UpTo
  <2> HIDE DEF last
  <2> QED
    BY <1>7, <2>1, <2>2, <2>3
<1>10. CASE ldr.last # 0 /\ ok # {}
  <2>1. i \in ok /\ \A m \in ok : i <= m
    <3>1. ok \subseteq Nat
      BY <1>4
    <3> HIDE DEF ok
    <3>2. \E n \in ok : \A m \in ok : n <= m
      BY <1>10, <3>1, Least
    <3> QED
      BY <3>2
  <2>2. CASE broken \in ldr.last .. i - 1
    <3>1. broken \in ldr.last .. i
      BY <1>4, <2>1, <2>2
    <3>2. S!file_load_dir_entry(ldr, broken) = [ldr EXCEPT !.last = 0, !.given = ldr.given]
      BY <1>10, <2>2, <3>1 DEF S!file_load_dir_entry
    <3>3. ldr' = [ldr EXCEPT !.last = 0, !.loading = TRUE]
      BY <1>2, <1>3, <3>2 DEF DirLdr
    <3>4. 0 \in 0 .. S!End
      BY StoreShapes
    <3> QED
      BY <1>5, <1>7, <3>3, <3>4 DEF UpTo
  <2>3. CASE broken \notin ldr.last .. i - 1
    <3> DEFINE last == IF broken \in ldr.last .. i THEN 0 ELSE i + 1
    <3>1. ldr' = [[ldr EXCEPT !.last = last, !.given = Append(@, i)] EXCEPT !.loading = TRUE]
      <4> DEFINE at == IF ok = {} THEN N ELSE i
      <4>1. S!file_load_dir_entry(ldr, broken)
            = IF ldr.last = 0 THEN ldr
              ELSE [ldr EXCEPT !.last = IF broken \in ldr.last .. at THEN 0 ELSE at + 1,
                               !.given = IF ok # {} /\ broken \notin ldr.last .. at - 1
                                         THEN Append(@, at) ELSE @]
        BY DEF S!file_load_dir_entry
      <4> HIDE DEF i, ok
      <4>2. at = i
        BY <1>10
      <4> QED
        BY <1>3, <1>10, <2>3, <4>1, <4>2
    <3>2. /\ i \in ldr.last .. N /\ S!Accepts(ldr, i)
          /\ \A m \in ldr.last .. N : S!Accepts(ldr, m) => i <= m
      BY <2>1
    <3> HIDE DEF i, ok
    <3>3. last \in 0 .. S!End /\ i \in 0 .. N /\ i \in Nat /\ (last # 0 => i = last - 1)
      BY <1>4, <3>2
    <3> HIDE DEF last
    <3>4. /\ ldr' \in DirLdr /\ ldr'.loading /\ ldr'.given = Append(ldr.given, i)
          /\ ldr'.search = ldr.search /\ ldr'.expect = ldr.expect /\ ldr'.last = last
      <4>1. Append(ldr.given, i) \in Seq(Nat)
        BY <1>2, <3>3 DEF DirLdr
      <4> QED
        BY <1>2, <3>1, <3>3, <4>1 DEF DirLdr
    <3>5. S!InOrder(ldr) /\ S!Given(ldr) = S!Wanted(ldr, ldr.last - 1)
      BY <1>2, <1>5, <1>10 DEF Complete, UpTo
    <3>6. S!InOrder(ldr') /\ S!Given(ldr') = S!Given(ldr) \cup {i}
      BY <1>2, <1>4, <3>2, <3>4, <3>5, OneMore
    <3>7. S!Wanted(ldr, i) = S!Wanted(ldr, ldr.last - 1) \cup {i}
      BY <1>4, <1>10, <3>2 DEF S!Wanted
    <3>8. UpTo(ldr', i)
      BY <1>6, <3>3, <3>4, <3>5, <3>6, <3>7 DEF UpTo
    <3> QED
      BY <1>1, <3>3, <3>4, <3>6, <3>8, StoreShapes DEF SInv, LdrInv, RefInv, Complete
  <2> QED
    BY <2>2, <2>3
<1> QED
  BY <1>8, <1>9, <1>10

(* Keys are given out with the references their holders owe. *)
LEMMA Referenced ==
    ASSUME RefInv, NEW o \in Objs, S!Dead(o), NEW r \in 1 .. 2,
           refs' = [refs EXCEPT ![o] = r], held' = held \/ held' = [held EXCEPT ![o] = @ + 1]
    PROVE  RefInv'
<1>1. refs[o] = 0 /\ held[o] = 0
  BY DEF RefInv, S!Dead
<1> QED
  BY <1>1 DEF RefInv

LEMMA AppendIs == \A e : Append(<<>>, e) = <<e>> /\ \A d : Append(<<d>>, e) = <<d, e>>
<1>1. \A e : Append(<<>>, e) = <<e>>
  OBVIOUS
<1>2. ASSUME NEW d, NEW e PROVE Append(<<d>>, e) = <<d, e>>
  <2>1. <<d>> \in Seq({d, e}) /\ Len(<<d>>) = 1 /\ <<d>>[1] = d
    OBVIOUS
  <2>2. /\ Append(<<d>>, e) \in Seq({d, e}) /\ Len(Append(<<d>>, e)) = 2
        /\ Append(<<d>>, e)[1] = d /\ Append(<<d>>, e)[2] = e
    BY <2>1, AppendProperties
  <2>3. <<d, e>> \in Seq({d, e}) /\ Len(<<d, e>>) = 2 /\ <<d, e>>[1] = d /\ <<d, e>>[2] = e
    OBVIOUS
  <2>4. \A i \in 1 .. 2 : Append(<<d>>, e)[i] = <<d, e>>[i]
    BY <2>2, <2>3
  <2> QED
    BY <2>2, <2>3, <2>4, SeqEqual
<1> QED
  BY <1>1, <1>2

LEMMA TokenStep == ASSUME SInv, S!file_load_pkcs11_object PROVE SInv'
<1>1. ldr \in TokenLdr
  BY StoreShapes DEF SInv, LdrInv, S!file_load_pkcs11_object
<1>2. CASE ldr' = [ldr EXCEPT !.no_more = TRUE, !.loading = TRUE] /\ held' = held /\ refs' = refs
  <2>1. ldr' \in TokenLdr /\ ldr'.given = ldr.given /\ ldr'.count = ldr.count
    BY <1>1, <1>2 DEF TokenLdr
  <2> QED
    BY <1>1, <1>2, <2>1, StoreShapes DEF SInv, LdrInv, RefInv
<1>3. ASSUME NEW o \in Objs, NEW taken \in BOOLEAN, S!LUNA_FIND_CTX_next(ldr) # S!NoKey, S!Dead(o),
             refs' = [refs EXCEPT ![o] = S!Referenced],
             held' = IF taken THEN [held EXCEPT ![o] = @ + 1] ELSE held,
             ldr' = [ldr EXCEPT !.count = @ + 1, !.loading = TRUE,
                        !.given = IF taken THEN Append(@, S!LUNA_FIND_CTX_next(ldr)) ELSE @]
      PROVE  SInv'
  <2> DEFINE what == S!LUNA_FIND_CTX_next(ldr)
             given == IF taken THEN Append(ldr.given, what) ELSE ldr.given
             n == ldr.count + 1
  <2>1. given \in AskedBy(n) /\ n \in Nat
    <3>1. ldr.given \in AskedBy(ldr.count) /\ ldr.count \in Nat
      BY <1>1 DEF SInv, LdrInv, TokenLdr
    <3>2. CASE ldr.count = 0
      <4>1. what = "private" /\ ldr.given = <<>> /\ n = 1
        BY <3>1, <3>2 DEF S!LUNA_FIND_CTX_next, AskedBy
      <4> QED
        BY <4>1 DEF AskedBy
    <3>3. CASE ldr.count = 1
      <4>1. what = "public" /\ ldr.given \in {<<>>, <<"private">>} /\ n = 2
        BY <3>1, <3>3 DEF S!LUNA_FIND_CTX_next, AskedBy
      <4>2. \A e : Append(<<>>, e) = <<e>> /\ \A d : Append(<<d>>, e) = <<d, e>>
        BY AppendIs
      <4>3. given \in Asked
        BY <4>1, <4>2 DEF Asked
      <4> QED
        BY <4>1, <4>3 DEF AskedBy
    <3> QED
      BY <1>3, <3>1, <3>2, <3>3 DEF S!LUNA_FIND_CTX_next
  <2>2. ldr' \in TokenLdr /\ ldr'.given \in AskedBy(ldr'.count)
    <3>1. given \in Asked
      BY <2>1 DEF AskedBy, Asked
    <3>2. ldr' = [ldr EXCEPT !.count = n, !.loading = TRUE, !.given = given]
      BY <1>3
    <3> HIDE DEF given, n
    <3> QED
      BY <1>1, <2>1, <3>1, <3>2 DEF TokenLdr
  <2>3. S!Referenced \in 1 .. 2
    BY DEF S!Referenced
  <2>4. RefInv'
    BY <1>3, <2>3, Referenced DEF SInv
  <2> QED
    BY <2>2, <2>4, StoreShapes DEF SInv, LdrInv
<1> QED
  BY <1>2, <1>3 DEF S!file_load_pkcs11_object

LEMMA FileStep == ASSUME SInv, S!file_load_file PROVE SInv'
<1>1. ldr \in FileLdr /\ ldr.items # <<>>
  BY StoreShapes DEF SInv, LdrInv, S!file_load_file
<1>2. PICK fails \in BOOLEAN : LET l == S!file_setup_decoders(ldr, fails) IN
         \/ ldr' = [l EXCEPT !.loading = TRUE] /\ held' = held /\ refs' = refs
         \/ /\ ldr' = [l EXCEPT !.loading = TRUE, !.items = Tail(@)]
            /\ \/ held' = held /\ refs' = refs
               \/ \E o \in Objs, taken \in BOOLEAN :
                     S!Dead(o) /\ S!file_load_construct(Head(l.items), o, taken)
  BY DEF S!file_load_file
<1> DEFINE l == S!file_setup_decoders(ldr, fails)
<1>3. l \in FileLdr /\ l.items = ldr.items
  BY <1>1 DEF S!file_setup_decoders, FileLdr
<1> HIDE DEF l
<1>4. ldr' \in FileLdr
  <2>1. [l EXCEPT !.loading = TRUE] \in FileLdr
    BY <1>3 DEF FileLdr
  <2>2. Tail(l.items) \in Seq(S!Items)
    BY <1>1, <1>3 DEF FileLdr
  <2>3. [l EXCEPT !.loading = TRUE, !.items = Tail(@)] \in FileLdr
    BY <1>3, <2>2 DEF FileLdr
  <2> QED
    BY <1>2, <2>1, <2>3 DEF l
<1>5. ASSUME NEW o \in Objs, NEW taken \in BOOLEAN, NEW item, S!Dead(o),
             S!file_load_construct(item, o, taken)
      PROVE  RefInv'
  <2>1. CASE item \in S!Classic \cup {"ecx"}
    <3>1. refs' = [refs EXCEPT ![o] = S!ConstructRefs(item)] /\ S!ConstructRefs(item) \in 1 .. 2
      BY <1>5, <2>1 DEF S!file_load_construct, S!ConstructRefs
    <3>2. held' = [held EXCEPT ![o] = @ + 1]
      BY <1>5, <2>1 DEF S!file_load_construct
    <3>3. RefInv /\ S!Dead(o)
      BY <1>5 DEF SInv
    <3> HIDE DEF RefInv
    <3> QED
      BY <3>1, <3>2, <3>3, Referenced
  <2>2. CASE item \notin S!Classic \cup {"ecx"} /\ item = "oqs"
    <3>1. PICK r \in 1 .. 2 : refs' = [refs EXCEPT ![o] = r]
      BY <1>5, <2>2 DEF S!file_load_construct
    <3>2. held' = [held EXCEPT ![o] = IF taken THEN @ + 1 ELSE @]
      BY <1>5, <2>2 DEF S!file_load_construct, S!luna_store_handle_load_result
    <3>3. held' = held \/ held' = [held EXCEPT ![o] = @ + 1]
      BY <3>2 DEF SInv, RefInv
    <3> QED
      BY <1>5, <3>1, <3>3, Referenced DEF SInv
  <2>3. CASE item \notin S!Classic \cup {"ecx"} /\ item # "oqs"
    <3>1. refs' = [refs EXCEPT ![o] = @] /\ held' = [held EXCEPT ![o] = @]
      BY <1>5, <2>3 DEF S!file_load_construct, S!luna_store_handle_load_result
    <3> QED
      BY <3>1 DEF SInv, RefInv
  <2> QED
    BY <2>1, <2>2, <2>3
<1>6. RefInv'
  BY <1>2, <1>5 DEF SInv, RefInv
<1> QED
  BY <1>4, <1>6, StoreShapes DEF SInv, LdrInv

LEMMA SNext == ASSUME SInv, S!Next PROVE SInv'
<1>1. CASE S!file_close
  BY <1>1, StoreShapes DEF SInv, LdrInv, RefInv, S!file_close
<1>2. ASSUME NEW o \in Objs, S!FreeKey(o) PROVE SInv'
  <2>1. ldr' = ldr
    BY <1>2 DEF S!FreeKey
  <2>2. RefInv'
    BY <1>2 DEF SInv, RefInv, S!FreeKey
  <2> QED
    BY <2>1, <2>2 DEF SInv, LdrInv
<1> QED
  BY <1>1, <1>2, OpenStep, SetStep, DirStep, TokenStep, FileStep DEF S!Next

LEMMA SGives == SInv => S!TypeOK /\ S!HeldIsAlive /\ S!EachOnce
<1> SUFFICES ASSUME SInv PROVE S!TypeOK /\ S!HeldIsAlive /\ S!EachOnce
  OBVIOUS
<1>1. S!TypeOK /\ S!HeldIsAlive
  BY StoreShapes DEF SInv, LdrInv, RefInv, S!TypeOK, S!HeldIsAlive
<1>2. S!EachOnce
  BY StoreShapes DEF SInv, LdrInv, Complete, UpTo, TokenLdr, Asked, S!EachOnce
<1> QED
  BY <1>1, <1>2
-----------------------------------------------------------------------------
(* The classic families. *)
Privs == {K!Null} \cup {K!Marker(p) : p \in Pairs} \cup {K!Template(p) : p \in Pairs}
         \cup {K!Real(p) : p \in Pairs}
KeyObj == [type : K!KeyTypes, params : BOOLEAN, pub : Pairs \cup {K!NoPub, K!Zeros}, priv : Privs]
GenCtx == [type : K!KeyTypes, sel : K!Selected, params : BOOLEAN, software : BOOLEAN,
           magic : {"zero", "ok", "error"}]
Origin == [type : K!KeyTypes \cup {K!None}, place : {K!None, "token", "software"}]

(* A private half comes with a public one, and says where its pair was made. The public
   half is that of the same pair, or was put in front of it. *)
Kin(s, t) == s = t \/ (K!Rsa(s) /\ K!Rsa(t))
PrivateOf(b, t) == IF pair[b].place = "software" THEN K!Real(b)
                   ELSE IF K!Ecx(t) THEN K!Template(b) ELSE K!Marker(b)
SoundPub(o) == o.pub \in Pairs => pair[o.pub].place # K!None /\ Kin(pair[o.pub].type, o.type)
SoundPriv(o) ==
    LET b == o.priv.born IN
    /\ o.pub \in Pairs /\ b \in Pairs /\ pair[b].place # K!None
    /\ o.priv = PrivateOf(b, o.type)
    /\ o.pub = b \/ (K!Ec(o.type) /\ <<b, o.pub>> \in joined)
Sound(o) == SoundPub(o) /\ (o.priv # K!Null => SoundPriv(o))

KInv ==
    /\ types \in Families
    /\ app \subseteq Objs /\ ref \in Objs \cup {K!None} /\ ref \notin app
    /\ gen \in {K!Free} \cup GenCtx /\ (gen # K!Free => gen.type \in types)
    /\ pair \in [Pairs -> Origin]
    /\ obj \in [Objs -> {K!Free} \cup KeyObj]
    /\ \A x \in Objs : /\ obj[x] # K!Free <=> x \in app \cup {ref}
                       /\ obj[x] # K!Free => obj[x].type \in types /\ Sound(obj[x])

LEMMA KeyShapes ==
    /\ K!None \notin Objs /\ K!NoPub \notin Pairs /\ K!Zeros \notin Pairs /\ K!NoPub # K!Zeros
    /\ \A o \in KeyObj : o # K!Free /\ o.type \in K!KeyTypes /\ o.type # "free"
    /\ \A g \in GenCtx : g # K!Free
    /\ \A p \in Pairs : K!Real(p) # K!Null /\ K!Template(p) # K!Null /\ K!Marker(p) # K!Null
<1>1. K!None \notin Objs /\ K!NoPub \notin Pairs /\ K!Zeros \notin Pairs /\ K!NoPub # K!Zeros
  BY KeyObjectsAssumption DEF K!NoPub, K!Zeros
<1>2. \A o \in KeyObj : o # K!Free /\ o.type \in K!KeyTypes /\ o.type # "free"
  BY DEF KeyObj, K!Free, K!KeyTypes
<1>3. \A g \in GenCtx : g # K!Free
  BY DEF GenCtx, K!Free, K!KeyTypes
<1>4. \A p \in Pairs : K!Real(p) # K!Null /\ K!Template(p) # K!Null /\ K!Marker(p) # K!Null
  BY DEF K!Real, K!Template, K!Marker, K!Null
<1> QED
  BY <1>1, <1>2, <1>3, <1>4

(* A new pair, or parameters. *)
LEMMA KeyIs ==
    ASSUME NEW t \in K!KeyTypes, NEW p \in Pairs, NEW place
    PROVE  /\ K!Key(t, p, place) \in KeyObj
           /\ K!Key(t, p, place).type = t /\ K!Key(t, p, place).pub = p
           /\ K!Key(t, p, place).priv = IF place = "software" THEN K!Real(p)
                                       ELSE IF K!Ecx(t) THEN K!Template(p) ELSE K!Marker(p)
<1> DEFINE priv == IF place = "software" THEN K!Real(p)
                   ELSE IF K!Ecx(t) THEN K!Template(p) ELSE K!Marker(p)
<1>1. priv \in Privs
  BY DEF Privs
<1>2. K!Key(t, p, place) = [K!Blank(t, TRUE) EXCEPT !.pub = p, !.priv = priv]
  BY DEF K!Key
<1> HIDE DEF priv
<1>4. K!Key(t, p, place) = [type |-> t, params |-> TRUE, pub |-> p, priv |-> priv]
  BY <1>2 DEF K!Blank
<1>3. K!Key(t, p, place) \in KeyObj
  BY <1>1, <1>4 DEF KeyObj
<1> QED
  BY <1>3, <1>4 DEF priv

LEMMA BlankIs ==
    ASSUME NEW t \in K!KeyTypes
    PROVE  /\ K!Blank(t, TRUE) \in KeyObj /\ K!Blank(t, TRUE).type = t
           /\ K!Blank(t, TRUE).pub = K!NoPub /\ K!Blank(t, TRUE).priv = K!Null
  BY DEF K!Blank, KeyObj, Privs

(* A copy of an object, or of a part of it, under a type of its family. *)
Piece(o, c) ==
    /\ c \in KeyObj /\ Kin(o.type, c.type)
    /\ c.pub \in {o.pub, K!NoPub, K!Zeros} /\ c.priv \in {o.priv, K!Null}
    /\ c.priv # K!Null => c.pub = o.pub

LEMMA PieceIsSound ==
    ASSUME NEW o \in KeyObj, NEW c, Sound(o), Piece(o, c)
    PROVE  Sound(c)
<1>1. (K!Ecx(o.type) <=> K!Ecx(c.type)) /\ (K!Ec(o.type) <=> K!Ec(c.type))
  BY DEF Piece, Kin, K!Rsa, K!Ecx, K!Ec
<1>2. \A s : Kin(s, o.type) => Kin(s, c.type)
  BY DEF Piece, Kin
<1>3. c.pub \in Pairs => c.pub = o.pub
  BY KeyShapes DEF Piece
<1>4. c.priv # K!Null => c.priv = o.priv /\ c.pub = o.pub
  BY DEF Piece
<1> QED
  BY <1>1, <1>2, <1>3, <1>4 DEF Sound, SoundPub, SoundPriv, PrivateOf

LEMMA ListedIs ==
    ASSUME NEW o \in KeyObj, NEW sel
    PROVE  /\ K!Listed(o, sel) \in KeyObj
           /\ K!Listed(o, sel).type = o.type /\ K!Listed(o, sel).params = o.params
           /\ K!Listed(o, sel).pub = IF K!Selects(sel, K!Halves) THEN o.pub ELSE K!NoPub
           /\ K!Listed(o, sel).priv = IF "priv" \in sel THEN o.priv ELSE K!Null
           /\ "priv" \in sel => K!Selects(sel, K!Halves)
<1> DEFINE pub == IF K!Selects(sel, K!Halves) THEN o.pub ELSE K!NoPub
           priv == IF "priv" \in sel THEN o.priv ELSE K!Null
<1>1. pub \in Pairs \cup {K!NoPub, K!Zeros} /\ priv \in Privs
  BY DEF KeyObj, Privs
<1>2. K!Listed(o, sel) = [o EXCEPT !.pub = pub, !.priv = priv]
  BY DEF K!Listed
<1>3. "priv" \in sel => K!Selects(sel, K!Halves)
  BY DEF K!Selects, K!Halves
<1> HIDE DEF pub, priv
<1>4. /\ K!Listed(o, sel) \in KeyObj
      /\ K!Listed(o, sel).type = o.type /\ K!Listed(o, sel).params = o.params
      /\ K!Listed(o, sel).pub = pub /\ K!Listed(o, sel).priv = priv
  BY <1>1, <1>2 DEF KeyObj
<1> QED
  BY <1>3, <1>4 DEF pub, priv

LEMMA ParamsOf ==
    ASSUME NEW o \in KeyObj, NEW b \in BOOLEAN
    PROVE  LET c == [o EXCEPT !.params = b] IN
           c \in KeyObj /\ c.type = o.type /\ c.pub = o.pub /\ c.priv = o.priv
  BY DEF KeyObj

(* What is exported. *)
LEMMA Exported ==
    ASSUME NEW o \in KeyObj, Sound(o), NEW sel, K!todata(o, sel) # K!Free
    PROVE  Piece(o, K!todata(o, sel)) /\ K!todata(o, sel).type = o.type
<1> DEFINE list == K!Listed(o, sel)
<1>1. list \in KeyObj /\ Piece(o, list) /\ list.type = o.type /\ list.params = o.params
  BY ListedIs DEF Piece, Kin
<1>2. list.priv # K!Null => list.pub # K!NoPub
  BY <1>1, KeyShapes DEF Sound, SoundPriv, Piece
<1> HIDE DEF list
<1>3. o.type \in K!KeyTypes
  BY DEF KeyObj
<1>4. CASE K!Rsa(o.type) \/ K!Ec(o.type)
  <2>1. K!todata(o, sel) \in {K!rsa_export(o, sel), K!ec_export(o, sel)}
    BY <1>4 DEF K!todata, K!Rsa, K!Ec, K!Ecx
  <2>2. K!rsa_export(o, sel) \in {list, K!Free} /\ K!ec_export(o, sel) \in {list, K!Free}
    BY DEF K!rsa_export, K!ec_export, list
  <2> QED
    BY <1>1, <2>1, <2>2
<1>5. CASE o.type = "dsa"
  <2> DEFINE b == list.params /\ K!Selects(sel, {"params", "other"})
  <2>1. K!todata(o, sel) = K!dsa_export(o, sel)
    BY <1>5 DEF K!todata, K!Rsa, K!Ec, K!Ecx
  <2>2. K!dsa_export(o, sel) \in {[list EXCEPT !.params = b], K!Free}
    BY DEF K!dsa_export, list
  <2>3. b \in BOOLEAN
    OBVIOUS
  <2> HIDE DEF b
  <2>4. LET c == [list EXCEPT !.params = b] IN
        c \in KeyObj /\ c.type = list.type /\ c.pub = list.pub /\ c.priv = list.priv
    BY <1>1, <2>3, ParamsOf
  <2> QED
    BY <1>1, <2>1, <2>2, <2>4 DEF Piece
<1>6. CASE K!Ecx(o.type)
  <2> DEFINE pub == IF list.pub = K!NoPub THEN K!Zeros ELSE list.pub
  <2>1. K!todata(o, sel) \in {[list EXCEPT !.pub = pub], K!Free}
    BY <1>6 DEF K!todata, K!ecx_export, K!Rsa, K!Ec, K!Ecx, list
  <2>2. pub \in Pairs \cup {K!NoPub, K!Zeros}
    BY <1>1 DEF KeyObj
  <2>3. pub \in {o.pub, K!NoPub, K!Zeros} /\ (list.priv # K!Null => pub = list.pub)
    BY <1>1, <1>2 DEF Piece
  <2> HIDE DEF pub
  <2>4. LET c == [list EXCEPT !.pub = pub] IN
        c \in KeyObj /\ c.type = list.type /\ c.pub = pub /\ c.priv = list.priv
    BY <1>1, <2>2 DEF KeyObj
  <2> QED
    BY <1>1, <2>1, <2>3, <2>4 DEF Piece
<1> QED
  BY <1>3, <1>4, <1>5, <1>6 DEF K!KeyTypes, K!Rsa, K!Ec, K!Ecx

(* What is imported. *)
LEMMA ImportedIs ==
    ASSUME NEW o \in KeyObj, NEW t \in K!KeyTypes, NEW sel
    PROVE  LET c == K!Imported(t, o, sel) IN
           /\ c \in KeyObj /\ c.type = t
           /\ c.pub = IF K!Selects(sel, K!Halves) THEN o.pub ELSE K!NoPub
           /\ c.priv = IF "priv" \in sel THEN o.priv ELSE K!Null
           /\ "priv" \in sel => K!Selects(sel, K!Halves)
<1> DEFINE pub == IF K!Selects(sel, K!Halves) THEN o.pub ELSE K!NoPub
           priv == IF "priv" \in sel THEN o.priv ELSE K!Null
<1>1. pub \in Pairs \cup {K!NoPub, K!Zeros} /\ priv \in Privs
  BY DEF KeyObj, Privs
<1>2. K!Imported(t, o, sel) = [o EXCEPT !.type = t, !.pub = pub, !.priv = priv]
  BY DEF K!Imported
<1>3. "priv" \in sel => K!Selects(sel, K!Halves)
  BY DEF K!Selects, K!Halves
<1> HIDE DEF pub, priv
<1>4. /\ K!Imported(t, o, sel) \in KeyObj /\ K!Imported(t, o, sel).type = t
      /\ K!Imported(t, o, sel).pub = pub /\ K!Imported(t, o, sel).priv = priv
  BY <1>1, <1>2 DEF KeyObj
<1> QED
  BY <1>3, <1>4 DEF pub, priv

LEMMA ImportIsPiece ==
    ASSUME NEW list \in KeyObj, Sound(list), NEW t \in K!KeyTypes, Kin(list.type, t),
           NEW sel, NEW found \in BOOLEAN, K!import(t, list, sel, found) # K!Free
    PROVE  Piece(list, K!import(t, list, sel, found)) /\ K!import(t, list, sel, found).type = t
<1> DEFINE new == K!import(t, list, sel, found)
<1>1. CASE ~K!Ecx(t)
  <2>1. new = K!Imported(t, list, sel)
    BY <1>1 DEF K!import, K!rsa_import, K!dsa_import, K!ec_import, K!KeyTypes, K!Rsa, K!Ec, K!Ecx
  <2> QED
    BY <2>1, ImportedIs DEF Piece
<1>2. CASE K!Ecx(t)
  <2> DEFINE priv == IF "priv" \in sel THEN list.priv ELSE K!Null
             pub == IF list.pub # K!NoPub THEN list.pub
                    ELSE IF priv.kind = "real" THEN priv.of ELSE K!Zeros
             made == K!ecx_key_fromdata(list, priv)
  <2>1. list.type = t /\ K!Ecx(list.type)
    BY <1>2 DEF Kin, K!Rsa, K!Ecx
  <2>2. /\ list.pub # K!NoPub \/ priv # K!Null
        /\ new = K!luna_prov_ecx_public_from_private(made, found)
    BY <1>2 DEF K!import, K!ecx_import, K!Rsa, K!Ec, K!Ecx
  <2>3. list.pub # K!NoPub
    BY <2>2, KeyShapes DEF Sound, SoundPriv
  <2>4. made = [list EXCEPT !.params = TRUE, !.priv = priv, !.pub = list.pub]
    BY <2>3 DEF K!ecx_key_fromdata
  <2>5. priv \in Privs /\ priv \in {list.priv, K!Null}
    BY DEF KeyObj, Privs
  <2> HIDE DEF priv, made
  <2>6. /\ made \in KeyObj /\ made.type = list.type /\ made.pub = list.pub /\ made.priv = priv
    BY <2>4, <2>5 DEF KeyObj
  <2>7. CASE priv.kind # "template"
    <3>1. new = made
      BY <2>2, <2>6, <2>7 DEF K!luna_prov_ecx_public_from_private
    <3> QED
      BY <2>1, <2>5, <2>6, <3>1 DEF Piece, Kin
  <2>8. CASE priv.kind = "template"
    <3>1. priv = list.priv /\ list.priv # K!Null
      BY <2>5, <2>8 DEF K!Null
    <3>2. list.pub \in Pairs /\ priv = PrivateOf(list.pub, t)
      BY <2>1, <3>1 DEF Sound, SoundPriv, K!Ec, K!Ecx
    <3>3. priv = K!Template(list.pub)
      BY <2>8, <3>2 DEF PrivateOf, K!Real, K!Marker
    <3>4. new = [made EXCEPT !.pub = priv.of]
      BY <2>2, <2>6, <2>8 DEF K!luna_prov_ecx_public_from_private
    <3>5. priv.of = list.pub
      BY <3>3 DEF K!Template
    <3>6. new \in KeyObj /\ new.type = list.type /\ new.pub = list.pub /\ new.priv = priv
      BY <2>6, <3>2, <3>4, <3>5 DEF KeyObj
    <3> QED
      BY <2>1, <2>5, <3>6 DEF Piece, Kin
  <2> QED
    BY <2>7, <2>8
<1> QED
  BY <1>1, <1>2

(* What is copied: all of an object, or its parameters. *)
LEMMA Duplicated ==
    ASSUME NEW o \in KeyObj, NEW sel \in {K!All, {"params", "other"}}, K!dup(o, sel) # K!Free
    PROVE  Piece(o, K!dup(o, sel)) /\ K!dup(o, sel).type = o.type
<1> DEFINE pub == IF "pub" \in sel THEN o.pub ELSE K!NoPub
           priv == IF "priv" \in sel THEN o.priv ELSE K!Null
           c == K!Copied(o, sel)
<1>1. c = [o EXCEPT !.pub = pub, !.priv = priv]
  BY DEF K!Copied
<1>2. pub \in Pairs \cup {K!NoPub, K!Zeros} /\ priv \in Privs
  BY DEF KeyObj, Privs
<1>3. ("priv" \in sel => "pub" \in sel) /\ pub \in {o.pub, K!NoPub} /\ priv \in {o.priv, K!Null}
      /\ (priv # K!Null => pub = o.pub)
  BY DEF K!All, K!Halves
<1> HIDE DEF pub, priv
<1>4. c \in KeyObj /\ c.type = o.type /\ c.pub = pub /\ c.priv = priv
  BY <1>1, <1>2 DEF KeyObj
<1>5. Piece(o, c)
  BY <1>3, <1>4 DEF Piece, Kin
<1>6. o.type \in K!KeyTypes
  BY DEF KeyObj
<1> DEFINE b == c.params /\ "params" \in sel
<1>7. K!dup(o, sel) \in {c, [c EXCEPT !.params = b], K!Free}
  BY <1>6 DEF K!dup, K!rsa_dup, K!dsa_dup, K!ec_dup, K!ecx_dup, K!KeyTypes, K!Rsa, K!Ec, K!Ecx
<1>8. b \in BOOLEAN
  OBVIOUS
<1> HIDE DEF b, c
<1>9. LET d == [c EXCEPT !.params = b] IN
      d \in KeyObj /\ d.type = c.type /\ d.pub = c.pub /\ d.priv = c.priv
  BY <1>4, <1>8, ParamsOf
<1> QED
  BY <1>4, <1>5, <1>7, <1>9 DEF Piece

(* What every step keeps: the pairs that were made, and the objects that do not change. *)
PairsKept == /\ pair' \in [Pairs -> Origin] /\ joined \subseteq joined'
             /\ \A p \in Pairs : pair[p].place # K!None => pair'[p] = pair[p]
GenKept == gen' \in {K!Free} \cup GenCtx /\ (gen' # K!Free => gen'.type \in types)

LEMMA TypesAre == KInv => types \subseteq K!KeyTypes
  BY KeyObjectsAssumption DEF KInv

LEMMA SoundKept ==
    ASSUME KInv, PairsKept, NEW o \in KeyObj, Sound(o)
    PROVE  Sound(o)'
<1>1. o.pub \in Pairs => pair'[o.pub] = pair[o.pub]
  BY DEF Sound, SoundPub, PairsKept
<1>2. SoundPub(o)'
  BY <1>1 DEF Sound, SoundPub
<1>3. ASSUME SoundPriv(o) PROVE SoundPriv(o)'
  <2>1. pair'[o.priv.born] = pair[o.priv.born] /\ joined \subseteq joined'
    BY <1>3 DEF SoundPriv, PairsKept
  <2> QED
    BY <1>3, <2>1 DEF SoundPriv, PrivateOf
<1> QED
  BY <1>2, <1>3 DEF Sound

LEMMA KeyStep ==
    ASSUME KInv, types' = types, PairsKept, GenKept,
           app' \subseteq Objs, ref' \in Objs \cup {K!None}, ref' \notin app',
           obj' \in [Objs -> {K!Free} \cup KeyObj],
           \A x \in Objs : obj'[x] # K!Free <=> x \in app' \cup {ref'},
           \A x \in Objs : obj'[x] # K!Free =>
               \/ obj'[x] = obj[x]
               \/ obj'[x].type \in types /\ \E o : o = obj'[x] /\ Sound(o)'
    PROVE  KInv'
<1>1. ASSUME NEW x \in Objs, obj'[x] # K!Free PROVE obj'[x].type \in types /\ Sound(obj[x])'
  <2>1. CASE obj'[x] = obj[x]
    <3>1. PICK o : o = obj[x]
      OBVIOUS
    <3>2. o \in KeyObj /\ Sound(o) /\ o.type \in types
      BY <1>1, <2>1, <3>1 DEF KInv
    <3>3. Sound(o)'
      BY <3>2, SoundKept
    <3> QED
      BY <2>1, <3>1, <3>2, <3>3 DEF Sound, SoundPub, SoundPriv, PrivateOf
  <2>2. CASE obj'[x].type \in types /\ \E o : o = obj'[x] /\ Sound(o)'
    BY <2>2 DEF Sound, SoundPub, SoundPriv, PrivateOf
  <2> QED
    BY <1>1, <2>1, <2>2
<1> QED
  BY <1>1 DEF KInv, GenKept, PairsKept

LEMMA Stays == KInv => \A x \in Objs : obj[x] # K!Free => obj[x] \in KeyObj /\ Sound(obj[x])
  BY DEF KInv

(* libcrypto gets a new object. *)
LEMMA HoldStep ==
    ASSUME KInv, types' = types, PairsKept, GenKept, ref' = ref,
           NEW x \in Objs, NEW o \in KeyObj, o.type \in types, Sound(o)', K!Holds(x, o)
    PROVE  KInv'
<1>1. /\ obj[x] = K!Free /\ obj' = [obj EXCEPT ![x] = o] /\ app' = app \cup {x}
      /\ obj \in [Objs -> {K!Free} \cup KeyObj] /\ o # K!Free
  BY KeyShapes DEF KInv, K!Holds, K!Live
<1>2. x \notin app \cup {ref}
  BY <1>1 DEF KInv
<1>3. obj' \in [Objs -> {K!Free} \cup KeyObj]
  BY <1>1
<1>4. obj'[x] = o /\ \A y \in Objs : y # x => obj'[y] = obj[y]
  BY <1>1
<1>5. \A y \in Objs : obj'[y] # K!Free <=> y \in app' \cup {ref'}
  BY <1>1, <1>2, <1>4 DEF KInv
<1>6. ASSUME NEW y \in Objs, obj'[y] # K!Free
      PROVE  \/ obj'[y] = obj[y]
             \/ obj'[y].type \in types /\ \E c : c = obj'[y] /\ Sound(c)'
  <2>1. CASE y = x
    BY <1>4, <2>1
  <2> QED
    BY <1>4, <2>1
<1>7. app' \subseteq Objs /\ ref' \in Objs \cup {K!None} /\ ref' \notin app'
  BY <1>1, <1>2 DEF KInv
<1> QED
  BY <1>3, <1>5, <1>6, <1>7, KeyStep

(* Steps of the generation context alone. *)
LEMMA GenStep ==
    ASSUME KInv, types' = types, joined' = joined, GenKept, obj' = obj, app' = app, ref' = ref, pair' = pair
    PROVE  KInv'
<1>1. PairsKept
  BY DEF KInv, PairsKept
<1> QED
  BY <1>1, KeyStep DEF KInv

LEMMA GenInitStep ==
    ASSUME KInv, types' = types, joined' = joined, K!GenInit
    PROVE  KInv'
<1>1. PICK t \in types : \/ K!rsa_gen_init(t) \/ K!luna_dsa_gen_init(t) \/ K!ec_gen_init(t)
                         \/ K!sm2_gen_init(t) \/ K!ecx_gen_init(t)
  BY DEF K!GenInit
<1>2. t \in K!KeyTypes
  BY TypesAre
<1>3. ASSUME NEW sel \in K!Selected, NEW b \in BOOLEAN, NEW c \in BOOLEAN
      PROVE  [[K!GenContext(t, sel) EXCEPT !.software = b] EXCEPT !.params = c] \in GenCtx
             /\ [K!GenContext(t, sel) EXCEPT !.software = b].type = t
             /\ [K!GenContext(t, sel) EXCEPT !.params = c].type = t
             /\ K!GenContext(t, sel).type = t
             /\ [K!GenContext(t, sel) EXCEPT !.software = b] \in GenCtx
             /\ [K!GenContext(t, sel) EXCEPT !.params = c] \in GenCtx
             /\ K!GenContext(t, sel) \in GenCtx
  BY <1>2 DEF K!GenContext, GenCtx
<1>4. K!Halves \in K!Selected
  BY DEF K!Selected
<1>5. gen' \in GenCtx /\ gen'.type = t
  <2>1. CASE K!rsa_gen_init(t)
    BY <1>3, <1>4, <2>1 DEF K!rsa_gen_init
  <2>2. CASE K!luna_dsa_gen_init(t)
    BY <1>3, <2>2 DEF K!luna_dsa_gen_init
  <2>3. CASE K!ec_gen_init(t)
    BY <1>3, <2>3 DEF K!ec_gen_init
  <2>4. CASE K!sm2_gen_init(t)
    BY <1>3, <2>4 DEF K!sm2_gen_init
  <2>5. CASE K!ecx_gen_init(t)
    BY <1>3, <2>5 DEF K!ecx_gen_init
  <2> QED
    BY <1>1, <2>1, <2>2, <2>3, <2>4, <2>5
<1> QED
  BY <1>5, GenStep DEF GenKept, K!GenInit

LEMMA GenSetStep ==
    ASSUME KInv, types' = types, joined' = joined,
           K!ec_gen_set_params \/ K!luna_dsa_gen_set_template \/ K!ec_gen_set_template
           \/ K!GenFails \/ K!GenCleanup
    PROVE  KInv'
<1>1. /\ gen # K!Free /\ gen \in GenCtx /\ gen.type \in types
      /\ obj' = obj /\ app' = app /\ ref' = ref /\ pair' = pair
  BY DEF KInv, K!ec_gen_set_params, K!luna_dsa_gen_set_template, K!ec_gen_set_template,
         K!GenFails, K!GenCleanup
<1>2. \A b \in BOOLEAN : [gen EXCEPT !.params = b] \in GenCtx
                          /\ [gen EXCEPT !.params = b].type = gen.type
  BY <1>1 DEF GenCtx
<1>3. [gen EXCEPT !.magic = "error"] \in GenCtx /\ [gen EXCEPT !.magic = "error"].type = gen.type
  BY <1>1 DEF GenCtx
<1>4. \A x \in app : obj[x] \in KeyObj /\ obj[x].params \in BOOLEAN
  BY DEF KInv, KeyObj
<1>5. gen' = K!Free \/ (gen' \in GenCtx /\ gen'.type = gen.type)
  BY <1>1, <1>2, <1>3, <1>4 DEF K!ec_gen_set_params, K!luna_dsa_gen_set_template,
     K!ec_gen_set_template, K!GenFails, K!GenCleanup
<1> QED
  BY <1>1, <1>5, GenStep DEF GenKept

(* A pair is made in the token or in software, and never anew. *)
LEMMA PairMade ==
    ASSUME KInv, joined' = joined, NEW p \in Pairs, NEW t \in types,
           NEW place \in {"token", "software"},
           pair[p].place = K!None \/ pair[p] = [type |-> t, place |-> place],
           pair' = [pair EXCEPT ![p] = [type |-> t, place |-> place]]
    PROVE  /\ PairsKept /\ t \in K!KeyTypes
           /\ \A o \in KeyObj : o.type = t /\ o.pub = p
                                /\ o.priv \in {K!Null, K!Key(t, p, place).priv} => Sound(o)'
<1>1. t \in K!KeyTypes
  BY TypesAre
<1>2. pair \in [Pairs -> Origin]
  BY DEF KInv
<1>3. pair'[p] = [type |-> t, place |-> place] /\ \A q \in Pairs : q # p => pair'[q] = pair[q]
  BY <1>2
<1>4. pair' \in [Pairs -> Origin]
  BY <1>1, <1>2 DEF Origin
<1>5. PairsKept
  BY <1>3, <1>4 DEF PairsKept
<1>6. ASSUME NEW o \in KeyObj, o.type = t, o.pub = p,
             o.priv \in {K!Null, K!Key(t, p, place).priv}
      PROVE  Sound(o)'
  <2>1. pair'[o.pub].type = t /\ pair'[o.pub].place = place /\ place # K!None
    BY <1>3, <1>6 DEF K!None
  <2>2. K!Key(t, p, place).priv = IF place = "software" THEN K!Real(p)
                                  ELSE IF K!Ecx(t) THEN K!Template(p) ELSE K!Marker(p)
    BY <1>1, KeyIs
  <2> QED
    BY <1>6, <2>1, <2>2 DEF Sound, SoundPub, SoundPriv, PrivateOf, Kin, K!Real, K!Template, K!Marker
<1> QED
  BY <1>1, <1>5, <1>6

LEMMA NewPairStep ==
    ASSUME KInv, types' = types, joined' = joined, NEW x \in Objs, gen # K!Free, K!NewPair(x), ref' = ref, GenKept
    PROVE  KInv'
<1> DEFINE here == IF K!InHardware THEN "token" ELSE "software"
<1>1. PICK p \in K!Spare : /\ pair' = [pair EXCEPT ![p] = [type |-> gen.type, place |-> here]]
                           /\ K!Holds(x, K!Key(gen.type, p, here))
  BY DEF K!NewPair
<1>2. p \in Pairs /\ pair[p].place = K!None /\ gen.type \in types /\ here \in {"token", "software"}
  BY DEF K!Spare, KInv
<1>3. PICK t, place : t = gen.type /\ place = here
  OBVIOUS
<1> HIDE DEF here
<1>4. /\ t \in types /\ place \in {"token", "software"}
      /\ pair' = [pair EXCEPT ![p] = [type |-> t, place |-> place]]
      /\ K!Holds(x, K!Key(t, p, place))
  BY <1>1, <1>2, <1>3
<1>5. /\ PairsKept /\ t \in K!KeyTypes
      /\ \A o \in KeyObj : o.type = t /\ o.pub = p
                           /\ o.priv \in {K!Null, K!Key(t, p, place).priv} => Sound(o)'
  BY <1>2, <1>4, PairMade
<1>6. PICK o : o = K!Key(t, p, place)
  OBVIOUS
<1>7. o \in KeyObj /\ o.type = t /\ o.pub = p
  BY <1>2, <1>5, <1>6, KeyIs
<1>8. Sound(o)'
  BY <1>5, <1>6, <1>7
<1> QED
  BY <1>4, <1>5, <1>6, <1>7, <1>8, HoldStep

LEMMA ParametersStep ==
    ASSUME KInv, types' = types, joined' = joined, NEW x \in Objs, gen # K!Free, K!Parameters(x), ref' = ref, GenKept
    PROVE  KInv'
<1>1. PICK o : o = K!Blank(gen.type, TRUE)
  OBVIOUS
<1>2. gen.type \in types /\ gen.type \in K!KeyTypes
  BY TypesAre DEF KInv
<1>3. o \in KeyObj /\ o.type \in types /\ o.pub = K!NoPub /\ o.priv = K!Null
  BY <1>1, <1>2, BlankIs
<1>4. PairsKept /\ K!Holds(x, o)
  BY <1>1 DEF KInv, PairsKept, K!Parameters
<1>5. Sound(o)'
  BY <1>3, KeyShapes DEF Sound, SoundPub
<1> QED
  BY <1>3, <1>4, <1>5, HoldStep

LEMMA MakeStep ==
    ASSUME KInv, types' = types, joined' = joined, NEW x \in Objs, K!Gen(x)
    PROVE  KInv'
<1>1. gen # K!Free /\ gen \in GenCtx /\ gen.type \in types /\ ref' = ref
  BY DEF KInv, K!Gen
<1>2. [gen EXCEPT !.magic = "ok"] \in GenCtx /\ [gen EXCEPT !.magic = "ok"].type = gen.type
  BY <1>1 DEF GenCtx
<1>3. [gen EXCEPT !.magic = gen.magic] = gen
  BY <1>1 DEF GenCtx
<1>4. gen' \in {gen, [gen EXCEPT !.magic = "ok"], [gen EXCEPT !.magic = gen.magic]}
      /\ (K!NewPair(x) \/ K!Parameters(x))
  BY DEF K!Gen, K!rsa_gen, K!luna_dsa_gen, K!ec_gen, K!ecx_gen
<1>5. GenKept
  BY <1>1, <1>2, <1>3, <1>4 DEF GenKept
<1> QED
  BY <1>1, <1>4, <1>5, NewPairStep, ParametersStep

(* One object changes in its place. *)
LEMMA ChangeStep ==
    ASSUME KInv, types' = types, PairsKept, gen' = gen, app' = app, ref' = ref,
           NEW x \in app, NEW o \in KeyObj, o.type \in types, Sound(o)',
           obj' = [obj EXCEPT ![x] = o]
    PROVE  KInv'
<1>1. obj \in [Objs -> {K!Free} \cup KeyObj] /\ x \in Objs /\ o # K!Free /\ obj[x] # K!Free
  BY KeyShapes DEF KInv
<1>2. obj' \in [Objs -> {K!Free} \cup KeyObj]
  BY <1>1
<1>3. obj'[x] = o /\ \A y \in Objs : y # x => obj'[y] = obj[y]
  BY <1>1
<1>4. \A y \in Objs : obj'[y] # K!Free <=> y \in app' \cup {ref'}
  BY <1>1, <1>3 DEF KInv
<1>5. ASSUME NEW y \in Objs, obj'[y] # K!Free
      PROVE  \/ obj'[y] = obj[y]
             \/ obj'[y].type \in types /\ \E c : c = obj'[y] /\ Sound(c)'
  <2>1. CASE y = x
    BY <1>3, <2>1
  <2> QED
    BY <1>3, <2>1
<1>6. GenKept
  BY DEF KInv, GenKept
<1> QED
  BY <1>2, <1>4, <1>5, <1>6, KeyStep DEF KInv

(* One object is freed, by libcrypto or with its reference. *)
LEMMA FreeStep ==
    ASSUME KInv, types' = types, joined' = joined, pair' = pair, gen' = gen, NEW x \in app \cup {ref}, x # K!None,
           app' = app \ {x}, ref' = IF ref = x THEN K!None ELSE ref,
           obj' = [obj EXCEPT ![x] = K!Free]
    PROVE  KInv'
<1>1. obj \in [Objs -> {K!Free} \cup KeyObj] /\ x \in Objs
  BY DEF KInv
<1>2. obj' \in [Objs -> {K!Free} \cup KeyObj]
  BY <1>1
<1>3. obj'[x] = K!Free /\ \A y \in Objs : y # x => obj'[y] = obj[y]
  BY <1>1
<1>4. \A y \in Objs : obj'[y] # K!Free <=> y \in app' \cup {ref'}
  BY <1>1, <1>3, KeyShapes DEF KInv
<1>5. app' \subseteq Objs /\ ref' \in Objs \cup {K!None} /\ ref' \notin app'
  BY <1>1, KeyShapes DEF KInv
<1>6. GenKept /\ PairsKept
  BY DEF KInv, GenKept, PairsKept
<1>7. \A y \in Objs : obj'[y] # K!Free => obj'[y] = obj[y]
  BY <1>3
<1> QED
  BY <1>2, <1>4, <1>5, <1>6, <1>7, KeyStep

LEMMA FreesStep ==
    ASSUME KInv, types' = types, joined' = joined, K!DropRef \/ \E x \in Objs : K!FreeData(x)
    PROVE  KInv'
<1>1. CASE K!DropRef
  <2>1. /\ ref # K!None /\ ref' = K!None /\ obj' = [obj EXCEPT ![ref] = K!Free]
        /\ app' = app /\ gen' = gen /\ pair' = pair
    BY <1>1 DEF K!DropRef
  <2>2. PICK x : x = ref
    OBVIOUS
  <2>3. x \in app \cup {ref} /\ app' = app \ {x} /\ (ref' = IF ref = x THEN K!None ELSE ref)
    BY <2>1, <2>2 DEF KInv
  <2> QED
    BY <2>1, <2>2, <2>3, FreeStep
<1>2. ASSUME NEW x \in Objs, K!FreeData(x) PROVE KInv'
  <2>1. /\ x \in app /\ x # K!None /\ app' = app \ {x} /\ obj' = [obj EXCEPT ![x] = K!Free]
        /\ ref' = ref /\ gen' = gen /\ pair' = pair
    BY <1>2, KeyShapes DEF K!FreeData
  <2>2. ref' = IF ref = x THEN K!None ELSE ref
    BY <2>1 DEF KInv
  <2> QED
    BY <2>1, <2>2, FreeStep
<1> QED
  BY <1>1, <1>2

(* A decoder makes an object, which its reference holds. *)
LEMMA DecodeStep ==
    ASSUME KInv, types' = types, joined' = joined, NEW x \in Objs, K!Decode(x)
    PROVE  KInv'
<1>1. PICK t \in types, p \in Pairs, place \in {"token", "software"}, hint \in K!Halves :
          /\ IF pair[p].place = K!None THEN K!Unborn(p)
             ELSE pair[p] = [type |-> t, place |-> place]
          /\ pair' = [pair EXCEPT ![p] = [type |-> t, place |-> place]]
          /\ obj' = [obj EXCEPT ![x] = [K!Key(t, p, place) EXCEPT !.priv = IF hint = "pub" THEN K!Null ELSE @]]
  BY DEF K!Decode
<1>2. /\ ref = K!None /\ obj[x] = K!Free /\ ref' = x /\ app' = app /\ gen' = gen
      /\ obj \in [Objs -> {K!Free} \cup KeyObj]
  BY DEF K!Decode, K!Live, KInv
<1>3. /\ PairsKept /\ t \in K!KeyTypes
      /\ \A o \in KeyObj : o.type = t /\ o.pub = p
                           /\ o.priv \in {K!Null, K!Key(t, p, place).priv} => Sound(o)'
  BY <1>1, PairMade
<1> DEFINE priv == IF hint = "pub" THEN K!Null ELSE K!Key(t, p, place).priv
<1>4. PICK o : o = [K!Key(t, p, place) EXCEPT !.priv = priv]
  OBVIOUS
<1>5. K!Key(t, p, place) \in KeyObj /\ K!Key(t, p, place).type = t /\ K!Key(t, p, place).pub = p
  BY <1>3, KeyIs
<1>6. priv \in Privs /\ priv \in {K!Null, K!Key(t, p, place).priv}
  BY <1>5 DEF KeyObj, Privs
<1>7. obj' = [obj EXCEPT ![x] = o]
  BY <1>1, <1>4
<1> HIDE DEF priv
<1>8. o \in KeyObj /\ o.type = t /\ o.pub = p /\ o.priv = priv
  BY <1>4, <1>5, <1>6 DEF KeyObj
<1>9. Sound(o)' /\ o # K!Free
  BY <1>3, <1>6, <1>8, KeyShapes
<1>10. obj' \in [Objs -> {K!Free} \cup KeyObj]
  BY <1>2, <1>7, <1>8
<1>11. obj'[x] = o /\ \A y \in Objs : y # x => obj'[y] = obj[y]
  BY <1>2, <1>7
<1>12. x \notin app
  BY <1>2 DEF KInv
<1>13. \A y \in Objs : obj'[y] # K!Free <=> y \in app' \cup {ref'}
  BY <1>2, <1>9, <1>11, KeyShapes DEF KInv
<1>14. ASSUME NEW y \in Objs, obj'[y] # K!Free
       PROVE  \/ obj'[y] = obj[y]
              \/ obj'[y].type \in types /\ \E c : c = obj'[y] /\ Sound(c)'
  <2>1. CASE y = x
    BY <1>8, <1>9, <1>11, <2>1
  <2> QED
    BY <1>11, <2>1
<1>15. app' \subseteq Objs /\ ref' \in Objs \cup {K!None} /\ ref' \notin app' /\ GenKept
  BY <1>2, <1>12 DEF KInv, GenKept
<1> QED
  BY <1>3, <1>10, <1>13, <1>14, <1>15, KeyStep

(* libcrypto takes the object out of the reference. *)
LEMMA LoadStep ==
    ASSUME KInv, types' = types, joined' = joined, K!Load
    PROVE  KInv'
<1>1. /\ ref # K!None /\ app' = app \cup {ref} /\ ref' = K!None
      /\ obj' = obj /\ gen' = gen /\ pair' = pair
  BY DEF K!Load, K!common_load, K!ec_common_load, K!luna_dsa_load, K!ecx_load, K!Grabs
<1>2. GenKept /\ PairsKept
  BY <1>1 DEF KInv, GenKept, PairsKept
<1>3. app' \subseteq Objs /\ ref' \in Objs \cup {K!None} /\ ref' \notin app'
  BY <1>1, KeyShapes DEF KInv
<1>4. \A y \in Objs : obj'[y] # K!Free <=> y \in app' \cup {ref'}
  BY <1>1, KeyShapes DEF KInv
<1>5. obj' \in [Objs -> {K!Free} \cup KeyObj]
  BY <1>1 DEF KInv
<1> QED
  BY <1>1, <1>2, <1>3, <1>4, <1>5, KeyStep

LEMMA DupStep ==
    ASSUME KInv, types' = types, joined' = joined, NEW x \in Objs, K!Dup(x)
    PROVE  KInv'
<1>1. PICK y \in app, sel \in {K!All, {"params", "other"}} : K!Holds(x, K!dup(obj[y], sel))
  BY DEF K!Dup
<1>2. obj[y] \in KeyObj /\ Sound(obj[y]) /\ obj[y].type \in types
  BY KeyShapes DEF KInv
<1>3. PICK o, c : o = obj[y] /\ c = K!dup(o, sel)
  OBVIOUS
<1>4. o \in KeyObj /\ Sound(o) /\ o.type \in types /\ K!Holds(x, c) /\ c # K!Free
  BY <1>1, <1>2, <1>3 DEF K!Holds
<1>5. Piece(o, c) /\ c.type = o.type
  BY <1>3, <1>4, Duplicated
<1>6. c \in KeyObj /\ Sound(c)
  BY <1>4, <1>5, PieceIsSound DEF Piece
<1>7. /\ ref' = ref /\ PairsKept /\ GenKept
  BY DEF K!Dup, KInv, PairsKept, GenKept
<1>8. Sound(c)'
  BY <1>6, <1>7, SoundKept
<1> QED
  BY <1>4, <1>5, <1>6, <1>7, <1>8, HoldStep

LEMMA CopyStep ==
    ASSUME KInv, types' = types, joined' = joined, NEW x \in Objs, K!ExportImport(x)
    PROVE  KInv'
<1>1. PICK y \in app, esel \in K!Selections, isel \in K!Selections, found \in BOOLEAN :
          LET list == K!todata(obj[y], esel) IN
          /\ list # K!Free
          /\ \E t \in types :
                /\ t = list.type \/ (K!Rsa(t) /\ K!Rsa(list.type))
                /\ K!Holds(x, K!import(t, list, isel, found))
  BY DEF K!ExportImport
<1>2. obj[y] \in KeyObj /\ Sound(obj[y]) /\ obj[y].type \in types
  BY KeyShapes DEF KInv
<1>3. PICK o, list : o = obj[y] /\ list = K!todata(o, esel)
  OBVIOUS
<1>4. PICK t \in types : /\ t = list.type \/ (K!Rsa(t) /\ K!Rsa(list.type))
                         /\ K!Holds(x, K!import(t, list, isel, found))
  BY <1>1, <1>3
<1>5. o \in KeyObj /\ Sound(o) /\ list # K!Free
  BY <1>1, <1>2, <1>3
<1>6. Piece(o, list)
  BY <1>3, <1>5, Exported
<1>7. list \in KeyObj /\ Sound(list)
  BY <1>5, <1>6, PieceIsSound DEF Piece
<1>8. PICK c : c = K!import(t, list, isel, found)
  OBVIOUS
<1>9. K!Holds(x, c) /\ c # K!Free /\ t \in K!KeyTypes /\ Kin(list.type, t)
  BY <1>4, <1>8, TypesAre DEF K!Holds, Kin
<1>10. Piece(list, c) /\ c.type = t
  BY <1>7, <1>8, <1>9, ImportIsPiece
<1>11. c \in KeyObj /\ Sound(c)
  BY <1>7, <1>10, PieceIsSound DEF Piece
<1>12. /\ ref' = ref /\ PairsKept /\ GenKept
  BY DEF K!ExportImport, KInv, PairsKept, GenKept
<1>13. Sound(c)'
  BY <1>11, <1>12, SoundKept
<1> QED
  BY <1>9, <1>10, <1>11, <1>12, <1>13, HoldStep

(* An encoded public half is set: an EC object keeps its private half, one of X25519 loses
   it. *)
LEMMA PublicStep ==
    ASSUME KInv, types' = types, NEW x \in Objs, K!SetEncodedPublic(x)
    PROVE  KInv'
<1>1. PICK p \in Pairs : K!ec_set_params(x, p) \/ K!ecx_set_params(x, p)
  BY DEF K!SetEncodedPublic
<1>2. /\ x \in app /\ pair[p].place # K!None /\ pair[p].type = obj[x].type
      /\ app' = app /\ ref' = ref /\ gen' = gen /\ pair' = pair
      /\ joined \subseteq joined'
  BY <1>1 DEF K!ec_set_params, K!ecx_set_params, K!SetPublic
<1>3. obj[x] \in KeyObj /\ obj[x].type \in types /\ obj \in [Objs -> {K!Free} \cup KeyObj]
      /\ Sound(obj[x])
  BY <1>2, KeyShapes DEF KInv
<1>4. PICK priv : /\ priv \in {obj[x].priv, K!Null}
                  /\ obj' = [obj EXCEPT ![x].pub = p, ![x].priv = priv]
                  /\ joined' = joined \cup {<<q, p>> : q \in {priv.born} \ {0, p}}
                  /\ priv # K!Null => K!Ec(obj[x].type)
  BY <1>1 DEF K!ec_set_params, K!ecx_set_params, K!SetPublic
<1>5. PICK o : o = [[obj[x] EXCEPT !.pub = p] EXCEPT !.priv = priv]
  OBVIOUS
<1>6. priv \in Privs
  BY <1>3, <1>4 DEF KeyObj, Privs
<1>7. o \in KeyObj /\ o.type = obj[x].type /\ o.pub = p /\ o.priv = priv
  BY <1>3, <1>5, <1>6 DEF KeyObj
<1>8. PairsKept
  BY <1>2 DEF KInv, PairsKept
<1>9. SoundPub(o)'
  BY <1>2, <1>7 DEF SoundPub, Kin
<1>10. ASSUME priv # K!Null PROVE SoundPriv(o)'
  <2>1. priv = obj[x].priv /\ SoundPriv(obj[x]) /\ K!Ec(o.type)
    BY <1>3, <1>4, <1>7, <1>10 DEF Sound
  <2>2. priv.born \in Pairs /\ priv.born # 0 /\ pair[priv.born].place # K!None
        /\ priv = PrivateOf(priv.born, o.type)
    BY <1>7, <2>1, KeyObjectsAssumption DEF SoundPriv
  <2>3. p = priv.born \/ <<priv.born, p>> \in joined'
    BY <1>4, <2>2
  <2> QED
    BY <1>2, <1>7, <2>1, <2>2, <2>3 DEF SoundPriv, PrivateOf
<1>11. Sound(o)'
  BY <1>7, <1>9, <1>10 DEF Sound
<1>12. obj' = [obj EXCEPT ![x] = o] /\ o.type \in types
  BY <1>3, <1>4, <1>5, <1>7
<1> QED
  BY <1>2, <1>7, <1>8, <1>11, <1>12, ChangeStep

LEMMA KFirst == K!Init => KInv
<1> SUFFICES ASSUME K!Init PROVE KInv
  OBVIOUS
<1>1. /\ types \in Families /\ obj = [x \in Objs |-> K!Free] /\ app = {} /\ ref = K!None
      /\ gen = K!Free /\ pair = [p \in Pairs |-> [type |-> K!None, place |-> K!None]]
  BY DEF K!Init
<1>2. pair \in [Pairs -> Origin]
  BY <1>1 DEF Origin
<1> QED
  BY <1>1, <1>2, KeyShapes DEF KInv

LEMMA KNext == KInv /\ K!Next => KInv'
<1> SUFFICES ASSUME KInv, K!Next PROVE KInv'
  OBVIOUS
<1>1. types' = types
  BY DEF K!Next
<1>2. ASSUME NEW x \in Objs, K!SetEncodedPublic(x) PROVE KInv'
  BY <1>1, <1>2, PublicStep
<1>3. ASSUME joined' = joined PROVE
             /\ K!GenInit => KInv'
             /\ K!ec_gen_set_params \/ K!luna_dsa_gen_set_template \/ K!ec_gen_set_template
                \/ K!GenFails \/ K!GenCleanup => KInv'
             /\ K!Load \/ K!DropRef => KInv'
             /\ \A x \in Objs : \/ K!Gen(x) \/ K!Decode(x) \/ K!Dup(x) \/ K!ExportImport(x)
                               \/ K!FreeData(x) => KInv'
  BY <1>1, <1>3, GenInitStep, GenSetStep, LoadStep, MakeStep, DecodeStep, DupStep, CopyStep, FreesStep
<1> QED
  BY <1>2, <1>3 DEF K!Next

(* What a sound object says of itself. *)
LEMMA SoundKey ==
    ASSUME KInv, NEW o \in KeyObj, Sound(o), o.priv # K!Null
    PROVE  LET b == o.priv.born IN
           /\ o.pub \in Pairs /\ o.pub # K!NoPub
           /\ b \in Pairs /\ pair[b].place \in {"token", "software"}
           /\ o.priv.kind = IF pair[b].place = "software" THEN "real"
                            ELSE IF K!Ecx(o.type) THEN "template" ELSE "marker"
           /\ o.priv.kind = "real" => o.priv.of = b
           /\ o.pub = b \/ (K!Ec(o.type) /\ <<b, o.pub>> \in joined)
<1>1. SoundPriv(o) /\ o.pub # K!NoPub
  BY KeyShapes DEF Sound, SoundPriv
<1>2. pair[o.priv.born].place \in {"token", "software"}
  BY <1>1 DEF SoundPriv, KInv, Origin
<1>3. /\ o.priv.kind = IF pair[o.priv.born].place = "software" THEN "real"
                       ELSE IF K!Ecx(o.type) THEN "template" ELSE "marker"
      /\ o.priv.kind = "real" => o.priv.of = o.priv.born
  BY <1>1 DEF SoundPriv, PrivateOf, K!Real, K!Template, K!Marker
<1> QED
  BY <1>1, <1>2, <1>3 DEF SoundPriv

LEMMA KeyOf ==
    ASSUME KInv, NEW x \in Objs, K!Live(x)
    PROVE  obj[x] \in KeyObj /\ Sound(obj[x]) /\ obj[x].type \in types /\ obj[x].type \in K!KeyTypes
  BY KeyShapes DEF KInv, K!Live

LEMMA KTypes == KInv => K!TypeOK
<1> SUFFICES ASSUME KInv PROVE K!TypeOK
  OBVIOUS
<1>1. ASSUME NEW x \in Objs, K!Live(x)
      PROVE  /\ obj[x].type \in types /\ obj[x].params \in BOOLEAN
             /\ obj[x].pub \in Pairs \cup {K!NoPub, K!Zeros}
             /\ obj[x].pub \in Pairs =>
                   LET t == pair[obj[x].pub].type IN
                   t = obj[x].type \/ (K!Rsa(t) /\ K!Rsa(obj[x].type))
             /\ obj[x].priv.kind \in {"null", "real", IF K!Ecx(obj[x].type) THEN "template" ELSE "marker"}
  <2>1. PICK o : o = obj[x]
    OBVIOUS
  <2>2. o \in KeyObj /\ Sound(o) /\ o.type \in types
    BY <1>1, <2>1, KeyOf
  <2>3. o.priv.kind \in {"null", "real", IF K!Ecx(o.type) THEN "template" ELSE "marker"}
    <3>1. CASE o.priv = K!Null
      BY <3>1 DEF K!Null
    <3>2. CASE o.priv # K!Null
      BY <2>2, <3>2, SoundKey
    <3> QED
      BY <3>1, <3>2
  <2>4. o.params \in BOOLEAN /\ o.pub \in Pairs \cup {K!NoPub, K!Zeros}
    BY <2>2 DEF KeyObj
  <2> QED
    BY <2>1, <2>2, <2>3, <2>4 DEF Sound, SoundPub, Kin
<1> QED
  BY <1>1 DEF K!TypeOK, KInv

LEMMA KOwned == KInv => K!OwnedOnce
<1> SUFFICES ASSUME KInv PROVE K!OwnedOnce
  OBVIOUS
<1>1. \A x \in Objs : K!Live(x) <=> x \in app \cup {ref}
  BY DEF KInv, K!Live
<1>2. app \cup ({ref} \ {K!None}) \subseteq Objs /\ ref \notin app
  BY DEF KInv
<1>3. \A x \in Objs : x # K!None
  BY KeyShapes
<1> QED
  BY <1>1, <1>2, <1>3 DEF K!OwnedOnce

(* The guess, and the validation that rests on it. *)
LEMMA Guessed ==
    ASSUME KInv, NEW o \in KeyObj, Sound(o), o.priv # K!Null, ~K!Meaningless(o)
    PROVE  K!check_private(o) = IF pair[o.priv.born].place = "token" THEN "hardware" ELSE "software"
  BY SoundKey DEF K!check_private

LEMMA HasPrivate ==
    ASSUME NEW o \in KeyObj, K!has(o, K!Halves)
    PROVE  o.priv # K!Null
<1>1. o.type \in K!KeyTypes /\ "priv" \in K!Halves
  BY DEF KeyObj, K!Halves
<1>2. \/ K!has(o, K!Halves) = K!rsa_has(o, K!Halves)
      \/ K!has(o, K!Halves) = K!dsa_has(o, K!Halves)
      \/ K!has(o, K!Halves) = K!ecx_has(o, K!Halves)
  BY <1>1 DEF K!KeyTypes, K!has, K!ec_has, K!Rsa, K!Ec, K!Ecx
<1> QED
  BY <1>1, <1>2 DEF K!rsa_has, K!dsa_has, K!ecx_has

(* A key that is valid in software has the halves of one pair. *)
LEMMA Validated ==
    ASSUME KInv, NEW o \in KeyObj, Sound(o), K!has(o, K!Halves), K!validate(o, K!Halves)
    PROVE  \/ o.pub = o.priv.born
           \/ o.type = "ec" /\ o.priv.kind = "marker" /\ <<o.priv.born, o.pub>> \in joined
<1>1. /\ o.priv.kind \in {"real", IF K!Ecx(o.type) THEN "template" ELSE "marker"}
      /\ o.priv.kind = "real" => o.priv.of = o.priv.born
      /\ o.pub = o.priv.born \/ (K!Ec(o.type) /\ <<o.priv.born, o.pub>> \in joined)
  BY HasPrivate, SoundKey
<1>2. CASE o.type = "ec" /\ o.priv.kind = "real"
  <2>1. K!Pairwise(o)
    BY <1>2 DEF K!validate, K!luna_ec_validate, K!Rsa, K!Ecx, K!Halves
  <2>2. K!check_private(o) = "software"
    BY <1>2, <2>1 DEF K!Pairwise, K!Passes, K!check_private, K!Ecx
  <2> QED
    BY <1>1, <1>2, <2>1, <2>2 DEF K!Pairwise
<1>3. CASE o.type = "sm2"
  <2>1. o.priv.kind = "real" /\ o.priv.of = o.pub
    BY <1>3 DEF K!validate, K!sm2_validate, K!Rsa, K!Ecx, K!Halves
  <2> QED
    BY <1>1, <2>1
<1>4. CASE o.type = "ec" /\ o.priv.kind # "real"
  BY <1>1, <1>4 DEF K!Ecx
<1> QED
  BY <1>1, <1>2, <1>3, <1>4 DEF K!Ec

LEMMA KGuess == KInv => K!GuessIsRight /\ K!ValidIsPair
<1> SUFFICES ASSUME KInv PROVE K!GuessIsRight /\ K!ValidIsPair
  OBVIOUS
<1>1. K!GuessIsRight
  <2> SUFFICES ASSUME NEW x \in Objs, K!Live(x), obj[x].priv # K!Null, ~K!Meaningless(obj[x])
               PROVE  /\ obj[x].priv.born \in Pairs
                      /\ K!check_private(obj[x])
                            = IF pair[obj[x].priv.born].place = "token" THEN "hardware" ELSE "software"
    BY DEF K!GuessIsRight
  <2>1. PICK o : o = obj[x]
    OBVIOUS
  <2>2. o \in KeyObj /\ Sound(o)
    BY <2>1, KeyOf
  <2>3. o.priv.born \in Pairs
    BY <2>1, <2>2, SoundKey
  <2>4. K!check_private(o) = IF pair[o.priv.born].place = "token" THEN "hardware" ELSE "software"
    BY <2>1, <2>2, Guessed
  <2> QED
    BY <2>1, <2>3, <2>4
<1>2. K!ValidIsPair
  <2> SUFFICES ASSUME NEW x \in Objs, K!Live(x), K!has(obj[x], K!Halves), K!validate(obj[x], K!Halves)
               PROVE  LET priv == obj[x].priv IN
                      \/ obj[x].pub = priv.born
                      \/ obj[x].type = "ec" /\ priv.kind = "marker" /\ <<priv.born, obj[x].pub>> \in joined
    BY DEF K!ValidIsPair
  <2>1. PICK o : o = obj[x]
    OBVIOUS
  <2>2. o \in KeyObj /\ Sound(o) /\ K!has(o, K!Halves) /\ K!validate(o, K!Halves)
    BY <2>1, KeyOf
  <2>3. \/ o.pub = o.priv.born
        \/ o.type = "ec" /\ o.priv.kind = "marker" /\ <<o.priv.born, o.pub>> \in joined
    BY <2>2, Validated
  <2> QED
    BY <2>1, <2>3
<1> QED
  BY <1>1, <1>2

(* Two objects that compare equal have the same public half: one with a private half has
   a public one. *)
LEMMA Matched ==
    ASSUME KInv, NEW a \in KeyObj, NEW b \in KeyObj, Sound(a), Sound(b), a.type = b.type,
           K!match(a, b, K!EqSelection(a, b))
    PROVE  a.pub = b.pub /\ a.pub # K!NoPub
<1> DEFINE sel == K!EqSelection(a, b)
<1>1. a.type \in K!KeyTypes
  BY DEF KeyObj
<1>2. K!SameHalves(a, b, sel)
  BY <1>1 DEF K!match, K!rsa_match, K!dsa_match, K!ec_match, K!ecx_match, K!KeyTypes,
              K!Rsa, K!Ec, K!Ecx
<1>3. K!Selects(sel, K!Halves) /\ "pub" \in sel
  BY DEF K!EqSelection, K!Selects, K!Halves
<1>4. \/ a.pub # K!NoPub /\ a.pub = b.pub
      \/ a.priv # K!Null /\ b.priv # K!Null /\ (a.pub = K!NoPub \/ b.pub = K!NoPub)
  BY <1>2, <1>3 DEF K!SameHalves
<1>5. (a.priv # K!Null => a.pub # K!NoPub) /\ (b.priv # K!Null => b.pub # K!NoPub)
  BY SoundKey
<1> QED
  BY <1>4, <1>5

LEMMA KEqual == KInv => K!EqualIsSame
<1> SUFFICES ASSUME KInv, NEW x \in Objs, NEW y \in Objs, K!Live(x), K!Live(y),
                    obj[x].type = obj[y].type,
                    K!match(obj[x], obj[y], K!EqSelection(obj[x], obj[y]))
             PROVE  K!Known(obj[x]) \cap K!Known(obj[y]) # {}
  BY DEF K!EqualIsSame
<1>1. PICK a, b : a = obj[x] /\ b = obj[y]
  OBVIOUS
<1>2. a \in KeyObj /\ b \in KeyObj /\ Sound(a) /\ Sound(b)
  BY <1>1, KeyOf
<1>3. a.type = b.type /\ K!match(a, b, K!EqSelection(a, b))
  BY <1>1
<1>4. a.pub = b.pub /\ a.pub # K!NoPub
  BY <1>2, <1>3, Matched
<1>5. a.pub \in K!Known(a) \cap K!Known(b)
  BY <1>4 DEF K!Known
<1> QED
  BY <1>1, <1>5

-----------------------------------------------------------------------------
(* The oqs part: its buffers are short sequences, and what is cut from them and joined to
   them is written out. *)
LEMMA SubSeqIs ==
    ASSUME NEW s, NEW m \in Int, NEW n \in Int
    PROVE  SubSeq(s, m, n) = [i \in 1 .. (n - m + 1) |-> s[m + i - 1]]
  BY DEF SubSeq

LEMMA ConcatIs ==
    ASSUME NEW T, NEW s \in Seq(T), NEW t \in Seq(T)
    PROVE  /\ s \o t = [i \in 1 .. (Len(s) + Len(t)) |-> (s \o t)[i]]
           /\ \A i \in 1 .. (Len(s) + Len(t)) :
                  (s \o t)[i] = IF i <= Len(s) THEN s[i] ELSE t[i - Len(s)]
<1> DEFINE r == s \o t
<1>1. /\ r \in Seq(T) /\ Len(r) = Len(s) + Len(t)
      /\ \A i \in 1 .. (Len(s) + Len(t)) : r[i] = IF i <= Len(s) THEN s[i] ELSE t[i - Len(s)]
  BY ConcatProperties
<1> HIDE DEF r
<1>2. r = [i \in 1 .. Len(r) |-> r[i]]
  BY <1>1
<1> QED
  BY <1>1, <1>2 DEF r

LEMMA Tuples ==
    ASSUME NEW f, NEW n, f = [i \in 1 .. n |-> f[i]]
    PROVE  /\ n = 1 => f = <<f[1]>>
           /\ n = 2 => f = <<f[1], f[2]>>
           /\ n = 3 => f = <<f[1], f[2], f[3]>>
           /\ n = 4 => f = <<f[1], f[2], f[3], f[4]>>
           /\ n = 5 => f = <<f[1], f[2], f[3], f[4], f[5]>>
           /\ n = 6 => f = <<f[1], f[2], f[3], f[4], f[5], f[6]>>
           /\ n = 7 => f = <<f[1], f[2], f[3], f[4], f[5], f[6], f[7]>>
  OBVIOUS

(* What SubSeq cuts from a sequence. *)
LEMMA Cuts ==
    ASSUME NEW s, NEW m \in Nat, NEW n \in Nat
    PROVE  /\ n = m => SubSeq(s, m, n) = <<s[m]>>
           /\ n = m + 1 => SubSeq(s, m, n) = <<s[m], s[m + 1]>>
           /\ n = m + 2 => SubSeq(s, m, n) = <<s[m], s[m + 1], s[m + 2]>>
           /\ n = m + 3 => SubSeq(s, m, n) = <<s[m], s[m + 1], s[m + 2], s[m + 3]>>
           /\ n = m + 4 => SubSeq(s, m, n) = <<s[m], s[m + 1], s[m + 2], s[m + 3], s[m + 4]>>
           /\ n = m + 5 => SubSeq(s, m, n) = <<s[m], s[m + 1], s[m + 2], s[m + 3], s[m + 4], s[m + 5]>>
<1> DEFINE r == SubSeq(s, m, n)
<1>1. r = [i \in 1 .. (n - m + 1) |-> s[m + i - 1]]
  BY SubSeqIs
<1> HIDE DEF r
<1>2. ASSUME NEW k \in 1 .. 6, n = m + k - 1
      PROVE  r = [i \in 1 .. k |-> r[i]] /\ \A i \in 1 .. k : r[i] = s[m + i - 1]
  <2>1. n - m + 1 = k
    BY <1>2
  <2> QED
    BY <1>1, <2>1
<1>3. ASSUME n = m
      PROVE  r = <<s[m]>>
  <2>1. r = [i \in 1 .. 1 |-> r[i]]
    BY <1>2, <1>3
  <2>2. \A i \in 1 .. 1 : r[i] = s[m + i - 1]
    BY <1>2, <1>3
  <2> QED
    BY <2>1, <2>2, Tuples
<1>4. ASSUME n = m + 1
      PROVE  r = <<s[m], s[m + 1]>>
  <2>1. r = [i \in 1 .. 2 |-> r[i]]
    BY <1>2, <1>4
  <2>2. \A i \in 1 .. 2 : r[i] = s[m + i - 1]
    BY <1>2, <1>4
  <2> QED
    BY <2>1, <2>2, Tuples
<1>5. ASSUME n = m + 2
      PROVE  r = <<s[m], s[m + 1], s[m + 2]>>
  <2>1. r = [i \in 1 .. 3 |-> r[i]]
    BY <1>2, <1>5
  <2>2. \A i \in 1 .. 3 : r[i] = s[m + i - 1]
    BY <1>2, <1>5
  <2> QED
    BY <2>1, <2>2, Tuples
<1>6. ASSUME n = m + 3
      PROVE  r = <<s[m], s[m + 1], s[m + 2], s[m + 3]>>
  <2>1. r = [i \in 1 .. 4 |-> r[i]]
    BY <1>2, <1>6
  <2>2. \A i \in 1 .. 4 : r[i] = s[m + i - 1]
    BY <1>2, <1>6
  <2> QED
    BY <2>1, <2>2, Tuples
<1>7. ASSUME n = m + 4
      PROVE  r = <<s[m], s[m + 1], s[m + 2], s[m + 3], s[m + 4]>>
  <2>1. r = [i \in 1 .. 5 |-> r[i]]
    BY <1>2, <1>7
  <2>2. \A i \in 1 .. 5 : r[i] = s[m + i - 1]
    BY <1>2, <1>7
  <2> QED
    BY <2>1, <2>2, Tuples
<1>8. ASSUME n = m + 5
      PROVE  r = <<s[m], s[m + 1], s[m + 2], s[m + 3], s[m + 4], s[m + 5]>>
  <2>1. r = [i \in 1 .. 6 |-> r[i]]
    BY <1>2, <1>8
  <2>2. \A i \in 1 .. 6 : r[i] = s[m + i - 1]
    BY <1>2, <1>8
  <2> QED
    BY <2>1, <2>2, Tuples
<1> QED
  BY <1>3, <1>4, <1>5, <1>6, <1>7, <1>8 DEF r

LEMMA CutsAt ==
    ASSUME NEW s
    PROVE  /\ SubSeq(s, 1, 1) = <<s[1]>>
           /\ SubSeq(s, 3, 3) = <<s[3]>>
           /\ SubSeq(s, 4, 4) = <<s[4]>>
           /\ SubSeq(s, 6, 6) = <<s[6]>>
           /\ SubSeq(s, 7, 7) = <<s[7]>>
           /\ SubSeq(s, 1, 2) = <<s[1], s[2]>>
           /\ SubSeq(s, 2, 3) = <<s[2], s[3]>>
           /\ SubSeq(s, 3, 4) = <<s[3], s[4]>>
           /\ SubSeq(s, 4, 5) = <<s[4], s[5]>>
           /\ SubSeq(s, 5, 6) = <<s[5], s[6]>>
           /\ SubSeq(s, 2, 4) = <<s[2], s[3], s[4]>>
           /\ SubSeq(s, 3, 5) = <<s[3], s[4], s[5]>>
           /\ SubSeq(s, 1, 3) = <<s[1], s[2], s[3]>>
           /\ SubSeq(s, 1, 4) = <<s[1], s[2], s[3], s[4]>>
           /\ SubSeq(s, 1, 5) = <<s[1], s[2], s[3], s[4], s[5]>>
           /\ SubSeq(s, 1, 6) = <<s[1], s[2], s[3], s[4], s[5], s[6]>>
           /\ SubSeq(s, 2, 2) = <<s[2]>>
           /\ SubSeq(s, 4, 6) = <<s[4], s[5], s[6]>>
<1>1. SubSeq(s, 1, 1) = <<s[1]>>
  <2> DEFINE r == SubSeq(s, 1, 1)
  <2>1. r = [i \in 1 .. 1 |-> s[i + 0]]
    BY SubSeqIs
  <2> HIDE DEF r
  <2>2. r = [i \in 1 .. 1 |-> r[i]] /\ r[1] = s[1]
    BY <2>1
  <2>3. r = <<s[1]>>
    BY <2>2, Tuples
  <2> QED
    BY <2>3 DEF r
<1>2. SubSeq(s, 3, 3) = <<s[3]>>
  <2> DEFINE r == SubSeq(s, 3, 3)
  <2>1. r = [i \in 1 .. 1 |-> s[i + 2]]
    BY SubSeqIs
  <2> HIDE DEF r
  <2>2. r = [i \in 1 .. 1 |-> r[i]] /\ r[1] = s[3]
    BY <2>1
  <2>3. r = <<s[3]>>
    BY <2>2, Tuples
  <2> QED
    BY <2>3 DEF r
<1>3. SubSeq(s, 4, 4) = <<s[4]>>
  <2> DEFINE r == SubSeq(s, 4, 4)
  <2>1. r = [i \in 1 .. 1 |-> s[i + 3]]
    BY SubSeqIs
  <2> HIDE DEF r
  <2>2. r = [i \in 1 .. 1 |-> r[i]] /\ r[1] = s[4]
    BY <2>1
  <2>3. r = <<s[4]>>
    BY <2>2, Tuples
  <2> QED
    BY <2>3 DEF r
<1>4. SubSeq(s, 6, 6) = <<s[6]>>
  <2> DEFINE r == SubSeq(s, 6, 6)
  <2>1. r = [i \in 1 .. 1 |-> s[i + 5]]
    BY SubSeqIs
  <2> HIDE DEF r
  <2>2. r = [i \in 1 .. 1 |-> r[i]] /\ r[1] = s[6]
    BY <2>1
  <2>3. r = <<s[6]>>
    BY <2>2, Tuples
  <2> QED
    BY <2>3 DEF r
<1>5. SubSeq(s, 7, 7) = <<s[7]>>
  <2> DEFINE r == SubSeq(s, 7, 7)
  <2>1. r = [i \in 1 .. 1 |-> s[i + 6]]
    BY SubSeqIs
  <2> HIDE DEF r
  <2>2. r = [i \in 1 .. 1 |-> r[i]] /\ r[1] = s[7]
    BY <2>1
  <2>3. r = <<s[7]>>
    BY <2>2, Tuples
  <2> QED
    BY <2>3 DEF r
<1>6. SubSeq(s, 1, 2) = <<s[1], s[2]>>
  <2> DEFINE r == SubSeq(s, 1, 2)
  <2>1. r = [i \in 1 .. 2 |-> s[i + 0]]
    BY SubSeqIs
  <2> HIDE DEF r
  <2>2. r = [i \in 1 .. 2 |-> r[i]] /\ r[1] = s[1] /\ r[2] = s[2]
    BY <2>1
  <2>3. r = <<s[1], s[2]>>
    BY <2>2, Tuples
  <2> QED
    BY <2>3 DEF r
<1>7. SubSeq(s, 2, 3) = <<s[2], s[3]>>
  <2> DEFINE r == SubSeq(s, 2, 3)
  <2>1. r = [i \in 1 .. 2 |-> s[i + 1]]
    BY SubSeqIs
  <2> HIDE DEF r
  <2>2. r = [i \in 1 .. 2 |-> r[i]] /\ r[1] = s[2] /\ r[2] = s[3]
    BY <2>1
  <2>3. r = <<s[2], s[3]>>
    BY <2>2, Tuples
  <2> QED
    BY <2>3 DEF r
<1>8. SubSeq(s, 3, 4) = <<s[3], s[4]>>
  <2> DEFINE r == SubSeq(s, 3, 4)
  <2>1. r = [i \in 1 .. 2 |-> s[i + 2]]
    BY SubSeqIs
  <2> HIDE DEF r
  <2>2. r = [i \in 1 .. 2 |-> r[i]] /\ r[1] = s[3] /\ r[2] = s[4]
    BY <2>1
  <2>3. r = <<s[3], s[4]>>
    BY <2>2, Tuples
  <2> QED
    BY <2>3 DEF r
<1>9. SubSeq(s, 4, 5) = <<s[4], s[5]>>
  <2> DEFINE r == SubSeq(s, 4, 5)
  <2>1. r = [i \in 1 .. 2 |-> s[i + 3]]
    BY SubSeqIs
  <2> HIDE DEF r
  <2>2. r = [i \in 1 .. 2 |-> r[i]] /\ r[1] = s[4] /\ r[2] = s[5]
    BY <2>1
  <2>3. r = <<s[4], s[5]>>
    BY <2>2, Tuples
  <2> QED
    BY <2>3 DEF r
<1>10. SubSeq(s, 5, 6) = <<s[5], s[6]>>
  <2> DEFINE r == SubSeq(s, 5, 6)
  <2>1. r = [i \in 1 .. 2 |-> s[i + 4]]
    BY SubSeqIs
  <2> HIDE DEF r
  <2>2. r = [i \in 1 .. 2 |-> r[i]] /\ r[1] = s[5] /\ r[2] = s[6]
    BY <2>1
  <2>3. r = <<s[5], s[6]>>
    BY <2>2, Tuples
  <2> QED
    BY <2>3 DEF r
<1>11. SubSeq(s, 2, 4) = <<s[2], s[3], s[4]>>
  <2> DEFINE r == SubSeq(s, 2, 4)
  <2>1. r = [i \in 1 .. 3 |-> s[i + 1]]
    BY SubSeqIs
  <2> HIDE DEF r
  <2>2. r = [i \in 1 .. 3 |-> r[i]] /\ r[1] = s[2] /\ r[2] = s[3] /\ r[3] = s[4]
    BY <2>1
  <2>3. r = <<s[2], s[3], s[4]>>
    BY <2>2, Tuples
  <2> QED
    BY <2>3 DEF r
<1>12. SubSeq(s, 3, 5) = <<s[3], s[4], s[5]>>
  <2> DEFINE r == SubSeq(s, 3, 5)
  <2>1. r = [i \in 1 .. 3 |-> s[i + 2]]
    BY SubSeqIs
  <2> HIDE DEF r
  <2>2. r = [i \in 1 .. 3 |-> r[i]] /\ r[1] = s[3] /\ r[2] = s[4] /\ r[3] = s[5]
    BY <2>1
  <2>3. r = <<s[3], s[4], s[5]>>
    BY <2>2, Tuples
  <2> QED
    BY <2>3 DEF r
<1>13. SubSeq(s, 1, 3) = <<s[1], s[2], s[3]>>
  <2> DEFINE r == SubSeq(s, 1, 3)
  <2>1. r = [i \in 1 .. 3 |-> s[i + 0]]
    BY SubSeqIs
  <2> HIDE DEF r
  <2>2. r = [i \in 1 .. 3 |-> r[i]] /\ r[1] = s[1] /\ r[2] = s[2] /\ r[3] = s[3]
    BY <2>1
  <2>3. r = <<s[1], s[2], s[3]>>
    BY <2>2, Tuples
  <2> QED
    BY <2>3 DEF r
<1>14. SubSeq(s, 1, 4) = <<s[1], s[2], s[3], s[4]>>
  <2> DEFINE r == SubSeq(s, 1, 4)
  <2>1. r = [i \in 1 .. 4 |-> s[i + 0]]
    BY SubSeqIs
  <2> HIDE DEF r
  <2>2. r = [i \in 1 .. 4 |-> r[i]] /\ r[1] = s[1] /\ r[2] = s[2] /\ r[3] = s[3] /\ r[4] = s[4]
    BY <2>1
  <2>3. r = <<s[1], s[2], s[3], s[4]>>
    BY <2>2, Tuples
  <2> QED
    BY <2>3 DEF r
<1>15. SubSeq(s, 1, 5) = <<s[1], s[2], s[3], s[4], s[5]>>
  <2> DEFINE r == SubSeq(s, 1, 5)
  <2>1. r = [i \in 1 .. 5 |-> s[i + 0]]
    BY SubSeqIs
  <2> HIDE DEF r
  <2>2. r = [i \in 1 .. 5 |-> r[i]] /\ r[1] = s[1] /\ r[2] = s[2] /\ r[3] = s[3] /\ r[4] = s[4] /\ r[5] = s[5]
    BY <2>1
  <2>3. r = <<s[1], s[2], s[3], s[4], s[5]>>
    BY <2>2, Tuples
  <2> QED
    BY <2>3 DEF r
<1>16. SubSeq(s, 1, 6) = <<s[1], s[2], s[3], s[4], s[5], s[6]>>
  <2> DEFINE r == SubSeq(s, 1, 6)
  <2>1. r = [i \in 1 .. 6 |-> s[i + 0]]
    BY SubSeqIs
  <2> HIDE DEF r
  <2>2. r = [i \in 1 .. 6 |-> r[i]] /\ r[1] = s[1] /\ r[2] = s[2] /\ r[3] = s[3] /\ r[4] = s[4] /\ r[5] = s[5] /\ r[6] = s[6]
    BY <2>1
  <2>3. r = <<s[1], s[2], s[3], s[4], s[5], s[6]>>
    BY <2>2, Tuples
  <2> QED
    BY <2>3 DEF r
<1>17. SubSeq(s, 2, 2) = <<s[2]>>
  <2> DEFINE r == SubSeq(s, 2, 2)
  <2>1. r = [i \in 1 .. 1 |-> s[i + 1]]
    BY SubSeqIs
  <2> HIDE DEF r
  <2>2. r = [i \in 1 .. 1 |-> r[i]] /\ r[1] = s[2]
    BY <2>1
  <2>3. r = <<s[2]>>
    BY <2>2, Tuples
  <2> QED
    BY <2>3 DEF r
<1>18. SubSeq(s, 4, 6) = <<s[4], s[5], s[6]>>
  <2> DEFINE r == SubSeq(s, 4, 6)
  <2>1. r = [i \in 1 .. 3 |-> s[i + 3]]
    BY SubSeqIs
  <2> HIDE DEF r
  <2>2. r = [i \in 1 .. 3 |-> r[i]] /\ r[1] = s[4] /\ r[2] = s[5] /\ r[3] = s[6]
    BY <2>1
  <2>3. r = <<s[4], s[5], s[6]>>
    BY <2>2, Tuples
  <2> QED
    BY <2>3 DEF r
<1> QED
  BY <1>1, <1>2, <1>3, <1>4, <1>5, <1>6, <1>7, <1>8, <1>9, <1>10, <1>11, <1>12, <1>13, <1>14, <1>15,
     <1>16, <1>17, <1>18

(* What \o joins. *)
LEMMA Join12 ==
    ASSUME NEW a, NEW b, NEW c
    PROVE  <<a>> \o <<b, c>> = <<a, b, c>>
<1> DEFINE r == <<a>> \o <<b, c>>
           T == {a, b, c}
<1>1. <<a>> \in Seq(T) /\ <<b, c>> \in Seq(T)
  OBVIOUS
<1> HIDE DEF T
<1>2. /\ r = [i \in 1 .. 3 |-> r[i]]
      /\ r[1] = a /\ r[2] = b /\ r[3] = c
  BY <1>1, ConcatIs
<1> HIDE DEF r
<1>3. r = <<a, b, c>>
  BY <1>2, Tuples
<1> QED
  BY <1>3 DEF r

LEMMA Join13 ==
    ASSUME NEW a, NEW b, NEW c, NEW d
    PROVE  <<a>> \o <<b, c, d>> = <<a, b, c, d>>
<1> DEFINE r == <<a>> \o <<b, c, d>>
           T == {a, b, c, d}
<1>1. <<a>> \in Seq(T) /\ <<b, c, d>> \in Seq(T)
  OBVIOUS
<1> HIDE DEF T
<1>2. /\ r = [i \in 1 .. 4 |-> r[i]]
      /\ r[1] = a /\ r[2] = b /\ r[3] = c /\ r[4] = d
  BY <1>1, ConcatIs
<1> HIDE DEF r
<1>3. r = <<a, b, c, d>>
  BY <1>2, Tuples
<1> QED
  BY <1>3 DEF r

LEMMA Join21 ==
    ASSUME NEW a, NEW b, NEW c
    PROVE  <<a, b>> \o <<c>> = <<a, b, c>>
<1> DEFINE r == <<a, b>> \o <<c>>
           T == {a, b, c}
<1>1. <<a, b>> \in Seq(T) /\ <<c>> \in Seq(T)
  OBVIOUS
<1> HIDE DEF T
<1>2. /\ r = [i \in 1 .. 3 |-> r[i]]
      /\ r[1] = a /\ r[2] = b /\ r[3] = c
  BY <1>1, ConcatIs
<1> HIDE DEF r
<1>3. r = <<a, b, c>>
  BY <1>2, Tuples
<1> QED
  BY <1>3 DEF r

LEMMA Join22 ==
    ASSUME NEW a, NEW b, NEW c, NEW d
    PROVE  <<a, b>> \o <<c, d>> = <<a, b, c, d>>
<1> DEFINE r == <<a, b>> \o <<c, d>>
           T == {a, b, c, d}
<1>1. <<a, b>> \in Seq(T) /\ <<c, d>> \in Seq(T)
  OBVIOUS
<1> HIDE DEF T
<1>2. /\ r = [i \in 1 .. 4 |-> r[i]]
      /\ r[1] = a /\ r[2] = b /\ r[3] = c /\ r[4] = d
  BY <1>1, ConcatIs
<1> HIDE DEF r
<1>3. r = <<a, b, c, d>>
  BY <1>2, Tuples
<1> QED
  BY <1>3 DEF r

LEMMA Join23 ==
    ASSUME NEW a, NEW b, NEW c, NEW d, NEW e
    PROVE  <<a, b>> \o <<c, d, e>> = <<a, b, c, d, e>>
<1> DEFINE r == <<a, b>> \o <<c, d, e>>
           T == {a, b, c, d, e}
<1>1. <<a, b>> \in Seq(T) /\ <<c, d, e>> \in Seq(T)
  OBVIOUS
<1> HIDE DEF T
<1>2. /\ r = [i \in 1 .. 5 |-> r[i]]
      /\ r[1] = a /\ r[2] = b /\ r[3] = c /\ r[4] = d /\ r[5] = e
  BY <1>1, ConcatIs
<1> HIDE DEF r
<1>3. r = <<a, b, c, d, e>>
  BY <1>2, Tuples
<1> QED
  BY <1>3 DEF r

LEMMA Join32 ==
    ASSUME NEW a, NEW b, NEW c, NEW d, NEW e
    PROVE  <<a, b, c>> \o <<d, e>> = <<a, b, c, d, e>>
<1> DEFINE r == <<a, b, c>> \o <<d, e>>
           T == {a, b, c, d, e}
<1>1. <<a, b, c>> \in Seq(T) /\ <<d, e>> \in Seq(T)
  OBVIOUS
<1> HIDE DEF T
<1>2. /\ r = [i \in 1 .. 5 |-> r[i]]
      /\ r[1] = a /\ r[2] = b /\ r[3] = c /\ r[4] = d /\ r[5] = e
  BY <1>1, ConcatIs
<1> HIDE DEF r
<1>3. r = <<a, b, c, d, e>>
  BY <1>2, Tuples
<1> QED
  BY <1>3 DEF r

LEMMA Join33 ==
    ASSUME NEW a, NEW b, NEW c, NEW d, NEW e, NEW f
    PROVE  <<a, b, c>> \o <<d, e, f>> = <<a, b, c, d, e, f>>
<1> DEFINE r == <<a, b, c>> \o <<d, e, f>>
           T == {a, b, c, d, e, f}
<1>1. <<a, b, c>> \in Seq(T) /\ <<d, e, f>> \in Seq(T)
  OBVIOUS
<1> HIDE DEF T
<1>2. /\ r = [i \in 1 .. 6 |-> r[i]]
      /\ r[1] = a /\ r[2] = b /\ r[3] = c /\ r[4] = d /\ r[5] = e /\ r[6] = f
  BY <1>1, ConcatIs
<1> HIDE DEF r
<1>3. r = <<a, b, c, d, e, f>>
  BY <1>2, Tuples
<1> QED
  BY <1>3 DEF r

LEMMA Join51 ==
    ASSUME NEW a, NEW b, NEW c, NEW d, NEW e, NEW f
    PROVE  <<a, b, c, d, e>> \o <<f>> = <<a, b, c, d, e, f>>
<1> DEFINE r == <<a, b, c, d, e>> \o <<f>>
           T == {a, b, c, d, e, f}
<1>1. <<a, b, c, d, e>> \in Seq(T) /\ <<f>> \in Seq(T)
  OBVIOUS
<1> HIDE DEF T
<1>2. /\ r = [i \in 1 .. 6 |-> r[i]]
      /\ r[1] = a /\ r[2] = b /\ r[3] = c /\ r[4] = d /\ r[5] = e /\ r[6] = f
  BY <1>1, ConcatIs
<1> HIDE DEF r
<1>3. r = <<a, b, c, d, e, f>>
  BY <1>2, Tuples
<1> QED
  BY <1>3 DEF r

LEMMA Join61 ==
    ASSUME NEW a, NEW b, NEW c, NEW d, NEW e, NEW f, NEW g
    PROVE  <<a, b, c, d, e, f>> \o <<g>> = <<a, b, c, d, e, f, g>>
<1> DEFINE r == <<a, b, c, d, e, f>> \o <<g>>
           T == {a, b, c, d, e, f, g}
<1>1. <<a, b, c, d, e, f>> \in Seq(T) /\ <<g>> \in Seq(T)
  OBVIOUS
<1> HIDE DEF T
<1>2. /\ r = [i \in 1 .. 7 |-> r[i]]
      /\ r[1] = a /\ r[2] = b /\ r[3] = c /\ r[4] = d /\ r[5] = e /\ r[6] = f /\ r[7] = g
  BY <1>1, ConcatIs
<1> HIDE DEF r
<1>3. r = <<a, b, c, d, e, f, g>>
  BY <1>2, Tuples
<1> QED
  BY <1>3 DEF r

(* The cells of a pair, and the buffers of its halves: the space of a short private half of
   RSA keys ends with a zero. *)
C(p, i) == <<"cpub", p, i>>
D(p, i) == <<"cpriv", p, i>>
Q(p) == <<"qpub", p, 1>>
E(p, i) == <<"qpriv", p, i>>
Z == <<"zero", 0, 0>>
Short(p) == O!Actual("cpriv", p) = 2
PubBuf(p) ==
    IF O!Single THEN <<Q(p)>>
    ELSE IF O!Hybrid THEN <<O!Length(2), C(p, 1), C(p, 2), Q(p)>>
    ELSE <<Q(p), C(p, 1), C(p, 2)>>
PrivBuf(p) ==
    IF O!Single THEN <<E(p, 1), E(p, 2)>>
    ELSE IF O!Hybrid
    THEN IF Short(p) THEN <<O!Length(2), D(p, 1), D(p, 2), E(p, 1), E(p, 2), Z>>
         ELSE <<O!Length(3), D(p, 1), D(p, 2), D(p, 3), E(p, 1), E(p, 2)>>
    ELSE <<E(p, 1), E(p, 2), D(p, 1), D(p, 2), IF Short(p) THEN Z ELSE D(p, 3)>>
PrivBufs(p) == {PrivBuf(p)} \cup (IF O!Composite THEN {} ELSE {PrivBuf(p) \o <<Z>>})
PubAt == IF O!Single THEN <<1, 0>> ELSE IF O!Hybrid THEN <<2, 4>> ELSE <<1, 2>>
PrivAt(p) ==
    IF O!Single THEN <<1, 0>>
    ELSE IF O!Hybrid THEN <<2, IF Short(p) THEN 4 ELSE 5>> ELSE <<1, 3>>

(* A key is whole: its halves, where they are there, are those of its pair, and the pointers
   lead to their parts. The public half is missing after a private half was imported
   alone; a key share that is set then stays out of reach of the pointers. *)
KeyRecord(p, pub, priv, pat, at, evp, n) ==
    [of |-> p, pub |-> pub, priv |-> priv, comp_pub |-> pat, comp_priv |-> at,
     classical |-> evp, cmplen |-> n]
HasPublic(k) == k.pub = PubBuf(k.of) /\ k.comp_pub = PubAt
LacksPublic(k) ==
    \/ k.pub = O!Null /\ (k.comp_pub = <<0, 0>> \/ (~O!Single /\ k.comp_pub = <<O!Stray, 0>>))
    \/ /\ O!Kem /\ O!Single /\ k.priv = O!Null
       /\ k.pub = PubBuf(k.of) /\ k.comp_pub = <<0, 0>>
Whole(k) ==
    /\ k.of \in Pairs
    /\ k = KeyRecord(k.of, k.pub, k.priv, k.comp_pub, k.comp_priv, k.classical, k.cmplen)
    /\ HasPublic(k) \/ LacksPublic(k)
    /\ k.priv # O!Null => k.priv \in PrivBufs(k.of) /\ k.comp_priv = PrivAt(k.of)
    /\ k.classical.of \in Pairs \cup {0} /\ (~O!Kem /\ ~O!Single => k.classical.of = k.of)
    /\ k.cmplen \in 1 .. 3 /\ (~O!Rsa => k.cmplen = 3)
OInv == /\ alg \in O!Algs /\ key = [x \in Keys |-> key[x]]
        /\ \A x \in Keys : key[x] = O!Free \/ Whole(key[x])

LEMMA Sizes ==
    /\ O!PartSize["cpub"] = 2 /\ O!PartSize["cpriv"] = 3
    /\ O!PartSize["qpub"] = 1 /\ O!PartSize["qpriv"] = 2
    /\ O!Single => /\ O!pubkeylen = 1 /\ O!privkeylen = 2 /\ O!Pq = 1
                   /\ ~O!Hybrid /\ ~O!Composite /\ ~O!Rsa /\ ~O!Reversed
    /\ O!Hybrid => /\ O!pubkeylen = 4 /\ O!privkeylen = 6 /\ O!Pq = 2 /\ O!Classic = 1
                   /\ ~O!Single /\ ~O!Composite
    /\ O!Composite => /\ O!pubkeylen = 3 /\ O!privkeylen = 5 /\ O!Pq = 1 /\ O!Classic = 2
                      /\ ~O!Single /\ ~O!Hybrid /\ ~O!Kem /\ ~O!Reversed
    /\ O!Single \/ O!Hybrid \/ O!Composite
    /\ O!Reversed => O!Kem
    /\ O!Kem => ~O!Rsa
    /\ O!LengthSize = 1
<1>1. /\ O!PartSize["cpub"] = 2 /\ O!PartSize["cpriv"] = 3
      /\ O!PartSize["qpub"] = 1 /\ O!PartSize["qpriv"] = 2 /\ O!LengthSize = 1
  BY DEF O!PartSize, O!LengthSize
<1>2. /\ O!Single => ~O!Hybrid /\ ~O!Composite /\ ~O!Rsa /\ ~O!Reversed
      /\ O!Hybrid => ~O!Single /\ ~O!Composite
      /\ O!Composite => ~O!Single /\ ~O!Hybrid /\ ~O!Kem /\ ~O!Reversed
      /\ O!Single \/ O!Hybrid \/ O!Composite
      /\ (O!Reversed => O!Kem) /\ (O!Kem => ~O!Rsa)
  BY DEF O!Single, O!Hybrid, O!Composite, O!Rsa, O!Reversed, O!Kem
<1>3. O!Single => O!pubkeylen = 1 /\ O!privkeylen = 2 /\ O!Pq = 1
  BY <1>1, <1>2 DEF O!pubkeylen, O!privkeylen, O!Size, O!Pq
<1>4. O!Hybrid => O!pubkeylen = 4 /\ O!privkeylen = 6 /\ O!Pq = 2 /\ O!Classic = 1
  BY <1>1, <1>2 DEF O!pubkeylen, O!privkeylen, O!Size, O!Pq, O!Classic
<1>5. O!Composite => O!pubkeylen = 3 /\ O!privkeylen = 5 /\ O!Pq = 1 /\ O!Classic = 2
  BY <1>1, <1>2 DEF O!pubkeylen, O!privkeylen, O!Size, O!Pq, O!Classic
<1> QED
  BY <1>1, <1>2, <1>3, <1>4, <1>5

LEMMA Parts ==
    ASSUME NEW p \in Pairs
    PROVE  /\ O!Actual("cpub", p) = 2 /\ O!Actual("qpub", p) = 1 /\ O!Actual("qpriv", p) = 2
           /\ O!Actual("cpriv", p) = IF Short(p) THEN 2 ELSE 3
           /\ ~O!Rsa => ~Short(p)
           /\ O!Part("cpub", p) = <<C(p, 1), C(p, 2)>> /\ O!Part("qpub", p) = <<Q(p)>>
           /\ O!Part("qpriv", p) = <<E(p, 1), E(p, 2)>>
           /\ O!Part("cpriv", p) = IF Short(p) THEN <<D(p, 1), D(p, 2)>> ELSE <<D(p, 1), D(p, 2), D(p, 3)>>
<1>1. p \in Nat /\ p % 2 \in 0 .. 1
  BY KeyObjectsAssumption
<1>2. /\ O!Actual("cpub", p) = 2 /\ O!Actual("qpub", p) = 1 /\ O!Actual("qpriv", p) = 2
      /\ O!Actual("cpriv", p) \in {2, 3} /\ (~O!Rsa => O!Actual("cpriv", p) = 3)
  BY <1>1, Sizes DEF O!Actual
<1>3. O!Part("cpub", p) = <<C(p, 1), C(p, 2)>>
  BY <1>2 DEF O!Part, C
<1>4. O!Part("qpub", p) = <<Q(p)>>
  BY <1>2 DEF O!Part, Q
<1>5. O!Part("qpriv", p) = <<E(p, 1), E(p, 2)>>
  BY <1>2 DEF O!Part, E
<1>6. Short(p) => O!Part("cpriv", p) = <<D(p, 1), D(p, 2)>>
  BY <1>2 DEF O!Part, D, Short
<1>7. O!Actual("cpriv", p) = 3 => O!Part("cpriv", p) = <<D(p, 1), D(p, 2), D(p, 3)>>
  BY <1>2 DEF O!Part, D
<1> QED
  BY <1>2, <1>3, <1>4, <1>5, <1>6, <1>7 DEF Short

(* A part that is in a buffer is the only one that begins at its place. *)
LEMMA HoldsIs ==
    ASSUME NEW p \in Pairs, NEW kind \in {"cpub", "cpriv", "qpub", "qpriv"},
           NEW buf, NEW at \in Nat, 1 <= at, at + O!Actual(kind, p) - 1 <= Len(buf),
           O!Slice(buf, at, O!Actual(kind, p)) = O!Part(kind, p)
    PROVE  O!Holds(buf, at, kind) = p
<1>1. ASSUME NEW q \in Pairs, O!Slice(buf, at, O!Actual(kind, q)) = O!Part(kind, q)
      PROVE  buf[at] = <<kind, q, 1>>
  <2>1. O!Actual(kind, q) \in 1 .. 3
    BY Parts
  <2>2. O!Part(kind, q)[1] = <<kind, q, 1>>
    BY <2>1 DEF O!Part
  <2>3. O!Slice(buf, at, O!Actual(kind, q))
          = [i \in 1 .. (at + O!Actual(kind, q) - 1 - at + 1) |-> buf[at + i - 1]]
    BY <2>1, SubSeqIs DEF O!Slice
  <2>4. O!Slice(buf, at, O!Actual(kind, q))[1] = buf[at]
    BY <2>1, <2>3
  <2> QED
    BY <1>1, <2>2, <2>4
<1> DEFINE ps == {q \in Pairs : /\ at >= 1 /\ at + O!Actual(kind, q) - 1 <= Len(buf)
                                /\ O!Slice(buf, at, O!Actual(kind, q)) = O!Part(kind, q)}
<1>2. p \in ps
  OBVIOUS
<1>3. \A q \in ps : q = p
  <2> SUFFICES ASSUME NEW q \in ps PROVE q = p
    OBVIOUS
  <2>1. buf[at] = <<kind, q, 1>>
    BY <1>1
  <2>2. buf[at] = <<kind, p, 1>>
    BY <1>1
  <2> QED
    BY <2>1, <2>2
<1>4. O!Holds(buf, at, kind) = IF ps = {} THEN 0 ELSE CHOOSE q \in ps : TRUE
  BY DEF O!Holds
<1> HIDE DEF ps
<1> QED
  BY <1>2, <1>3, <1>4

LEMMA HoldsEach ==
    ASSUME NEW p \in Pairs, NEW buf, NEW at \in Nat, 1 <= at, Len(buf) \in Nat
    PROVE  /\ at + 1 <= Len(buf) /\ O!Slice(buf, at, 2) = <<C(p, 1), C(p, 2)>>
                  => O!Holds(buf, at, "cpub") = p
           /\ at <= Len(buf) /\ O!Slice(buf, at, 1) = <<Q(p)>> => O!Holds(buf, at, "qpub") = p
           /\ at + 1 <= Len(buf) /\ O!Slice(buf, at, 2) = <<E(p, 1), E(p, 2)>>
                  => O!Holds(buf, at, "qpriv") = p
           /\ /\ at + O!Actual("cpriv", p) - 1 <= Len(buf)
              /\ O!Slice(buf, at, O!Actual("cpriv", p)) = O!Part("cpriv", p)
              => O!Holds(buf, at, "cpriv") = p
<1>1. ASSUME at + 1 <= Len(buf), O!Slice(buf, at, 2) = <<C(p, 1), C(p, 2)>>
      PROVE  O!Holds(buf, at, "cpub") = p
  <2>1. O!Actual("cpub", p) = 2 /\ O!Part("cpub", p) = <<C(p, 1), C(p, 2)>>
    BY Parts
  <2>2. at + O!Actual("cpub", p) - 1 <= Len(buf)
    BY <1>1, <2>1
  <2>3. O!Slice(buf, at, O!Actual("cpub", p)) = O!Part("cpub", p)
    BY <1>1, <2>1
  <2> QED
    BY <2>2, <2>3, HoldsIs
<1>2. ASSUME at <= Len(buf), O!Slice(buf, at, 1) = <<Q(p)>>
      PROVE  O!Holds(buf, at, "qpub") = p
  <2>1. O!Actual("qpub", p) = 1 /\ O!Part("qpub", p) = <<Q(p)>>
    BY Parts
  <2>2. at + O!Actual("qpub", p) - 1 <= Len(buf)
    BY <1>2, <2>1
  <2>3. O!Slice(buf, at, O!Actual("qpub", p)) = O!Part("qpub", p)
    BY <1>2, <2>1
  <2> QED
    BY <2>2, <2>3, HoldsIs
<1>3. ASSUME at + 1 <= Len(buf), O!Slice(buf, at, 2) = <<E(p, 1), E(p, 2)>>
      PROVE  O!Holds(buf, at, "qpriv") = p
  <2>1. O!Actual("qpriv", p) = 2 /\ O!Part("qpriv", p) = <<E(p, 1), E(p, 2)>>
    BY Parts
  <2>2. at + O!Actual("qpriv", p) - 1 <= Len(buf)
    BY <1>3, <2>1
  <2>3. O!Slice(buf, at, O!Actual("qpriv", p)) = O!Part("qpriv", p)
    BY <1>3, <2>1
  <2> QED
    BY <2>2, <2>3, HoldsIs
<1>4. ASSUME at + O!Actual("cpriv", p) - 1 <= Len(buf),
             O!Slice(buf, at, O!Actual("cpriv", p)) = O!Part("cpriv", p)
      PROVE  O!Holds(buf, at, "cpriv") = p
  BY <1>4, HoldsIs
<1> QED
  BY <1>1, <1>2, <1>3, <1>4

(* The parts of the buffers. *)
LEMMA PubParts ==
    ASSUME NEW p \in Pairs
    PROVE  /\ O!Slice(PubBuf(p), PubAt[O!Pq], 1) = <<Q(p)>>
           /\ ~O!Single => O!Slice(PubBuf(p), PubAt[O!Classic], 2) = <<C(p, 1), C(p, 2)>>
           /\ O!Holds(PubBuf(p), PubAt[O!Pq], "qpub") = p
           /\ ~O!Single => O!Holds(PubBuf(p), PubAt[O!Classic], "cpub") = p
           /\ Len(PubBuf(p)) = O!pubkeylen /\ PubBuf(p) # O!Null
<1> DEFINE buf == PubBuf(p)
           at == PubAt[O!Pq]
           cat == PubAt[O!Classic]
           Fits == /\ at \in Nat /\ 1 <= at /\ at <= Len(buf) /\ O!Slice(buf, at, 1) = <<Q(p)>>
                   /\ ~O!Single => /\ cat \in Nat /\ 1 <= cat /\ cat + 1 <= Len(buf)
                                   /\ O!Slice(buf, cat, 2) = <<C(p, 1), C(p, 2)>>
                   /\ Len(buf) = O!pubkeylen /\ Len(buf) \in Nat /\ buf # O!Null
<1>1. ASSUME O!Single PROVE Fits
  <2>1. buf = <<Q(p)>> /\ at = 1 /\ O!pubkeylen = 1
    BY <1>1, Sizes DEF PubBuf, PubAt
  <2> HIDE DEF buf, at
  <2>2. O!Slice(buf, 1, 1) = <<Q(p)>>
    BY <2>1, Cuts DEF O!Slice
  <2> QED
    BY <1>1, <2>1, <2>2 DEF O!Null
<1>2. ASSUME O!Hybrid PROVE Fits
  <2>1. /\ buf = <<O!Length(2), C(p, 1), C(p, 2), Q(p)>>
        /\ at = 4 /\ cat = 2 /\ O!pubkeylen = 4
    BY <1>2, Sizes DEF PubBuf, PubAt
  <2> HIDE DEF buf, at, cat
  <2>2. O!Slice(buf, 4, 1) = <<Q(p)>>
    BY <2>1, Cuts DEF O!Slice
  <2>3. O!Slice(buf, 2, 2) = <<C(p, 1), C(p, 2)>>
    BY <2>1, Cuts DEF O!Slice
  <2> QED
    BY <2>1, <2>2, <2>3 DEF O!Null
<1>3. ASSUME O!Composite PROVE Fits
  <2>1. /\ buf = <<Q(p), C(p, 1), C(p, 2)>>
        /\ at = 1 /\ cat = 2 /\ O!pubkeylen = 3
    BY <1>3, Sizes DEF PubBuf, PubAt
  <2> HIDE DEF buf, at, cat
  <2>2. O!Slice(buf, 1, 1) = <<Q(p)>>
    BY <2>1, Cuts DEF O!Slice
  <2>3. O!Slice(buf, 2, 2) = <<C(p, 1), C(p, 2)>>
    BY <2>1, Cuts DEF O!Slice
  <2> QED
    BY <2>1, <2>2, <2>3 DEF O!Null
<1>4. Fits
  BY <1>1, <1>2, <1>3, Sizes
<1> HIDE DEF buf, at, cat
<1>5. O!Holds(buf, at, "qpub") = p /\ (~O!Single => O!Holds(buf, cat, "cpub") = p)
  BY <1>4, HoldsEach
<1> QED
  BY <1>4, <1>5 DEF buf, at, cat

LEMMA PrivBufsAre ==
    ASSUME NEW p \in Pairs, NEW b \in PrivBufs(p)
    PROVE  /\ O!Single => b \in {<<E(p, 1), E(p, 2)>>, <<E(p, 1), E(p, 2), Z>>}
           /\ O!Hybrid /\ Short(p) =>
                  b \in {<<O!Length(2), D(p, 1), D(p, 2), E(p, 1), E(p, 2), Z>>,
                         <<O!Length(2), D(p, 1), D(p, 2), E(p, 1), E(p, 2), Z, Z>>}
           /\ O!Hybrid /\ ~Short(p) =>
                  b \in {<<O!Length(3), D(p, 1), D(p, 2), D(p, 3), E(p, 1), E(p, 2)>>,
                         <<O!Length(3), D(p, 1), D(p, 2), D(p, 3), E(p, 1), E(p, 2), Z>>}
           /\ O!Composite => b = <<E(p, 1), E(p, 2), D(p, 1), D(p, 2), IF Short(p) THEN Z ELSE D(p, 3)>>
<1>1. b = PrivBuf(p) \/ (~O!Composite /\ b = PrivBuf(p) \o <<Z>>)
  BY DEF PrivBufs
<1>2. CASE O!Single
  BY <1>1, <1>2, Sizes, Join21 DEF PrivBuf
<1>3. CASE O!Hybrid
  BY <1>1, <1>3, Sizes, Join61 DEF PrivBuf
<1>4. CASE O!Composite
  BY <1>1, <1>4, Sizes DEF PrivBuf
<1> QED
  BY <1>2, <1>3, <1>4, Sizes

LEMMA PrivParts ==
    ASSUME NEW p \in Pairs, NEW b \in PrivBufs(p)
    PROVE  /\ O!Slice(b, PrivAt(p)[O!Pq], 2) = <<E(p, 1), E(p, 2)>>
           /\ ~O!Single => O!Slice(b, PrivAt(p)[O!Classic], O!Actual("cpriv", p)) = O!Part("cpriv", p)
           /\ O!Holds(b, PrivAt(p)[O!Pq], "qpriv") = p
           /\ ~O!Single => O!Holds(b, PrivAt(p)[O!Classic], "cpriv") = p
           /\ Len(b) >= O!privkeylen /\ Len(b) \in Nat /\ b # O!Null
           /\ SubSeq(b, 1, O!privkeylen) = PrivBuf(p)
<1> DEFINE at == PrivAt(p)[O!Pq]
           cat == PrivAt(p)[O!Classic]
           size == O!Actual("cpriv", p)
           Fits == /\ at \in Nat /\ 1 <= at /\ at + 1 <= Len(b)
                   /\ O!Slice(b, at, 2) = <<E(p, 1), E(p, 2)>>
                   /\ ~O!Single => /\ cat \in Nat /\ 1 <= cat /\ cat + size - 1 <= Len(b)
                                   /\ O!Slice(b, cat, size) = O!Part("cpriv", p)
                   /\ Len(b) >= O!privkeylen /\ Len(b) \in Nat /\ b # O!Null
                   /\ SubSeq(b, 1, O!privkeylen) = PrivBuf(p)
<1>1. ASSUME O!Single PROVE Fits
  <2>1. at = 1 /\ O!privkeylen = 2
    BY <1>1, Sizes DEF PrivAt
  <2>2. /\ b[1] = E(p, 1) /\ b[2] = E(p, 2) /\ Len(b) >= 2 /\ Len(b) \in Nat /\ b # O!Null
    BY <1>1, PrivBufsAre DEF O!Null
  <2> HIDE DEF at
  <2>3. SubSeq(b, 1, 2) = <<E(p, 1), E(p, 2)>>
    BY <2>2, Cuts
  <2>4. O!Slice(b, 1, 2) = <<E(p, 1), E(p, 2)>>
    BY <2>3 DEF O!Slice
  <2>5. SubSeq(b, 1, 2) = PrivBuf(p)
    BY <1>1, <2>3 DEF PrivBuf
  <2> QED
    BY <1>1, <2>1, <2>2, <2>4, <2>5
<1>2. ASSUME O!Hybrid /\ Short(p) PROVE Fits
  <2>1. at = 4 /\ cat = 2 /\ O!privkeylen = 6 /\ size = 2
    BY <1>2, Sizes DEF PrivAt, Short
  <2>2. /\ b[1] = O!Length(2) /\ b[2] = D(p, 1) /\ b[3] = D(p, 2) /\ b[4] = E(p, 1) /\ b[5] = E(p, 2)
        /\ b[6] = Z /\ Len(b) >= 6 /\ Len(b) \in Nat /\ b # O!Null
    BY <1>2, PrivBufsAre DEF O!Null
  <2> HIDE DEF at, cat, size
  <2>3. SubSeq(b, 1, 6) = <<b[1], b[2], b[3], b[4], b[5], b[6]>>
    BY CutsAt
  <2>4. SubSeq(b, 1, 6) = PrivBuf(p)
    BY <1>2, <2>2, <2>3, Sizes DEF PrivBuf
  <2>5. O!Slice(b, 4, 2) = <<b[4], b[5]>> /\ O!Slice(b, 2, 2) = <<b[2], b[3]>>
    BY CutsAt DEF O!Slice
  <2>6. O!Slice(b, 4, 2) = <<E(p, 1), E(p, 2)>> /\ O!Slice(b, 2, 2) = O!Part("cpriv", p)
    BY <1>2, <2>2, <2>5, Parts
  <2> QED
    BY <2>1, <2>2, <2>4, <2>6
<1>3. ASSUME O!Hybrid /\ ~Short(p) PROVE Fits
  <2>1. at = 5 /\ cat = 2 /\ O!privkeylen = 6 /\ size = 3
    BY <1>3, Sizes, Parts DEF PrivAt
  <2>2. /\ b[1] = O!Length(3) /\ b[2] = D(p, 1) /\ b[3] = D(p, 2) /\ b[4] = D(p, 3)
        /\ b[5] = E(p, 1) /\ b[6] = E(p, 2) /\ Len(b) >= 6 /\ Len(b) \in Nat /\ b # O!Null
    <3>1. b \in {<<O!Length(3), D(p, 1), D(p, 2), D(p, 3), E(p, 1), E(p, 2)>>,
                 <<O!Length(3), D(p, 1), D(p, 2), D(p, 3), E(p, 1), E(p, 2), Z>>}
      BY <1>3, PrivBufsAre
    <3> QED
      BY <3>1 DEF O!Null
  <2> HIDE DEF at, cat, size
  <2>3. SubSeq(b, 1, 6) = <<b[1], b[2], b[3], b[4], b[5], b[6]>>
    BY CutsAt
  <2>4. SubSeq(b, 1, 6) = PrivBuf(p)
    BY <1>3, <2>2, <2>3, Sizes DEF PrivBuf
  <2>5. O!Slice(b, 5, 2) = <<b[5], b[6]>> /\ O!Slice(b, 2, 3) = <<b[2], b[3], b[4]>>
    BY CutsAt DEF O!Slice
  <2>6. O!Slice(b, 5, 2) = <<E(p, 1), E(p, 2)>> /\ O!Slice(b, 2, 3) = O!Part("cpriv", p)
    BY <1>3, <2>2, <2>5, Parts
  <2> QED
    BY <2>1, <2>2, <2>4, <2>6
<1>4. ASSUME O!Composite PROVE Fits
  <2> DEFINE last == IF Short(p) THEN Z ELSE D(p, 3)
  <2>1. at = 1 /\ cat = 3 /\ O!privkeylen = 5 /\ size = IF Short(p) THEN 2 ELSE 3
    BY <1>4, Sizes, Parts DEF PrivAt
  <2>2. /\ b[1] = E(p, 1) /\ b[2] = E(p, 2) /\ b[3] = D(p, 1) /\ b[4] = D(p, 2)
        /\ b[5] = last /\ Len(b) = 5 /\ b # O!Null
    BY <1>4, PrivBufsAre DEF O!Null
  <2> HIDE DEF at, cat, size
  <2>3. SubSeq(b, 1, 5) = <<b[1], b[2], b[3], b[4], b[5]>>
    BY CutsAt
  <2>4. SubSeq(b, 1, 5) = PrivBuf(p)
    BY <1>4, <2>2, <2>3, Sizes DEF PrivBuf
  <2>5. /\ O!Slice(b, 1, 2) = <<b[1], b[2]>> /\ O!Slice(b, 3, 2) = <<b[3], b[4]>>
        /\ O!Slice(b, 3, 3) = <<b[3], b[4], b[5]>>
    BY CutsAt DEF O!Slice
  <2>6. O!Slice(b, 1, 2) = <<E(p, 1), E(p, 2)>> /\ O!Slice(b, 3, size) = O!Part("cpriv", p)
    BY <2>1, <2>2, <2>5, Parts
  <2> QED
    BY <2>1, <2>2, <2>4, <2>6
<1>5. Fits
  BY <1>1, <1>2, <1>3, <1>4, Sizes
<1> HIDE DEF at, cat
<1>6. O!Holds(b, at, "qpriv") = p
  BY <1>5, HoldsEach
<1>7. ~O!Single => O!Holds(b, cat, "cpriv") = p
  BY <1>5, HoldsEach
<1> QED
  BY <1>5, <1>6, <1>7 DEF at, cat

(* The pointers of a buffer. *)
LEMMA PointersAre ==
    /\ \A p \in Pairs : O!Offsets(PubBuf(p), O!PartSize["qpub"]) = PubAt
    /\ \A p \in Pairs : \A b \in PrivBufs(p) : O!Offsets(b, O!PartSize["qpriv"]) = PrivAt(p)
    /\ \A n : O!Offsets(O!Null, n) = <<0, 0>>
<1>1. ASSUME NEW p \in Pairs PROVE O!Offsets(PubBuf(p), O!PartSize["qpub"]) = PubAt
  <2>1. PubBuf(p) # O!Null
    BY PubParts
  <2>2. O!Hybrid => PubBuf(p)[1] = O!Length(2)
    BY Sizes DEF PubBuf
  <2>3. O!Length(2)[2] = 2
    BY DEF O!Length
  <2> QED
    BY <2>1, <2>2, <2>3, Sizes DEF O!Offsets, PubAt
<1>2. ASSUME NEW p \in Pairs, NEW b \in PrivBufs(p)
      PROVE  O!Offsets(b, O!PartSize["qpriv"]) = PrivAt(p)
  <2>1. b # O!Null
    BY PrivParts
  <2>2. O!Hybrid => b[1] = O!Length(IF Short(p) THEN 2 ELSE 3)
    BY PrivBufsAre
  <2>3. O!Length(2)[2] = 2 /\ O!Length(3)[2] = 3
    BY DEF O!Length
  <2> QED
    BY <2>1, <2>2, <2>3, Sizes DEF O!Offsets, PrivAt
<1> QED
  BY <1>1, <1>2 DEF O!Offsets

LEMMA Placed ==
    ASSUME NEW o, NEW pub, NEW priv, NEW x, NEW y, NEW evp, NEW n, NEW k,
           k = [of |-> o, pub |-> pub, priv |-> priv, comp_pub |-> x,
                comp_priv |-> y, classical |-> evp, cmplen |-> n]
    PROVE  O!oqsx_key_set_composites(k) =
               [of |-> o, pub |-> pub, priv |-> priv,
                comp_pub |-> O!Offsets(pub, O!PartSize["qpub"]),
                comp_priv |-> O!Offsets(priv, O!PartSize["qpriv"]),
                classical |-> evp, cmplen |-> n]
<1> DEFINE a == O!Offsets(pub, O!PartSize["qpub"])
           b == O!Offsets(priv, O!PartSize["qpriv"])
<1>1. k.priv = priv /\ k.pub = pub
  OBVIOUS
<1>2. O!oqsx_key_set_composites(k) = [[k EXCEPT !.comp_priv = b] EXCEPT !.comp_pub = a]
  BY <1>1 DEF O!oqsx_key_set_composites
<1> HIDE DEF a, b
<1>3. PICK k1 : k1 = [k EXCEPT !.comp_priv = b]
  OBVIOUS
<1>4. k1 = [of |-> o, pub |-> pub, priv |-> priv, comp_pub |-> x,
            comp_priv |-> b, classical |-> evp, cmplen |-> n]
  BY <1>3
<1>5. [k1 EXCEPT !.comp_pub = a] =
         [of |-> o, pub |-> pub, priv |-> priv, comp_pub |-> a,
          comp_priv |-> b, classical |-> evp, cmplen |-> n]
  BY <1>4
<1> QED
  BY <1>2, <1>3, <1>5 DEF a, b

(* A decoded or imported key is finished: from its public half alone, or from both halves,
   when the classical part of the public one may still be missing. *)
LEMMA FinishPublic ==
    ASSUME NEW p \in Pairs, NEW k,
           k = [of |-> 0, pub |-> PubBuf(p), priv |-> O!Null, comp_pub |-> <<O!Stray, O!Stray>>,
                comp_priv |-> <<O!Stray, O!Stray>>, classical |-> O!NoEvp, cmplen |-> 3]
    PROVE  O!Finish(k, "public") =
               [of |-> 0, pub |-> PubBuf(p), priv |-> O!Null, comp_pub |-> PubAt,
                comp_priv |-> <<0, 0>>, cmplen |-> 3,
                classical |-> IF O!Single THEN O!NoEvp ELSE [of |-> p, private |-> FALSE]]
<1> DEFINE buf == PubBuf(p)
           set == O!oqsx_key_set_composites(k)
<1>1. k = [of |-> 0, pub |-> buf, priv |-> O!Null, comp_pub |-> <<O!Stray, O!Stray>>,
           comp_priv |-> <<O!Stray, O!Stray>>, classical |-> O!NoEvp, cmplen |-> 3]
  OBVIOUS
<1>2. O!Offsets(buf, O!PartSize["qpub"]) = PubAt /\ O!Offsets(O!Null, O!PartSize["qpriv"]) = <<0, 0>>
  BY PointersAre
<1>3. ~O!Single => O!Holds(buf, PubAt[O!Classic], "cpub") = p
  BY PubParts
<1>4. p # 0
  BY KeyObjectsAssumption
<1> HIDE DEF buf
<1>5. set = [of |-> 0, pub |-> buf, priv |-> O!Null, comp_pub |-> PubAt,
             comp_priv |-> <<0, 0>>, classical |-> O!NoEvp, cmplen |-> 3]
  BY <1>1, <1>2, Placed
<1> HIDE DEF set
<1>6. O!FromPublic(set) = O!Holds(buf, PubAt[O!Classic], "cpub")
  BY <1>5 DEF O!FromPublic
<1>7. O!Finish(k, "public") =
         IF O!Single THEN set ELSE [set EXCEPT !.classical = [of |-> p, private |-> FALSE]]
  BY <1>3, <1>4, <1>6 DEF O!Finish, O!oqsx_key_recreate_classickey, set
<1> QED
  BY <1>5, <1>7 DEF buf

Ended(p, b, n, pub, pat) ==
    [of |-> 0, pub |-> pub, priv |-> b, comp_pub |-> pat, comp_priv |-> PrivAt(p), cmplen |-> n,
     classical |-> IF O!Single THEN O!NoEvp ELSE [of |-> p, private |-> TRUE]]
Finished(p, b, n) == Ended(p, b, n, PubBuf(p), PubAt)
Publess(p, b) == Ended(p, b, 3, O!Null, <<0, 0>>)
LEMMA FinishPrivate ==
    ASSUME NEW p \in Pairs, NEW b \in PrivBufs(p), NEW pub, NEW n, NEW k, NEW done, NEW pat,
           k = [of |-> 0, pub |-> pub, priv |-> b, comp_pub |-> <<O!Stray, O!Stray>>,
                comp_priv |-> <<O!Stray, O!Stray>>, classical |-> O!NoEvp, cmplen |-> n],
           O!Offsets(pub, O!PartSize["qpub"]) = pat,
           O!Single => pub = done,
           ~O!Single => O!Write(pub, pat[O!Classic], O!Part("cpub", p)) = done
    PROVE  O!Finish(k, "private") = Ended(p, b, n, done, pat)
<1> DEFINE set == O!oqsx_key_set_composites(k)
           at == PrivAt(p)
<1>1. O!Offsets(b, O!PartSize["qpriv"]) = at
  BY PointersAre
<1>2. ~O!Single => O!Holds(b, at[O!Classic], "cpriv") = p
  BY PrivParts
<1>3. p # 0
  BY KeyObjectsAssumption
<1> HIDE DEF at
<1>4. set = [of |-> 0, pub |-> pub, priv |-> b, comp_pub |-> pat,
             comp_priv |-> at, classical |-> O!NoEvp, cmplen |-> n]
  BY <1>1, Placed
<1> HIDE DEF set
<1>5. O!FromPrivate(set) = O!Holds(b, at[O!Classic], "cpriv")
  BY <1>4 DEF O!FromPrivate
<1>6. ~O!Single => O!Write(set.pub, set.comp_pub[O!Classic], O!Part("cpub", p)) = done
  BY <1>4
<1>7. O!Finish(k, "private") =
         IF O!Single THEN set
         ELSE [set EXCEPT !.classical = [of |-> p, private |-> TRUE], !.pub = done]
  BY <1>2, <1>3, <1>5, <1>6 DEF O!Finish, O!oqsx_key_recreate_classickey, set
<1> QED
  BY <1>4, <1>7 DEF at, Ended

(* New buffers are zero. *)
LEMMA ZerosAre ==
    /\ O!Zeros(1) = <<Z>> /\ O!Zeros(3) = <<Z, Z, Z>> /\ O!Zeros(4) = <<Z, Z, Z, Z>>
    /\ O!Zeros(5) = <<Z, Z, Z, Z, Z>> /\ O!Zeros(7) = <<Z, Z, Z, Z, Z, Z, Z>>
    /\ \A n \in {1, 3, 4, 5, 7} : O!Zeros(n) # O!Null
<1>1. O!Zeros(1) = <<Z>>
  BY DEF O!Zeros, Z
<1>2. O!Zeros(3) = <<Z, Z, Z>>
  BY DEF O!Zeros, Z
<1>3. O!Zeros(4) = <<Z, Z, Z, Z>>
  BY DEF O!Zeros, Z
<1>4. O!Zeros(5) = <<Z, Z, Z, Z, Z>>
  BY DEF O!Zeros, Z
<1>5. O!Zeros(7) = <<Z, Z, Z, Z, Z, Z, Z>>
  BY DEF O!Zeros, Z
<1> QED
  BY <1>1, <1>2, <1>3, <1>4, <1>5 DEF O!Null

(* What Write puts into a buffer. *)
LEMMA Writes1 ==
    /\ \A a, s :
           O!Write(<<a>>, 1, <<s>>) = <<s>>
<1>1. ASSUME NEW a, NEW s
      PROVE  O!Write(<<a>>, 1, <<s>>) = <<s>>
  BY DEF O!Write
<1> QED
  BY <1>1

LEMMA Writes3 ==
    /\ \A a, b, c, s :
           O!Write(<<a, b, c>>, 1, <<s>>) = <<s, b, c>>
    /\ \A a, b, c, s, t :
           O!Write(<<a, b, c>>, 1, <<s, t>>) = <<s, t, c>>
    /\ \A a, b, c, s, t :
           O!Write(<<a, b, c>>, 2, <<s, t>>) = <<a, s, t>>
<1>1. ASSUME NEW a, NEW b, NEW c, NEW s
      PROVE  O!Write(<<a, b, c>>, 1, <<s>>) = <<s, b, c>>
  BY DEF O!Write
<1>2. ASSUME NEW a, NEW b, NEW c, NEW s, NEW t
      PROVE  O!Write(<<a, b, c>>, 1, <<s, t>>) = <<s, t, c>>
  BY DEF O!Write
<1>3. ASSUME NEW a, NEW b, NEW c, NEW s, NEW t
      PROVE  O!Write(<<a, b, c>>, 2, <<s, t>>) = <<a, s, t>>
  BY DEF O!Write
<1> QED
  BY <1>1, <1>2, <1>3

LEMMA Writes4 ==
    /\ \A a, b, c, d, s :
           O!Write(<<a, b, c, d>>, 1, <<s>>) = <<s, b, c, d>>
    /\ \A a, b, c, d, s, t, u :
           O!Write(<<a, b, c, d>>, 1, <<s, t, u>>) = <<s, t, u, d>>
    /\ \A a, b, c, d, s, t :
           O!Write(<<a, b, c, d>>, 2, <<s, t>>) = <<a, s, t, d>>
    /\ \A a, b, c, d, s, t, u :
           O!Write(<<a, b, c, d>>, 2, <<s, t, u>>) = <<a, s, t, u>>
    /\ \A a, b, c, d, s :
           O!Write(<<a, b, c, d>>, 4, <<s>>) = <<a, b, c, s>>
<1>1. ASSUME NEW a, NEW b, NEW c, NEW d, NEW s
      PROVE  O!Write(<<a, b, c, d>>, 1, <<s>>) = <<s, b, c, d>>
  BY DEF O!Write
<1>2. ASSUME NEW a, NEW b, NEW c, NEW d, NEW s, NEW t, NEW u
      PROVE  O!Write(<<a, b, c, d>>, 1, <<s, t, u>>) = <<s, t, u, d>>
  BY DEF O!Write
<1>3. ASSUME NEW a, NEW b, NEW c, NEW d, NEW s, NEW t
      PROVE  O!Write(<<a, b, c, d>>, 2, <<s, t>>) = <<a, s, t, d>>
  BY DEF O!Write
<1>4. ASSUME NEW a, NEW b, NEW c, NEW d, NEW s, NEW t, NEW u
      PROVE  O!Write(<<a, b, c, d>>, 2, <<s, t, u>>) = <<a, s, t, u>>
  BY DEF O!Write
<1>5. ASSUME NEW a, NEW b, NEW c, NEW d, NEW s
      PROVE  O!Write(<<a, b, c, d>>, 4, <<s>>) = <<a, b, c, s>>
  BY DEF O!Write
<1> QED
  BY <1>1, <1>2, <1>3, <1>4, <1>5

LEMMA Writes5 ==
    /\ \A a, b, c, d, e, s, t :
           O!Write(<<a, b, c, d, e>>, 1, <<s, t>>) = <<s, t, c, d, e>>
    /\ \A a, b, c, d, e, s, t, u, v :
           O!Write(<<a, b, c, d, e>>, 1, <<s, t, u, v>>) = <<s, t, u, v, e>>
    /\ \A a, b, c, d, e, s, t, u, v, w :
           O!Write(<<a, b, c, d, e>>, 1, <<s, t, u, v, w>>) = <<s, t, u, v, w>>
    /\ \A a, b, c, d, e, s, t :
           O!Write(<<a, b, c, d, e>>, 3, <<s, t>>) = <<a, b, s, t, e>>
    /\ \A a, b, c, d, e, s, t, u :
           O!Write(<<a, b, c, d, e>>, 3, <<s, t, u>>) = <<a, b, s, t, u>>
<1>1. ASSUME NEW a, NEW b, NEW c, NEW d, NEW e, NEW s, NEW t
      PROVE  O!Write(<<a, b, c, d, e>>, 1, <<s, t>>) = <<s, t, c, d, e>>
  BY DEF O!Write
<1>2. ASSUME NEW a, NEW b, NEW c, NEW d, NEW e, NEW s, NEW t, NEW u, NEW v
      PROVE  O!Write(<<a, b, c, d, e>>, 1, <<s, t, u, v>>) = <<s, t, u, v, e>>
  BY DEF O!Write
<1>3. ASSUME NEW a, NEW b, NEW c, NEW d, NEW e, NEW s, NEW t, NEW u, NEW v, NEW w
      PROVE  O!Write(<<a, b, c, d, e>>, 1, <<s, t, u, v, w>>) = <<s, t, u, v, w>>
  BY DEF O!Write
<1>4. ASSUME NEW a, NEW b, NEW c, NEW d, NEW e, NEW s, NEW t
      PROVE  O!Write(<<a, b, c, d, e>>, 3, <<s, t>>) = <<a, b, s, t, e>>
  BY DEF O!Write
<1>5. ASSUME NEW a, NEW b, NEW c, NEW d, NEW e, NEW s, NEW t, NEW u
      PROVE  O!Write(<<a, b, c, d, e>>, 3, <<s, t, u>>) = <<a, b, s, t, u>>
  BY DEF O!Write
<1> QED
  BY <1>1, <1>2, <1>3, <1>4, <1>5

LEMMA Writes7 ==
    /\ \A a, b, c, d, e, f, g, s, t, u :
           O!Write(<<a, b, c, d, e, f, g>>, 1, <<s, t, u>>) = <<s, t, u, d, e, f, g>>
    /\ \A a, b, c, d, e, f, g, s, t, u, v :
           O!Write(<<a, b, c, d, e, f, g>>, 1, <<s, t, u, v>>) = <<s, t, u, v, e, f, g>>
    /\ \A a, b, c, d, e, f, g, s, t, u, v, w :
           O!Write(<<a, b, c, d, e, f, g>>, 1, <<s, t, u, v, w>>) = <<s, t, u, v, w, f, g>>
    /\ \A a, b, c, d, e, f, g, s, t, u, v, w, x :
           O!Write(<<a, b, c, d, e, f, g>>, 1, <<s, t, u, v, w, x>>) = <<s, t, u, v, w, x, g>>
    /\ \A a, b, c, d, e, f, g, s, t :
           O!Write(<<a, b, c, d, e, f, g>>, 4, <<s, t>>) = <<a, b, c, s, t, f, g>>
    /\ \A a, b, c, d, e, f, g, s, t :
           O!Write(<<a, b, c, d, e, f, g>>, 5, <<s, t>>) = <<a, b, c, d, s, t, g>>
<1>1. ASSUME NEW a, NEW b, NEW c, NEW d, NEW e, NEW f, NEW g, NEW s, NEW t, NEW u
      PROVE  O!Write(<<a, b, c, d, e, f, g>>, 1, <<s, t, u>>) = <<s, t, u, d, e, f, g>>
  BY DEF O!Write
<1>2. ASSUME NEW a, NEW b, NEW c, NEW d, NEW e, NEW f, NEW g, NEW s, NEW t, NEW u, NEW v
      PROVE  O!Write(<<a, b, c, d, e, f, g>>, 1, <<s, t, u, v>>) = <<s, t, u, v, e, f, g>>
  BY DEF O!Write
<1>3. ASSUME NEW a, NEW b, NEW c, NEW d, NEW e, NEW f, NEW g, NEW s, NEW t, NEW u, NEW v, NEW w
      PROVE  O!Write(<<a, b, c, d, e, f, g>>, 1, <<s, t, u, v, w>>) = <<s, t, u, v, w, f, g>>
  BY DEF O!Write
<1>4. ASSUME NEW a, NEW b, NEW c, NEW d, NEW e, NEW f, NEW g, NEW s, NEW t, NEW u, NEW v, NEW w, NEW x
      PROVE  O!Write(<<a, b, c, d, e, f, g>>, 1, <<s, t, u, v, w, x>>) = <<s, t, u, v, w, x, g>>
  BY DEF O!Write
<1>5. ASSUME NEW a, NEW b, NEW c, NEW d, NEW e, NEW f, NEW g, NEW s, NEW t
      PROVE  O!Write(<<a, b, c, d, e, f, g>>, 4, <<s, t>>) = <<a, b, c, s, t, f, g>>
  BY DEF O!Write
<1>6. ASSUME NEW a, NEW b, NEW c, NEW d, NEW e, NEW f, NEW g, NEW s, NEW t
      PROVE  O!Write(<<a, b, c, d, e, f, g>>, 5, <<s, t>>) = <<a, b, c, d, s, t, g>>
  BY DEF O!Write
<1> QED
  BY <1>1, <1>2, <1>3, <1>4, <1>5, <1>6

Space == IF O!Single THEN 3 ELSE IF O!Hybrid THEN 7 ELSE 5
LEMMA Allocated ==
    LET new == O!oqsx_key_new
        with == O!oqsx_key_allocate_keymaterial(new, TRUE)
        without == O!oqsx_key_allocate_keymaterial(new, FALSE)
        Both(k) == k = [of |-> 0, pub |-> O!Zeros(O!pubkeylen), priv |-> O!Zeros(Space),
                        comp_pub |-> <<O!Stray, O!Stray>>, comp_priv |-> <<O!Stray, O!Stray>>,
                        classical |-> O!NoEvp, cmplen |-> 3]
    IN  /\ with = [of |-> 0, pub |-> O!Null, priv |-> O!Zeros(Space),
                   comp_pub |-> <<O!Stray, O!Stray>>, comp_priv |-> <<O!Stray, O!Stray>>,
                   classical |-> O!NoEvp, cmplen |-> 3]
        /\ Both(O!oqsx_key_allocate_keymaterial(with, FALSE))
        /\ Both(O!oqsx_key_allocate_keymaterial(without, TRUE))
<1> DEFINE stray == <<O!Stray, O!Stray>>
           null == O!Null
           pub == O!Zeros(O!pubkeylen)
           priv == O!Zeros(Space)
           K1(x, y) == [of |-> 0, pub |-> x, priv |-> y, comp_pub |-> stray, comp_priv |-> stray,
                        classical |-> O!NoEvp, cmplen |-> 3]
<1>1. Space = O!privkeylen + IF O!Composite THEN 0 ELSE O!LengthSize
  BY Sizes DEF Space
<1>2. pub # null /\ priv # null
  BY ZerosAre, Sizes DEF Space
<1>3. O!oqsx_key_new = K1(null, null)
  BY Sizes DEF O!oqsx_key_new
<1>4. /\ \A k : k.priv = null => O!oqsx_key_allocate_keymaterial(k, TRUE) = [k EXCEPT !.priv = priv]
      /\ \A k : k.pub = null => O!oqsx_key_allocate_keymaterial(k, FALSE) = [k EXCEPT !.pub = pub]
  BY <1>1 DEF O!oqsx_key_allocate_keymaterial
<1> HIDE DEF stray, null, pub, priv
<1>5. ASSUME NEW x PROVE O!oqsx_key_allocate_keymaterial(K1(x, null), TRUE) = K1(x, priv)
  <2>1. K1(x, null).priv = null
    OBVIOUS
  <2>2. O!oqsx_key_allocate_keymaterial(K1(x, null), TRUE) = [K1(x, null) EXCEPT !.priv = priv]
    BY <1>4, <2>1
  <2> QED
    BY <2>2
<1>6. ASSUME NEW y PROVE O!oqsx_key_allocate_keymaterial(K1(null, y), FALSE) = K1(pub, y)
  <2>1. K1(null, y).pub = null
    OBVIOUS
  <2>2. O!oqsx_key_allocate_keymaterial(K1(null, y), FALSE) = [K1(null, y) EXCEPT !.pub = pub]
    BY <1>4, <2>1
  <2> QED
    BY <2>2
<1> HIDE DEF K1
<1>7. /\ O!oqsx_key_allocate_keymaterial(O!oqsx_key_new, TRUE) = K1(null, priv)
      /\ O!oqsx_key_allocate_keymaterial(O!oqsx_key_new, FALSE) = K1(pub, null)
  BY <1>3, <1>5, <1>6
<1>8. /\ O!oqsx_key_allocate_keymaterial(K1(null, priv), FALSE) = K1(pub, priv)
      /\ O!oqsx_key_allocate_keymaterial(K1(pub, null), TRUE) = K1(pub, priv)
  BY <1>5, <1>6
<1> QED
  BY <1>7, <1>8 DEF K1, stray, null, pub, priv

(* A result becomes a whole key when it is given its pair. *)
LEMMA WholeMade ==
    ASSUME NEW p \in Pairs, NEW pub, NEW pat, NEW priv, NEW at, NEW evp, NEW n \in 1 .. 3, NEW r,
           r = [of |-> 0, pub |-> pub, priv |-> priv, comp_pub |-> pat, comp_priv |-> at,
                classical |-> evp, cmplen |-> n],
           (pub = PubBuf(p) /\ pat = PubAt) \/ (pub = O!Null /\ pat = <<0, 0>>),
           priv = O!Null \/ (priv \in PrivBufs(p) /\ at = PrivAt(p)),
           evp.of \in Pairs \cup {0}, ~O!Kem /\ ~O!Single => evp.of = p, ~O!Rsa => n = 3
    PROVE  r # O!Free /\ [r EXCEPT !.of = p].of = p /\ Whole([r EXCEPT !.of = p])
<1>1. r # O!Free
  <2>1. "pub" \in DOMAIN r /\ "pub" \notin DOMAIN O!Free
    BY DEF O!Free
  <2> QED
    BY <2>1
<1>2. PICK k : k = [r EXCEPT !.of = p]
  OBVIOUS
<1>3. k = [of |-> p, pub |-> pub, priv |-> priv, comp_pub |-> pat, comp_priv |-> at,
           classical |-> evp, cmplen |-> n]
  BY <1>2
<1>4. /\ k.of = p /\ k.pub = pub /\ k.priv = priv /\ k.comp_pub = pat /\ k.comp_priv = at
      /\ k.classical = evp /\ k.cmplen = n
  BY <1>3
<1>5. k = KeyRecord(k.of, k.pub, k.priv, k.comp_pub, k.comp_priv, k.classical, k.cmplen)
  BY <1>3, <1>4 DEF KeyRecord
<1>6. HasPublic(k) \/ LacksPublic(k)
  BY <1>4 DEF HasPublic, LacksPublic
<1> QED
  BY <1>1, <1>2, <1>4, <1>5, <1>6 DEF Whole

LEMMA Decoded ==
    ASSUME NEW p \in Pairs, NEW k, k.pub = PubBuf(p), O!Composite => k.comp_pub = PubAt
    PROVE  O!oqsx_key_from_x509pubkey(O!oqsx_spki_pub_to_der(k)) =
               [of |-> 0, pub |-> PubBuf(p), priv |-> O!Null, comp_pub |-> PubAt,
                comp_priv |-> <<0, 0>>, cmplen |-> 3,
                classical |-> IF O!Single THEN O!NoEvp ELSE [of |-> p, private |-> FALSE]]
<1> DEFINE der == O!oqsx_spki_pub_to_der(k)
           all == IF O!Composite THEN der[1] \o der[2] ELSE der[1]
<1>1. all = PubBuf(p)
  <2>1. CASE O!Composite
    <3>1. /\ O!Slice(k.pub, k.comp_pub[O!Pq], O!PartSize["qpub"]) = <<Q(p)>>
          /\ O!Slice(k.pub, k.comp_pub[O!Classic], O!PartSize["cpub"]) = <<C(p, 1), C(p, 2)>>
      BY <2>1, PubParts, Sizes
    <3>2. der[1] = <<Q(p)>> /\ der[2] = <<C(p, 1), C(p, 2)>>
      BY <2>1, <3>1 DEF O!oqsx_spki_pub_to_der
    <3>3. all = <<Q(p)>> \o <<C(p, 1), C(p, 2)>>
      BY <2>1, <3>2
    <3>4. PubBuf(p) = <<Q(p), C(p, 1), C(p, 2)>>
      BY <2>1, Sizes DEF PubBuf
    <3>5. <<Q(p)>> \o <<C(p, 1), C(p, 2)>> = <<Q(p), C(p, 1), C(p, 2)>>
      BY Join12
    <3> HIDE DEF all
    <3> QED
      BY <3>3, <3>4, <3>5
  <2>2. CASE ~O!Composite
    BY <2>2 DEF O!oqsx_spki_pub_to_der
  <2> QED
    BY <2>1, <2>2
<1>2. Len(PubBuf(p)) = O!pubkeylen
  BY PubParts
<1>3. O!oqsx_key_from_x509pubkey(der) =
         IF Len(all) # O!pubkeylen THEN O!Free
         ELSE O!Finish([O!oqsx_key_new EXCEPT !.pub = all], "public")
  BY DEF O!oqsx_key_from_x509pubkey
<1> HIDE DEF der, all
<1> DEFINE pub == PubBuf(p)
           stray == <<O!Stray, O!Stray>>
<1>4. O!oqsx_key_new = [of |-> 0, pub |-> O!Null, priv |-> O!Null, comp_pub |-> stray,
                        comp_priv |-> stray, classical |-> O!NoEvp, cmplen |-> 3]
  BY Sizes DEF O!oqsx_key_new
<1> HIDE DEF pub, stray
<1>5. PICK new : new = [O!oqsx_key_new EXCEPT !.pub = pub]
  OBVIOUS
<1>6. new = [of |-> 0, pub |-> pub, priv |-> O!Null, comp_pub |-> stray,
             comp_priv |-> stray, classical |-> O!NoEvp, cmplen |-> 3]
  BY <1>4, <1>5
<1>7. O!oqsx_key_from_x509pubkey(der) = O!Finish(new, "public")
  BY <1>1, <1>2, <1>3, <1>5 DEF pub
<1> QED
  BY <1>6, <1>7, FinishPublic DEF pub, stray, der

(* Private encodings, by the layout of the key. *)
Blank(pub, priv, n) ==
    [of |-> 0, pub |-> pub, priv |-> priv, comp_pub |-> <<O!Stray, O!Stray>>,
     comp_priv |-> <<O!Stray, O!Stray>>, classical |-> O!NoEvp, cmplen |-> n]
LEMMA BlankHas ==
    ASSUME NEW y, NEW z, NEW n
    PROVE  Blank(y, z, n) # O!Free /\ Blank(y, z, n).pub = y /\ Blank(y, z, n).priv = z
<1>1. PICK k : k = Blank(y, z, n)
  OBVIOUS
<1>2. k.pub = y /\ k.priv = z /\ "pub" \in DOMAIN k
  BY <1>1 DEF Blank
<1>3. "pub" \notin DOMAIN O!Free
  BY DEF O!Free
<1> QED
  BY <1>1, <1>2, <1>3

LEMMA BlankWithPriv ==
    ASSUME NEW y, NEW z, NEW n, NEW v
    PROVE  [Blank(y, z, n) EXCEPT !.priv = v] = Blank(y, v, n)
<1> DEFINE stray == <<O!Stray, O!Stray>>
           zero == 0
<1> HIDE DEF stray, zero
<1>1. PICK k : k = Blank(y, z, n)
  OBVIOUS
<1>2. k = [of |-> zero, pub |-> y, priv |-> z, comp_pub |-> stray, comp_priv |-> stray,
           classical |-> O!NoEvp, cmplen |-> n]
  BY <1>1 DEF Blank, stray, zero
<1>3. [k EXCEPT !.priv = v] =
         [of |-> zero, pub |-> y, priv |-> v, comp_pub |-> stray, comp_priv |-> stray,
          classical |-> O!NoEvp, cmplen |-> n]
  BY <1>2
<1> QED
  BY <1>1, <1>3 DEF Blank, stray, zero

LEMMA BlankWithPub ==
    ASSUME NEW y, NEW z, NEW n, NEW v
    PROVE  [Blank(y, z, n) EXCEPT !.pub = v] = Blank(v, z, n)
<1> DEFINE stray == <<O!Stray, O!Stray>>
           zero == 0
<1> HIDE DEF stray, zero
<1>1. PICK k : k = Blank(y, z, n)
  OBVIOUS
<1>2. k = [of |-> zero, pub |-> y, priv |-> z, comp_pub |-> stray, comp_priv |-> stray,
           classical |-> O!NoEvp, cmplen |-> n]
  BY <1>1 DEF Blank, stray, zero
<1>3. [k EXCEPT !.pub = v] =
         [of |-> zero, pub |-> v, priv |-> z, comp_pub |-> stray, comp_priv |-> stray,
          classical |-> O!NoEvp, cmplen |-> n]
  BY <1>2
<1> QED
  BY <1>1, <1>3 DEF Blank, stray, zero

LEMMA BlankWithLen ==
    ASSUME NEW y, NEW z, NEW n, NEW v
    PROVE  [Blank(y, z, n) EXCEPT !.cmplen = v] = Blank(y, z, v)
<1> DEFINE stray == <<O!Stray, O!Stray>>
           zero == 0
<1> HIDE DEF stray, zero
<1>1. PICK k : k = Blank(y, z, n)
  OBVIOUS
<1>2. k = [of |-> zero, pub |-> y, priv |-> z, comp_pub |-> stray, comp_priv |-> stray,
           classical |-> O!NoEvp, cmplen |-> n]
  BY <1>1 DEF Blank, stray, zero
<1>3. [k EXCEPT !.cmplen = v] =
         [of |-> zero, pub |-> y, priv |-> z, comp_pub |-> stray, comp_priv |-> stray,
          classical |-> O!NoEvp, cmplen |-> v]
  BY <1>2
<1> QED
  BY <1>1, <1>3 DEF Blank, stray, zero

LEMMA OpPrivateIs ==
    ASSUME NEW x, NEW actual, NEW at, NEW pub0, NEW pub, NEW priv,
           actual = O!privkeylen - (IF O!Single THEN 0 ELSE 3 - x[1][2]),
           at = IF O!Single THEN 1 ELSE 4,
           pub0 = IF O!Single THEN O!Zeros(O!pubkeylen)
                  ELSE O!Write(O!Zeros(O!pubkeylen), 1, <<O!Length(2)>>),
           Len(x) = actual + 1,
           pub = O!Write(pub0, at, SubSeq(x, actual + 1, Len(x))),
           priv = O!Write(O!Zeros(Space), 1, SubSeq(x, 1, actual))
    PROVE  O!Op_private(x) = Blank(pub, priv, 3)
<1> DEFINE zpub == O!Zeros(O!pubkeylen)
           zpriv == O!Zeros(Space)
           new == O!oqsx_key_allocate_keymaterial(
                      O!oqsx_key_allocate_keymaterial(O!oqsx_key_new, TRUE), FALSE)
<1>1. new = Blank(zpub, zpriv, 3)
  BY Allocated DEF Blank
<1> HIDE DEF new
<1>2. new.pub = zpub /\ new.priv = zpriv
  BY <1>1, BlankHas
<1> HIDE DEF zpub, zpriv
<1>3. at = IF O!Single THEN 1 ELSE 1 + O!LengthSize + O!PartSize["cpub"]
  BY Sizes
<1>4. pub0 = IF O!Single THEN new.pub
             ELSE O!Write(new.pub, 1, <<O!Length(O!PartSize["cpub"])>>)
  BY <1>2, Sizes DEF zpub
<1>5. actual = O!privkeylen - (IF O!Single THEN 0 ELSE O!PartSize["cpriv"] - x[1][2])
  BY Sizes
<1>6. Len(x) = actual + O!PartSize["qpub"]
  BY Sizes
<1>7. priv = O!Write(new.priv, 1, SubSeq(x, 1, actual))
  BY <1>2 DEF zpriv
<1>8. O!Op_private(x) =
         IF Len(x) # actual + O!PartSize["qpub"] THEN O!Free
         ELSE [new EXCEPT !.priv = O!Write(new.priv, 1, SubSeq(x, 1, actual)),
                          !.pub = O!Write(pub0, at, SubSeq(x, actual + 1, Len(x)))]
  BY <1>3, <1>4, <1>5 DEF O!Op_private, new
<1>9. O!Op_private(x) = [new EXCEPT !.priv = priv, !.pub = pub]
  BY <1>6, <1>7, <1>8
<1>10. [Blank(zpub, zpriv, 3) EXCEPT !.priv = priv] = Blank(zpub, priv, 3)
  BY BlankWithPriv
<1>11. [Blank(zpub, priv, 3) EXCEPT !.pub = pub] = Blank(pub, priv, 3)
  BY BlankWithPub
<1> QED
  BY <1>1, <1>9, <1>10, <1>11

LEMMA FinishBlank ==
    ASSUME NEW p \in Pairs, NEW b \in PrivBufs(p), NEW pub, NEW n,
           O!Offsets(pub, O!PartSize["qpub"]) = PubAt,
           O!Single => pub = PubBuf(p),
           ~O!Single => O!Write(pub, PubAt[O!Classic], O!Part("cpub", p)) = PubBuf(p)
    PROVE  O!Finish(Blank(pub, b, n), "private") = Finished(p, b, n)
<1>1. PICK k : k = Blank(pub, b, n)
  OBVIOUS
<1>2. k = [of |-> 0, pub |-> pub, priv |-> b, comp_pub |-> <<O!Stray, O!Stray>>,
           comp_priv |-> <<O!Stray, O!Stray>>, classical |-> O!NoEvp, cmplen |-> n]
  BY <1>1 DEF Blank
<1>3. O!Finish(k, "private") = Ended(p, b, n, PubBuf(p), PubAt)
  BY <1>2, FinishPrivate
<1> QED
  BY <1>1, <1>3 DEF Finished

LEMMA SingleDecoded ==
    ASSUME NEW p \in Pairs, NEW k, k.pub = PubBuf(p), k.comp_pub = PubAt, k.priv \in PrivBufs(p),
           O!Single
    PROVE  \E b \in PrivBufs(p) :
               O!oqsx_key_from_pkcs8(O!oqsx_pki_priv_to_der(k)) = Finished(p, b, 3)
<1> DEFINE x == <<E(p, 1), E(p, 2), Q(p)>>
           b == <<E(p, 1), E(p, 2), Z>>
           pub == <<Q(p)>>
<1>0. O!PartSize["qpub"] = 1 /\ ~O!Composite /\ O!privkeylen - 0 = 2
  BY Sizes
<1>1. O!oqsx_pki_priv_to_der(k) = <<x>>
  <2>1. SubSeq(k.priv, 1, O!privkeylen - 0) = <<E(p, 1), E(p, 2)>>
    BY <1>0, PrivParts, Sizes DEF PrivBuf
  <2>2. O!Slice(k.pub, k.comp_pub[O!Pq], O!PartSize["qpub"]) = <<Q(p)>>
    BY PubParts, Sizes
  <2>3. O!oqsx_pki_priv_to_der(k) =
            <<SubSeq(k.priv, 1, O!privkeylen - 0)
              \o O!Slice(k.pub, k.comp_pub[O!Pq], O!PartSize["qpub"])>>
    BY <1>0 DEF O!oqsx_pki_priv_to_der
  <2>4. <<E(p, 1), E(p, 2)>> \o <<Q(p)>> = x
    BY Join21
  <2> HIDE DEF x
  <2> QED
    BY <2>1, <2>2, <2>3, <2>4
<1>2. b \in PrivBufs(p)
  <2>1. PrivBuf(p) = <<E(p, 1), E(p, 2)>>
    BY DEF PrivBuf
  <2> QED
    BY <1>0, <2>1, Join21 DEF PrivBufs
<1>3. /\ SubSeq(x, 1, 2) = <<E(p, 1), E(p, 2)>> /\ SubSeq(x, 3, 3) = <<Q(p)>> /\ Len(x) = 3
  BY CutsAt
<1>4. O!Zeros(Space) = <<Z, Z, Z>> /\ O!Zeros(O!pubkeylen) = <<Z>>
  BY ZerosAre, Sizes DEF Space
<1>5. b = O!Write(O!Zeros(Space), 1, <<E(p, 1), E(p, 2)>>)
  BY <1>4, Writes3
<1>6. pub = O!Write(O!Zeros(O!pubkeylen), 1, <<Q(p)>>)
  BY <1>4, Writes1
<1>7. PubBuf(p) = pub
  BY DEF PubBuf
<1> HIDE DEF x, b, pub
<1>8. O!Op_private(x) = Blank(pub, b, 3)
  <2> DEFINE actual == 2
             at == 1
             pub0 == O!Zeros(O!pubkeylen)
  <2>1. /\ actual = O!privkeylen - (IF O!Single THEN 0 ELSE 3 - x[1][2])
        /\ at = IF O!Single THEN 1 ELSE 4
        /\ pub0 = IF O!Single THEN O!Zeros(O!pubkeylen)
                  ELSE O!Write(O!Zeros(O!pubkeylen), 1, <<O!Length(2)>>)
    BY <1>0
  <2>2. Len(x) = actual + 1
    BY <1>3
  <2>5. actual + 1 = 3
    OBVIOUS
  <2>3. pub = O!Write(pub0, at, SubSeq(x, actual + 1, Len(x)))
    BY <1>3, <1>6, <2>5
  <2>4. b = O!Write(O!Zeros(Space), 1, SubSeq(x, 1, actual))
    BY <1>3, <1>5
  <2> HIDE DEF actual, at, pub0
  <2> QED
    BY <2>1, <2>2, <2>3, <2>4, OpPrivateIs
<1>9. O!oqsx_key_from_pkcs8(<<x>>) = O!Finish(Blank(pub, b, 3), "private")
  <2>1. Blank(pub, b, 3) # O!Free
    BY BlankHas
  <2>2. O!oqsx_key_from_pkcs8(<<x>>) =
           IF O!Op_private(x) = O!Free THEN O!Free ELSE O!Finish(O!Op_private(x), "private")
    BY <1>0 DEF O!oqsx_key_from_pkcs8
  <2> QED
    BY <1>8, <2>1, <2>2
<1>10. O!Offsets(pub, O!PartSize["qpub"]) = PubAt
  BY <1>7, PointersAre
<1>11. O!Finish(Blank(pub, b, 3), "private") = Finished(p, b, 3)
  BY <1>2, <1>7, <1>10, FinishBlank
<1> QED
  BY <1>1, <1>2, <1>9, <1>11

LEMMA HybridFinished ==
    ASSUME NEW p \in Pairs, NEW b \in PrivBufs(p), NEW x, O!Hybrid,
           O!Op_private(x) = Blank(<<O!Length(2), Z, Z, Q(p)>>, b, 3)
    PROVE  O!oqsx_key_from_pkcs8(<<x>>) = Finished(p, b, 3)
<1> DEFINE pub == <<O!Length(2), Z, Z, Q(p)>>
<1>1. pub # O!Null /\ pub[1] = O!Length(2)
  BY DEF O!Null
<1>2. O!Length(2)[2] = 2
  BY DEF O!Length
<1>3. O!Write(pub, 2, <<C(p, 1), C(p, 2)>>) = <<O!Length(2), C(p, 1), C(p, 2), Q(p)>>
  BY Writes4
<1> HIDE DEF pub
<1>4. O!Offsets(pub, O!PartSize["qpub"]) = PubAt
  BY <1>1, <1>2, Sizes DEF O!Offsets, PubAt
<1>5. O!Write(pub, PubAt[O!Classic], O!Part("cpub", p)) = PubBuf(p)
  <2>1. PubAt[O!Classic] = 2
    BY Sizes DEF PubAt
  <2>2. O!Part("cpub", p) = <<C(p, 1), C(p, 2)>>
    BY Parts
  <2>3. PubBuf(p) = <<O!Length(2), C(p, 1), C(p, 2), Q(p)>>
    BY Sizes DEF PubBuf
  <2> QED
    BY <1>3, <2>1, <2>2, <2>3
<1>6. O!Finish(Blank(pub, b, 3), "private") = Finished(p, b, 3)
  BY <1>4, <1>5, FinishBlank, Sizes
<1>7. Blank(pub, b, 3) # O!Free
  BY BlankHas
<1>8. O!oqsx_key_from_pkcs8(<<x>>) =
         IF O!Op_private(x) = O!Free THEN O!Free ELSE O!Finish(O!Op_private(x), "private")
  BY Sizes DEF O!oqsx_key_from_pkcs8
<1>9. O!Op_private(x) = Blank(pub, b, 3)
  BY DEF pub
<1> QED
  BY <1>6, <1>7, <1>8, <1>9

LEMMA HybridDecoded ==
    ASSUME NEW p \in Pairs, NEW k, k.pub = PubBuf(p), k.comp_pub = PubAt, k.priv \in PrivBufs(p),
           O!Hybrid
    PROVE  \E b \in PrivBufs(p) :
               O!oqsx_key_from_pkcs8(O!oqsx_pki_priv_to_der(k)) = Finished(p, b, 3)
<1> DEFINE b == PrivBuf(p) \o <<Z>>
           pub == <<O!Length(2), Z, Z, Q(p)>>
           pub0 == <<O!Length(2), Z, Z, Z>>
<1>1. ~O!Single /\ ~O!Composite /\ O!privkeylen = 6 /\ O!PartSize["qpub"] = 1 /\ O!PartSize["cpriv"] = 3
  BY Sizes
<1>2. O!Slice(k.pub, k.comp_pub[O!Pq], O!PartSize["qpub"]) = <<Q(p)>>
  BY PubParts, Sizes
<1>3. O!Length(2)[2] = 2 /\ O!Length(3)[2] = 3
  BY DEF O!Length
<1>4. O!Zeros(Space) = <<Z, Z, Z, Z, Z, Z, Z>> /\ O!Zeros(O!pubkeylen) = <<Z, Z, Z, Z>>
  BY <1>1, ZerosAre, Sizes DEF Space
<1>5. pub0 = O!Write(O!Zeros(O!pubkeylen), 1, <<O!Length(2)>>)
  BY <1>4, Writes4
<1>6. pub = O!Write(pub0, 4, <<Q(p)>>)
  BY Writes4
<1>7. b \in PrivBufs(p)
  BY <1>1 DEF PrivBufs
<1> HIDE DEF b, pub, pub0
<1>8. ASSUME NEW x, NEW actual \in Nat, NEW cut, O!oqsx_pki_priv_to_der(k) = <<x>>,
             x[1][2] = actual - 3, Len(x) = actual + 1,
             SubSeq(x, 1, actual) = cut, SubSeq(x, actual + 1, Len(x)) = <<Q(p)>>,
             O!Write(O!Zeros(Space), 1, cut) = b
      PROVE  O!oqsx_key_from_pkcs8(O!oqsx_pki_priv_to_der(k)) = Finished(p, b, 3)
  <2> DEFINE at == 4
  <2>1. actual = O!privkeylen - (IF O!Single THEN 0 ELSE 3 - x[1][2])
    BY <1>1, <1>8
  <2>2. /\ at = IF O!Single THEN 1 ELSE 4
        /\ pub0 = IF O!Single THEN O!Zeros(O!pubkeylen)
                  ELSE O!Write(O!Zeros(O!pubkeylen), 1, <<O!Length(2)>>)
    BY <1>1, <1>5
  <2>3. pub = O!Write(pub0, at, SubSeq(x, actual + 1, Len(x)))
    BY <1>6, <1>8
  <2>4. b = O!Write(O!Zeros(Space), 1, SubSeq(x, 1, actual))
    BY <1>8
  <2> HIDE DEF at
  <2>5. O!Op_private(x) = Blank(pub, b, 3)
    BY <1>8, <2>1, <2>2, <2>3, <2>4, OpPrivateIs
  <2> QED
    BY <1>7, <1>8, <2>5, HybridFinished DEF pub
<1>9. ASSUME NEW n \in {5, 6}, k.priv[1][2] = n - 3
      PROVE  O!oqsx_pki_priv_to_der(k) = <<SubSeq(k.priv, 1, n) \o <<Q(p)>>>>
  <2>1. O!privkeylen - (IF O!Single THEN 0 ELSE O!PartSize["cpriv"] - k.priv[1][2]) = n
    BY <1>1, <1>9
  <2>2. O!oqsx_pki_priv_to_der(k) =
           <<SubSeq(k.priv, 1, O!privkeylen - (IF O!Single THEN 0 ELSE O!PartSize["cpriv"] - k.priv[1][2]))
             \o O!Slice(k.pub, k.comp_pub[O!Pq], O!PartSize["qpub"])>>
    BY <1>1 DEF O!oqsx_pki_priv_to_der
  <2> QED
    BY <1>2, <2>1, <2>2
<1>10. CASE Short(p)
  <2> DEFINE x == <<O!Length(2), D(p, 1), D(p, 2), E(p, 1), E(p, 2), Q(p)>>
             cut == <<O!Length(2), D(p, 1), D(p, 2), E(p, 1), E(p, 2)>>
  <2>1. /\ k.priv[1] = O!Length(2) /\ k.priv[2] = D(p, 1) /\ k.priv[3] = D(p, 2)
        /\ k.priv[4] = E(p, 1) /\ k.priv[5] = E(p, 2)
    BY <1>10, PrivBufsAre
  <2>2. SubSeq(k.priv, 1, 5) = cut
    BY <2>1, CutsAt
  <2>3. cut \o <<Q(p)>> = x
    BY Join51
  <2>4. Len(x) = 5 + 1 /\ SubSeq(x, 1, 5) = cut /\ SubSeq(x, 6, 6) = <<Q(p)>> /\ x[1] = O!Length(2)
    BY CutsAt
  <2>5. O!Write(O!Zeros(Space), 1, cut) = <<O!Length(2), D(p, 1), D(p, 2), E(p, 1), E(p, 2), Z, Z>>
    BY <1>4, Writes7
  <2>6. b = <<O!Length(2), D(p, 1), D(p, 2), E(p, 1), E(p, 2), Z, Z>>
    BY <1>1, <1>10, Join61 DEF b, PrivBuf
  <2> HIDE DEF x, cut
  <2>7. O!oqsx_pki_priv_to_der(k) = <<x>>
    <3>1. k.priv[1][2] = 5 - 3
      BY <1>3, <2>1
    <3>2. O!oqsx_pki_priv_to_der(k) = <<SubSeq(k.priv, 1, 5) \o <<Q(p)>>>>
      BY <1>9, <3>1
    <3> QED
      BY <2>2, <2>3, <3>2
  <2>8. 5 + 1 = 6 /\ 5 - 3 = 2
    OBVIOUS
  <2>9. SubSeq(x, 5 + 1, Len(x)) = <<Q(p)>>
    BY <2>4, <2>8
  <2> QED
    BY <1>3, <1>7, <1>8, <2>4, <2>5, <2>6, <2>7, <2>8, <2>9
<1>11. CASE ~Short(p)
  <2> DEFINE x == <<O!Length(3), D(p, 1), D(p, 2), D(p, 3), E(p, 1), E(p, 2), Q(p)>>
             cut == <<O!Length(3), D(p, 1), D(p, 2), D(p, 3), E(p, 1), E(p, 2)>>
  <2>1. /\ k.priv[1] = O!Length(3) /\ k.priv[2] = D(p, 1) /\ k.priv[3] = D(p, 2)
        /\ k.priv[4] = D(p, 3) /\ k.priv[5] = E(p, 1) /\ k.priv[6] = E(p, 2)
    <3>1. k.priv \in {<<O!Length(3), D(p, 1), D(p, 2), D(p, 3), E(p, 1), E(p, 2)>>,
                      <<O!Length(3), D(p, 1), D(p, 2), D(p, 3), E(p, 1), E(p, 2), Z>>}
      BY <1>11, PrivBufsAre
    <3> QED
      BY <3>1
  <2>2. SubSeq(k.priv, 1, 6) = cut
    BY <2>1, CutsAt
  <2>3. cut \o <<Q(p)>> = x
    BY Join61
  <2>4. Len(x) = 6 + 1 /\ SubSeq(x, 1, 6) = cut /\ SubSeq(x, 7, 7) = <<Q(p)>> /\ x[1] = O!Length(3)
    BY CutsAt
  <2>5. O!Write(O!Zeros(Space), 1, cut) = <<O!Length(3), D(p, 1), D(p, 2), D(p, 3), E(p, 1), E(p, 2), Z>>
    BY <1>4, Writes7
  <2>6. b = <<O!Length(3), D(p, 1), D(p, 2), D(p, 3), E(p, 1), E(p, 2), Z>>
    BY <1>1, <1>11, Join61 DEF b, PrivBuf
  <2> HIDE DEF x, cut
  <2>7. O!oqsx_pki_priv_to_der(k) = <<x>>
    <3>1. k.priv[1][2] = 6 - 3
      BY <1>3, <2>1
    <3>2. O!oqsx_pki_priv_to_der(k) = <<SubSeq(k.priv, 1, 6) \o <<Q(p)>>>>
      BY <1>9, <3>1
    <3> QED
      BY <2>2, <2>3, <3>2
  <2>8. 6 + 1 = 7 /\ 6 - 3 = 3
    OBVIOUS
  <2>9. SubSeq(x, 6 + 1, Len(x)) = <<Q(p)>>
    BY <2>4, <2>8
  <2> QED
    BY <1>3, <1>7, <1>8, <2>4, <2>5, <2>6, <2>7, <2>8, <2>9
<1> QED
  BY <1>10, <1>11

LEMMA CompositeEncoded ==
    ASSUME NEW p \in Pairs, NEW k, k.pub = PubBuf(p), k.comp_pub = PubAt, k.priv \in PrivBufs(p),
           k.comp_priv = PrivAt(p), ~O!Rsa => k.cmplen = 3, O!Composite
    PROVE  O!oqsx_pki_priv_to_der(k) = <<<<E(p, 1), E(p, 2), Q(p)>>, O!Part("cpriv", p)>>
<1>1. O!Slice(k.pub, k.comp_pub[O!Pq], O!PartSize["qpub"]) = <<Q(p)>>
  BY PubParts, Sizes
<1>2. O!Slice(k.priv, k.comp_priv[O!Pq], O!PartSize["qpriv"]) = <<E(p, 1), E(p, 2)>>
  BY PrivParts, Sizes
<1>3. O!Holds(k.priv, k.comp_priv[O!Classic], "cpriv") = p
  BY PrivParts, Sizes
<1>4. (IF O!Rsa THEN O!RealLength(k.priv, k.comp_priv[O!Classic]) ELSE k.cmplen) = O!Actual("cpriv", p)
  BY <1>3, Parts DEF O!RealLength
<1>5. O!Slice(k.priv, k.comp_priv[O!Classic], O!Actual("cpriv", p)) = O!Part("cpriv", p)
  BY PrivParts, Sizes
<1>6. <<E(p, 1), E(p, 2)>> \o <<Q(p)>> = <<E(p, 1), E(p, 2), Q(p)>>
  BY Join21
<1>7. O!CompositeParts(k) =
         <<O!Slice(k.priv, k.comp_priv[O!Pq], O!PartSize["qpriv"])
           \o O!Slice(k.pub, k.comp_pub[O!Pq], O!PartSize["qpub"]),
           O!Slice(k.priv, k.comp_priv[O!Classic],
                   IF O!Rsa THEN O!RealLength(k.priv, k.comp_priv[O!Classic]) ELSE k.cmplen)>>
  BY DEF O!CompositeParts
<1>8. O!CompositeParts(k) = <<<<E(p, 1), E(p, 2), Q(p)>>, O!Part("cpriv", p)>>
  BY <1>1, <1>2, <1>4, <1>5, <1>6, <1>7
<1> QED
  BY <1>8 DEF O!oqsx_pki_priv_to_der

(* What the decoder makes of the joined parts. *)
LEMMA CompositeMade ==
    ASSUME NEW p \in Pairs, O!Composite, NEW x, NEW n, n = O!Actual("cpriv", p),
           O!Slice(x, 4, n) = O!Part("cpriv", p), Len(x) = 3 + n,
           SubSeq(x, 1, 2) = <<E(p, 1), E(p, 2)>>, O!Slice(x, 3, 1) = <<Q(p)>>
    PROVE  O!Op_private_composite(x, 6) = Blank(<<Q(p), Z, Z>>, PrivBuf(p), n)
<1> DEFINE new == O!oqsx_key_allocate_keymaterial(O!oqsx_key_new, TRUE)
           pub0 == O!oqsx_key_allocate_keymaterial(new, FALSE).pub
           real == IF O!Rsa THEN O!RealLength(x, 4) ELSE O!PartSize["cpriv"]
           cut == SubSeq(x, 1, 2) \o O!Slice(x, 4, real)
           pub == <<Q(p), Z, Z>>
           priv == PrivBuf(p)
<1>1. n \in {2, 3} /\ n = (IF Short(p) THEN 2 ELSE 3) /\ (~O!Rsa => n = 3)
  BY Parts
<1>2. O!Holds(x, 4, "cpriv") = p
  <2>1. 4 + O!Actual("cpriv", p) - 1 <= Len(x)
    BY <1>1
  <2> QED
    BY <2>1, HoldsIs
<1>3. real = n
  BY <1>1, <1>2, Sizes DEF O!RealLength
<1>4. O!Zeros(Space) = <<Z, Z, Z, Z, Z>> /\ O!Zeros(O!pubkeylen) = <<Z, Z, Z>>
  BY ZerosAre, Sizes DEF Space
<1>5. new = Blank(O!Null, O!Zeros(Space), 3) /\ pub0 = O!Zeros(O!pubkeylen)
  <2>1. O!oqsx_key_allocate_keymaterial(new, FALSE) = Blank(O!Zeros(O!pubkeylen), O!Zeros(Space), 3)
    BY Allocated DEF Blank
  <2>2. new = Blank(O!Null, O!Zeros(Space), 3)
    BY Allocated DEF Blank
  <2>3. Blank(O!Zeros(O!pubkeylen), O!Zeros(Space), 3).pub = O!Zeros(O!pubkeylen)
    BY BlankHas
  <2> HIDE DEF new
  <2> QED
    BY <2>1, <2>2, <2>3
<1>6. priv = O!Write(O!Zeros(Space), 1, cut)
  <2>1. cut = <<E(p, 1), E(p, 2)>> \o O!Part("cpriv", p)
    BY <1>3
  <2>2. CASE Short(p)
    <3>1. O!Part("cpriv", p) = <<D(p, 1), D(p, 2)>>
      BY <2>2, Parts
    <3>2. <<E(p, 1), E(p, 2)>> \o <<D(p, 1), D(p, 2)>> = <<E(p, 1), E(p, 2), D(p, 1), D(p, 2)>>
      BY Join22
    <3>3. priv = <<E(p, 1), E(p, 2), D(p, 1), D(p, 2), Z>>
      BY <2>2, Sizes DEF PrivBuf
    <3>4. O!Write(<<Z, Z, Z, Z, Z>>, 1, <<E(p, 1), E(p, 2), D(p, 1), D(p, 2)>>)
             = <<E(p, 1), E(p, 2), D(p, 1), D(p, 2), Z>>
      BY Writes5
    <3> HIDE DEF cut, priv
    <3> QED
      BY <1>4, <2>1, <3>1, <3>2, <3>3, <3>4
  <2>3. CASE ~Short(p)
    <3>1. O!Part("cpriv", p) = <<D(p, 1), D(p, 2), D(p, 3)>>
      BY <2>3, Parts
    <3>2. <<E(p, 1), E(p, 2)>> \o <<D(p, 1), D(p, 2), D(p, 3)>>
             = <<E(p, 1), E(p, 2), D(p, 1), D(p, 2), D(p, 3)>>
      BY Join23
    <3>3. priv = <<E(p, 1), E(p, 2), D(p, 1), D(p, 2), D(p, 3)>>
      BY <2>3, Sizes DEF PrivBuf
    <3>4. O!Write(<<Z, Z, Z, Z, Z>>, 1, <<E(p, 1), E(p, 2), D(p, 1), D(p, 2), D(p, 3)>>)
             = <<E(p, 1), E(p, 2), D(p, 1), D(p, 2), D(p, 3)>>
      BY Writes5
    <3> HIDE DEF cut, priv
    <3> QED
      BY <1>4, <2>1, <3>1, <3>2, <3>3, <3>4
  <2> QED
    BY <2>2, <2>3
<1>7. pub = O!Write(O!Zeros(O!pubkeylen), 1, <<Q(p)>>)
  BY <1>4, Writes3
<1> HIDE DEF priv, pub
<1>8. /\ 6 = O!privkeylen + O!PartSize["qpub"] /\ O!PartSize["qpriv"] + 1 = 3 /\ 3 - 1 = 2
      /\ 3 + O!PartSize["qpub"] = 4 /\ O!PartSize["qpub"] = 1
  BY Sizes
<1>9. O!Op_private_composite(x, 6) =
         [new EXCEPT !.priv = O!Write(new.priv, 1, cut), !.cmplen = real,
                     !.pub = O!Write(pub0, 1, O!Slice(x, 3, 1))]
  BY <1>8 DEF O!Op_private_composite
<1>10. new.priv = O!Zeros(Space)
  <2>1. Blank(O!Null, O!Zeros(Space), 3).priv = O!Zeros(Space)
    BY BlankHas
  <2> QED
    BY <1>5, <2>1
<1> HIDE DEF cut, real, new, pub0
<1>11. O!Op_private_composite(x, 6) =
          [Blank(O!Null, O!Zeros(Space), 3) EXCEPT !.priv = priv, !.cmplen = n, !.pub = pub]
  BY <1>3, <1>5, <1>6, <1>7, <1>9, <1>10
<1>12. [Blank(O!Null, O!Zeros(Space), 3) EXCEPT !.priv = priv] = Blank(O!Null, priv, 3)
  BY BlankWithPriv
<1>13. [Blank(O!Null, priv, 3) EXCEPT !.cmplen = n] = Blank(O!Null, priv, n)
  BY BlankWithLen
<1>14. [Blank(O!Null, priv, n) EXCEPT !.pub = pub] = Blank(pub, priv, n)
  BY BlankWithPub
<1> QED
  BY <1>11, <1>12, <1>13, <1>14 DEF pub, priv

LEMMA CompositeDecoded ==
    ASSUME NEW p \in Pairs, NEW k, k.pub = PubBuf(p), k.comp_pub = PubAt, k.priv \in PrivBufs(p),
           k.comp_priv = PrivAt(p), ~O!Rsa => k.cmplen = 3, O!Composite
    PROVE  O!oqsx_key_from_pkcs8(O!oqsx_pki_priv_to_der(k)) =
               Finished(p, PrivBuf(p), O!Actual("cpriv", p))
<1> DEFINE n == O!Actual("cpriv", p)
           head == <<E(p, 1), E(p, 2), Q(p)>>
           tail == O!Part("cpriv", p)
           x == head \o tail
           pub == <<Q(p), Z, Z>>
<1>1. n \in {2, 3} /\ n = (IF Short(p) THEN 2 ELSE 3) /\ (~O!Rsa => n = 3)
  BY Parts
<1>2. /\ O!Slice(x, 4, n) = tail /\ Len(x) = 3 + n /\ Len(tail) = n
      /\ SubSeq(x, 1, 2) = <<E(p, 1), E(p, 2)>> /\ O!Slice(x, 3, 1) = <<Q(p)>>
  <2>1. CASE Short(p)
    <3>1. tail = <<D(p, 1), D(p, 2)>> /\ n = 2
      BY <1>1, <2>1, Parts
    <3>2. x = <<E(p, 1), E(p, 2), Q(p), D(p, 1), D(p, 2)>>
      <4>1. head \o <<D(p, 1), D(p, 2)>> = <<E(p, 1), E(p, 2), Q(p), D(p, 1), D(p, 2)>>
        BY Join32
      <4> HIDE DEF head, tail
      <4> QED
        BY <3>1, <4>1
    <3> HIDE DEF x, tail, n
    <3>3. Len(x) = 5 /\ Len(tail) = 2 /\ x[1] = E(p, 1) /\ x[2] = E(p, 2) /\ x[3] = Q(p)
          /\ x[4] = D(p, 1) /\ x[5] = D(p, 2)
      BY <3>1, <3>2
    <3>4. SubSeq(x, 1, 2) = <<x[1], x[2]>> /\ O!Slice(x, 3, 1) = <<x[3]>> /\ O!Slice(x, 4, 2) = <<x[4], x[5]>>
      BY CutsAt DEF O!Slice
    <3> QED
      BY <3>1, <3>3, <3>4
  <2>2. CASE ~Short(p)
    <3>1. tail = <<D(p, 1), D(p, 2), D(p, 3)>> /\ n = 3
      BY <1>1, <2>2, Parts
    <3>2. x = <<E(p, 1), E(p, 2), Q(p), D(p, 1), D(p, 2), D(p, 3)>>
      <4>1. head \o <<D(p, 1), D(p, 2), D(p, 3)>> = <<E(p, 1), E(p, 2), Q(p), D(p, 1), D(p, 2), D(p, 3)>>
        BY Join33
      <4> HIDE DEF head, tail
      <4> QED
        BY <3>1, <4>1
    <3> HIDE DEF x, tail, n
    <3>3. Len(x) = 6 /\ Len(tail) = 3 /\ x[1] = E(p, 1) /\ x[2] = E(p, 2) /\ x[3] = Q(p)
          /\ x[4] = D(p, 1) /\ x[5] = D(p, 2) /\ x[6] = D(p, 3)
      BY <3>1, <3>2
    <3>4. SubSeq(x, 1, 2) = <<x[1], x[2]>> /\ O!Slice(x, 3, 1) = <<x[3]>>
          /\ O!Slice(x, 4, 3) = <<x[4], x[5], x[6]>>
      BY CutsAt DEF O!Slice
    <3> QED
      BY <3>1, <3>3, <3>4
  <2> QED
    BY <2>1, <2>2
<1>3. O!oqsx_pki_priv_to_der(k) = <<head, tail>>
  BY CompositeEncoded
<1>4. Len(x) + (IF O!Composite /\ O!Rsa THEN O!PartSize["cpriv"] - Len(tail) ELSE 0) = 6
  <2> DEFINE m == Len(tail)
             total == Len(x)
  <2>1. m = n /\ total = 3 + n
    BY <1>2
  <2> HIDE DEF m, total, n
  <2>2. total + (IF O!Composite /\ O!Rsa THEN O!PartSize["cpriv"] - m ELSE 0) = 6
    BY <1>1, <2>1, Sizes
  <2> QED
    BY <2>2 DEF m, total
<1>5. O!Op_private_composite(x, 6) = Blank(pub, PrivBuf(p), n)
  <2> HIDE DEF x, n
  <2> QED
    BY <1>2, CompositeMade DEF n
<1>6. PrivBuf(p) \in PrivBufs(p)
  BY DEF PrivBufs
<1>7. pub # O!Null
  BY DEF O!Null
<1>8. O!Write(pub, 2, <<C(p, 1), C(p, 2)>>) = <<Q(p), C(p, 1), C(p, 2)>>
  BY Writes3
<1> HIDE DEF pub, x, n, head, tail
<1>9. O!Offsets(pub, O!PartSize["qpub"]) = PubAt
  BY <1>7, Sizes DEF O!Offsets, PubAt
<1>10. O!Write(pub, PubAt[O!Classic], O!Part("cpub", p)) = PubBuf(p)
  <2>1. PubAt[O!Classic] = 2
    BY Sizes DEF PubAt
  <2>2. O!Part("cpub", p) = <<C(p, 1), C(p, 2)>>
    BY Parts
  <2>3. PubBuf(p) = <<Q(p), C(p, 1), C(p, 2)>>
    BY Sizes DEF PubBuf
  <2> QED
    BY <1>8, <2>1, <2>2, <2>3
<1>11. O!Finish(Blank(pub, PrivBuf(p), n), "private") = Finished(p, PrivBuf(p), n)
  BY <1>6, <1>9, <1>10, FinishBlank, Sizes
<1>12. Blank(pub, PrivBuf(p), n) # O!Free
  BY BlankHas
<1>13. O!oqsx_key_from_pkcs8(<<head, tail>>) =
          IF O!Op_private_composite(x, 6) = O!Free THEN O!Free
          ELSE O!Finish(O!Op_private_composite(x, 6), "private")
  <2>1. <<head, tail>>[1] = head /\ <<head, tail>>[2] = tail
    OBVIOUS
  <2> DEFINE der == <<head, tail>>
  <2> HIDE DEF der
  <2>2. O!oqsx_key_from_pkcs8(der) =
           LET q == der[1] \o der[2]
               m == Len(q) + (IF O!Composite /\ O!Rsa THEN O!PartSize["cpriv"] - Len(der[2]) ELSE 0)
               r == O!Op_private_composite(q, m)
           IN  IF r = O!Free THEN O!Free ELSE O!Finish(r, "private")
    BY DEF O!oqsx_key_from_pkcs8
  <2> QED
    BY <1>4, <2>1, <2>2 DEF x, der
<1> QED
  BY <1>3, <1>5, <1>11, <1>12, <1>13 DEF n

LEMMA PrivateDecoded ==
    ASSUME NEW p \in Pairs, NEW k, k.pub = PubBuf(p), k.comp_pub = PubAt, k.priv \in PrivBufs(p),
           k.comp_priv = PrivAt(p), ~O!Rsa => k.cmplen = 3
    PROVE  \E b \in PrivBufs(p), n \in 1 .. 3 :
               /\ O!oqsx_key_from_pkcs8(O!oqsx_pki_priv_to_der(k)) = Finished(p, b, n)
               /\ ~O!Rsa => n = 3
<1>1. CASE O!Single
  BY <1>1, SingleDecoded
<1>2. CASE O!Hybrid
  BY <1>2, HybridDecoded
<1>3. CASE O!Composite
  <2> DEFINE n == O!Actual("cpriv", p)
             b == PrivBuf(p)
  <2>1. n \in 1 .. 3 /\ (~O!Rsa => n = 3)
    BY Parts
  <2>2. b \in PrivBufs(p)
    BY DEF PrivBufs
  <2>3. O!oqsx_key_from_pkcs8(O!oqsx_pki_priv_to_der(k)) = Finished(p, b, n)
    BY <1>3, CompositeDecoded
  <2> HIDE DEF n, b
  <2> QED
    BY <2>1, <2>2, <2>3
<1> QED
  BY <1>1, <1>2, <1>3, Sizes

(* The classical part of the public half is written over itself when the whole half came. *)
LEMMA PubAgain ==
    ASSUME NEW p \in Pairs, ~O!Single
    PROVE  O!Write(PubBuf(p), PubAt[O!Classic], O!Part("cpub", p)) = PubBuf(p)
<1>1. PubAt[O!Classic] = 2
  BY Sizes DEF PubAt
<1>2. O!Part("cpub", p) = <<C(p, 1), C(p, 2)>>
  BY Parts
<1>3. CASE O!Hybrid
  <2>1. PubBuf(p) = <<O!Length(2), C(p, 1), C(p, 2), Q(p)>>
    BY <1>3, Sizes DEF PubBuf
  <2>2. O!Write(<<O!Length(2), C(p, 1), C(p, 2), Q(p)>>, 2, <<C(p, 1), C(p, 2)>>)
           = <<O!Length(2), C(p, 1), C(p, 2), Q(p)>>
    BY Writes4
  <2> QED
    BY <1>1, <1>2, <2>1, <2>2
<1>4. CASE O!Composite
  <2>1. PubBuf(p) = <<Q(p), C(p, 1), C(p, 2)>>
    BY <1>4, Sizes DEF PubBuf
  <2>2. O!Write(<<Q(p), C(p, 1), C(p, 2)>>, 2, <<C(p, 1), C(p, 2)>>) = <<Q(p), C(p, 1), C(p, 2)>>
    BY Writes3
  <2> QED
    BY <1>1, <1>2, <2>1, <2>2
<1> QED
  BY <1>3, <1>4, Sizes

LEMMA PrivLen == \A p \in Pairs : Len(PrivBuf(p)) = O!privkeylen
<1> SUFFICES ASSUME NEW p \in Pairs PROVE Len(PrivBuf(p)) = O!privkeylen
  OBVIOUS
<1>1. CASE O!Single
  BY <1>1, Sizes DEF PrivBuf
<1>2. CASE O!Hybrid /\ Short(p)
  BY <1>2, Sizes DEF PrivBuf
<1>3. CASE O!Hybrid /\ ~Short(p)
  BY <1>3, Sizes DEF PrivBuf
<1>4. CASE O!Composite
  BY <1>4, Sizes DEF PrivBuf
<1> QED
  BY <1>1, <1>2, <1>3, <1>4, Sizes

(* Imported objects: the private half without the space behind it, with the public half or
   alone, or the public half. *)
LEMMA PrivateImported ==
    ASSUME NEW p \in Pairs, NEW k, k.pub = PubBuf(p), k.priv \in PrivBufs(p)
    PROVE  \E b \in PrivBufs(p) :
               O!oqsx_key_fromdata(O!oqsx_key_to_params(k, {"pub", "priv"})) = Finished(p, b, 3)
<1> DEFINE b == PrivBuf(p)
           pub == PubBuf(p)
           new == O!oqsx_key_new
           null == O!Null
<1>1. b \in PrivBufs(p)
  BY DEF PrivBufs
<1>2. SubSeq(k.priv, 1, O!privkeylen) = b /\ b # O!Null
  BY <1>1, PrivParts
<1>3. Len(b) = O!privkeylen /\ Len(pub) = O!pubkeylen
  BY PrivLen, PubParts
<1>4. O!Offsets(pub, O!PartSize["qpub"]) = PubAt
  BY PointersAre
<1>5. ~O!Single => O!Write(pub, PubAt[O!Classic], O!Part("cpub", p)) = pub
  BY PubAgain
<1>6. new = Blank(O!Null, O!Null, 3)
  BY Sizes DEF O!oqsx_key_new, Blank
<1> HIDE DEF b, pub, new, null
<1>7. O!oqsx_key_to_params(k, {"pub", "priv"}) = [pub |-> pub, priv |-> b]
  BY <1>2 DEF O!oqsx_key_to_params, pub
<1>8. O!oqsx_key_fromdata([pub |-> pub, priv |-> b]) =
         O!Finish([new EXCEPT !.pub = pub, !.priv = b], "private")
  BY <1>2, <1>3 DEF O!oqsx_key_fromdata, new
<1>9. [new EXCEPT !.pub = pub, !.priv = b] = Blank(pub, b, 3)
  <2>1. [Blank(null, null, 3) EXCEPT !.pub = pub] = Blank(pub, null, 3)
    BY BlankWithPub
  <2>2. [Blank(pub, null, 3) EXCEPT !.priv = b] = Blank(pub, b, 3)
    BY BlankWithPriv
  <2> QED
    BY <1>6, <2>1, <2>2 DEF null
<1>10. O!Finish(Blank(pub, b, 3), "private") = Finished(p, b, 3)
  BY <1>1, <1>4, <1>5, FinishBlank DEF pub
<1> QED
  BY <1>1, <1>7, <1>8, <1>9, <1>10

LEMMA NothingWritten == \A at, s : O!Write(O!Null, at, s) = O!Null
<1> SUFFICES ASSUME NEW at, NEW s PROVE O!Write(O!Null, at, s) = O!Null
  OBVIOUS
<1>1. Len(O!Null) = 0 /\ 1 .. 0 = {}
  BY DEF O!Null
<1> QED
  BY <1>1 DEF O!Write, O!Null

LEMMA AloneImported ==
    ASSUME NEW p \in Pairs, NEW k, k.priv \in PrivBufs(p)
    PROVE  \E b \in PrivBufs(p) :
               O!oqsx_key_fromdata(O!oqsx_key_to_params(k, {"priv"})) = Publess(p, b)
<1> DEFINE b == PrivBuf(p)
           new == O!oqsx_key_new
           null == O!Null
           pat == <<0, 0>>
<1>1. b \in PrivBufs(p)
  BY DEF PrivBufs
<1>2. SubSeq(k.priv, 1, O!privkeylen) = b /\ b # O!Null
  BY <1>1, PrivParts
<1>3. Len(b) = O!privkeylen
  BY PrivLen
<1>4. O!Offsets(O!Null, O!PartSize["qpub"]) = pat
  BY PointersAre
<1>5. O!Write(O!Null, pat[O!Classic], O!Part("cpub", p)) = O!Null
  BY NothingWritten
<1>6. new = Blank(O!Null, O!Null, 3)
  BY Sizes DEF O!oqsx_key_new, Blank
<1> HIDE DEF b, new, null, pat
<1>7. O!oqsx_key_to_params(k, {"priv"}) = [pub |-> null, priv |-> b]
  BY <1>2 DEF O!oqsx_key_to_params, null
<1>8. O!oqsx_key_fromdata([pub |-> null, priv |-> b]) =
         O!Finish([new EXCEPT !.pub = null, !.priv = b], "private")
  BY <1>2, <1>3 DEF O!oqsx_key_fromdata, new, null
<1>9. [new EXCEPT !.pub = null, !.priv = b] = Blank(null, b, 3)
  <2>1. [Blank(null, null, 3) EXCEPT !.pub = null] = Blank(null, null, 3)
    BY BlankWithPub
  <2>2. [Blank(null, null, 3) EXCEPT !.priv = b] = Blank(null, b, 3)
    BY BlankWithPriv
  <2> QED
    BY <1>6, <2>1, <2>2 DEF null
<1>10. PICK r, c : r = Blank(null, b, 3) /\ c = b
  OBVIOUS
<1>11. r = [of |-> 0, pub |-> null, priv |-> c, comp_pub |-> <<O!Stray, O!Stray>>,
            comp_priv |-> <<O!Stray, O!Stray>>, classical |-> O!NoEvp, cmplen |-> 3]
  BY <1>10 DEF Blank
<1>12. /\ O!Offsets(null, O!PartSize["qpub"]) = pat
       /\ ~O!Single => O!Write(null, pat[O!Classic], O!Part("cpub", p)) = null
  BY <1>4, <1>5 DEF null
<1>13. O!Finish(r, "private") = Ended(p, c, 3, null, pat)
  BY <1>1, <1>10, <1>11, <1>12, FinishPrivate
<1>14. O!Finish(r, "private") = Publess(p, b)
  BY <1>10, <1>13 DEF Publess, null, pat
<1> QED
  BY <1>1, <1>7, <1>8, <1>9, <1>10, <1>14

LEMMA PublicImported ==
    ASSUME NEW p \in Pairs, NEW k, k.pub = PubBuf(p)
    PROVE  O!oqsx_key_fromdata(O!oqsx_key_to_params(k, {"pub"})) =
               [of |-> 0, pub |-> PubBuf(p), priv |-> O!Null, comp_pub |-> PubAt,
                comp_priv |-> <<0, 0>>, cmplen |-> 3,
                classical |-> IF O!Single THEN O!NoEvp ELSE [of |-> p, private |-> FALSE]]
<1> DEFINE pub == PubBuf(p)
           new == O!oqsx_key_new
           null == O!Null
<1>1. Len(pub) = O!pubkeylen
  BY PubParts
<1>2. new = Blank(null, null, 3)
  BY Sizes DEF O!oqsx_key_new, Blank
<1> HIDE DEF pub, new, null
<1>3. O!oqsx_key_to_params(k, {"pub"}) = [pub |-> pub, priv |-> null]
  BY DEF O!oqsx_key_to_params, pub, null
<1>4. O!oqsx_key_fromdata([pub |-> pub, priv |-> null]) =
         O!Finish([new EXCEPT !.pub = pub, !.priv = null], "public")
  BY <1>1 DEF O!oqsx_key_fromdata, new, null
<1>5. [new EXCEPT !.pub = pub, !.priv = null] = Blank(pub, null, 3)
  <2>1. [Blank(null, null, 3) EXCEPT !.pub = pub] = Blank(pub, null, 3)
    BY BlankWithPub
  <2>2. [Blank(pub, null, 3) EXCEPT !.priv = null] = Blank(pub, null, 3)
    BY BlankWithPriv
  <2> QED
    BY <1>2, <2>1, <2>2
<1>6. PICK r : r = Blank(pub, null, 3)
  OBVIOUS
<1>7. r = [of |-> 0, pub |-> PubBuf(p), priv |-> O!Null, comp_pub |-> <<O!Stray, O!Stray>>,
           comp_priv |-> <<O!Stray, O!Stray>>, classical |-> O!NoEvp, cmplen |-> 3]
  BY <1>6 DEF Blank, pub, null
<1> QED
  BY <1>3, <1>4, <1>5, <1>6, <1>7, FinishPublic

(* Generation, by the layout of the key. *)
Full(pub, priv, x, y, evp) ==
    [of |-> 0, pub |-> pub, priv |-> priv, comp_pub |-> x, comp_priv |-> y, classical |-> evp,
     cmplen |-> 3]
LEMMA FullHas ==
    ASSUME NEW pub, NEW priv, NEW x, NEW y, NEW evp
    PROVE  LET k == Full(pub, priv, x, y, evp)
           IN  k.pub = pub /\ k.priv = priv /\ k.comp_pub = x /\ k.comp_priv = y
  BY DEF Full

LEMMA FullWithPub ==
    ASSUME NEW pub, NEW priv, NEW x, NEW y, NEW evp, NEW v
    PROVE  [Full(pub, priv, x, y, evp) EXCEPT !["pub"] = v] = Full(v, priv, x, y, evp)
<1> DEFINE zero == 0
           three == 3
<1> HIDE DEF zero, three
<1>1. PICK k : k = Full(pub, priv, x, y, evp)
  OBVIOUS
<1>2. k = [of |-> zero, pub |-> pub, priv |-> priv, comp_pub |-> x, comp_priv |-> y,
           classical |-> evp, cmplen |-> three]
  BY <1>1 DEF Full, zero, three
<1>3. [k EXCEPT !["pub"] = v] =
         [of |-> zero, pub |-> v, priv |-> priv, comp_pub |-> x, comp_priv |-> y,
          classical |-> evp, cmplen |-> three]
  BY <1>2
<1> QED
  BY <1>1, <1>3 DEF Full, zero, three

LEMMA FullWithPriv ==
    ASSUME NEW pub, NEW priv, NEW x, NEW y, NEW evp, NEW v
    PROVE  [Full(pub, priv, x, y, evp) EXCEPT !["priv"] = v] = Full(pub, v, x, y, evp)
<1> DEFINE zero == 0
           three == 3
<1> HIDE DEF zero, three
<1>1. PICK k : k = Full(pub, priv, x, y, evp)
  OBVIOUS
<1>2. k = [of |-> zero, pub |-> pub, priv |-> priv, comp_pub |-> x, comp_priv |-> y,
           classical |-> evp, cmplen |-> three]
  BY <1>1 DEF Full, zero, three
<1>3. [k EXCEPT !["priv"] = v] =
         [of |-> zero, pub |-> pub, priv |-> v, comp_pub |-> x, comp_priv |-> y,
          classical |-> evp, cmplen |-> three]
  BY <1>2
<1> QED
  BY <1>1, <1>3 DEF Full, zero, three

LEMMA FullWithEvp ==
    ASSUME NEW pub, NEW priv, NEW x, NEW y, NEW evp, NEW v
    PROVE  [Full(pub, priv, x, y, evp) EXCEPT !.classical = v] = Full(pub, priv, x, y, v)
<1> DEFINE zero == 0
           three == 3
<1> HIDE DEF zero, three
<1>1. PICK k : k = Full(pub, priv, x, y, evp)
  OBVIOUS
<1>2. k = [of |-> zero, pub |-> pub, priv |-> priv, comp_pub |-> x, comp_priv |-> y,
           classical |-> evp, cmplen |-> three]
  BY <1>1 DEF Full, zero, three
<1>3. [k EXCEPT !.classical = v] =
         [of |-> zero, pub |-> pub, priv |-> priv, comp_pub |-> x, comp_priv |-> y,
          classical |-> v, cmplen |-> three]
  BY <1>2
<1> QED
  BY <1>1, <1>3 DEF Full, zero, three

LEMMA FullPlaced ==
    ASSUME NEW pub, NEW priv, NEW x, NEW y, NEW evp
    PROVE  O!oqsx_key_set_composites(Full(pub, priv, x, y, evp)) =
               Full(pub, priv, O!Offsets(pub, O!PartSize["qpub"]),
                    O!Offsets(priv, O!PartSize["qpriv"]), evp)
<1>1. PICK k : k = Full(pub, priv, x, y, evp)
  OBVIOUS
<1>2. k = [of |-> 0, pub |-> pub, priv |-> priv, comp_pub |-> x, comp_priv |-> y,
           classical |-> evp, cmplen |-> 3]
  BY <1>1 DEF Full
<1> DEFINE a == O!Offsets(pub, O!PartSize["qpub"])
           b == O!Offsets(priv, O!PartSize["qpriv"])
<1>3. O!oqsx_key_set_composites(k) =
         [of |-> 0, pub |-> pub, priv |-> priv, comp_pub |-> a, comp_priv |-> b,
          classical |-> evp, cmplen |-> 3]
  BY <1>2, Placed
<1> HIDE DEF a, b
<1> QED
  BY <1>1, <1>3 DEF Full, a, b

(* A part is written where its pointer says. *)
LEMMA WritesPub ==
    ASSUME NEW pub, NEW priv, NEW x, NEW y, NEW evp, NEW p, NEW kind \in {"cpub", "qpub"},
           NEW v, v = O!Write(pub, x[IF kind = "cpub" THEN O!Classic ELSE O!Pq], O!Part(kind, p))
    PROVE  O!Generated(Full(pub, priv, x, y, evp), p, kind) = Full(v, priv, x, y, evp)
<1>1. PICK k : k = Full(pub, priv, x, y, evp)
  OBVIOUS
<1>2. k["pub"] = pub /\ k.comp_pub = x
  BY <1>1, FullHas
<1>3. O!Generated(k, p, kind) = [k EXCEPT !["pub"] = v]
  BY <1>2 DEF O!Generated
<1>4. [Full(pub, priv, x, y, evp) EXCEPT !["pub"] = v] = Full(v, priv, x, y, evp)
  BY FullWithPub
<1> QED
  BY <1>1, <1>3, <1>4

LEMMA WritesPriv ==
    ASSUME NEW pub, NEW priv, NEW x, NEW y, NEW evp, NEW p, NEW kind \in {"cpriv", "qpriv"},
           NEW v, v = O!Write(priv, y[IF kind = "cpriv" THEN O!Classic ELSE O!Pq], O!Part(kind, p))
    PROVE  O!Generated(Full(pub, priv, x, y, evp), p, kind) = Full(pub, v, x, y, evp)
<1>1. PICK k : k = Full(pub, priv, x, y, evp)
  OBVIOUS
<1>2. k["priv"] = priv /\ k.comp_priv = y
  BY <1>1, FullHas
<1>3. O!Generated(k, p, kind) = [k EXCEPT !["priv"] = v]
  BY <1>2 DEF O!Generated
<1>4. [Full(pub, priv, x, y, evp) EXCEPT !["priv"] = v] = Full(pub, v, x, y, evp)
  BY FullWithPriv
<1> QED
  BY <1>1, <1>3, <1>4

LEMMA NdxWrites ==
    ASSUME NEW pub, NEW priv, NEW x, NEW y, NEW evp, NEW p, NEW v, NEW w,
           v = O!Write(pub, x[O!Pq], O!Part("qpub", p)),
           w = O!Write(priv, y[O!Pq], O!Part("qpriv", p))
    PROVE  O!lunax_oqsx_key_gen_oqs_ndx(Full(pub, priv, x, y, evp), p) = Full(v, w, x, y, evp)
<1>1. O!Generated(Full(pub, priv, x, y, evp), p, "qpub") = Full(v, priv, x, y, evp)
  BY WritesPub
<1>2. O!Generated(Full(v, priv, x, y, evp), p, "qpriv") = Full(v, w, x, y, evp)
  BY WritesPriv
<1> QED
  BY <1>1, <1>2 DEF O!lunax_oqsx_key_gen_oqs_ndx

(* What a generated key has, before it is given its pair. *)
Made(p, priv) ==
    Full(PubBuf(p), priv, PubAt, PrivAt(p),
         IF O!Single THEN O!NoEvp ELSE [of |-> p, private |-> TRUE])
NewKey ==
    O!oqsx_key_allocate_keymaterial(O!oqsx_key_allocate_keymaterial(O!oqsx_key_new, FALSE), TRUE)
LEMMA NewKeyIs ==
    NewKey = Full(O!Zeros(O!pubkeylen), O!Zeros(Space), <<O!Stray, O!Stray>>,
                  <<O!Stray, O!Stray>>, O!NoEvp)
  BY Allocated DEF NewKey, Full

LEMMA SingleGenerated ==
    ASSUME NEW p \in Pairs, O!Single
    PROVE  \E b \in PrivBufs(p) :
               O!lunax_oqsx_key_gen_oqs_ndx(O!oqsx_key_set_composites(NewKey), p) = Made(p, b)
<1> DEFINE b == <<E(p, 1), E(p, 2), Z>>
           pub == <<Q(p)>>
           zpub == <<Z>>
           zpriv == <<Z, Z, Z>>
           at == <<1, 0>>
<1>1. b \in PrivBufs(p)
  <2>1. PrivBuf(p) = <<E(p, 1), E(p, 2)>>
    BY DEF PrivBuf
  <2>2. <<E(p, 1), E(p, 2)>> \o <<Z>> = b
    BY Join21
  <2> QED
    BY <2>1, <2>2, Sizes DEF PrivBufs
<1>2. O!Zeros(Space) = zpriv /\ O!Zeros(O!pubkeylen) = zpub
  BY ZerosAre, Sizes DEF Space
<1>3. b = O!Write(zpriv, 1, <<E(p, 1), E(p, 2)>>)
  BY Writes3
<1>4. pub = O!Write(zpub, 1, <<Q(p)>>)
  BY Writes1
<1>5. PubBuf(p) = pub /\ PubAt = at /\ PrivAt(p) = at /\ at[1] = 1
  BY DEF PubBuf, PubAt, PrivAt
<1>6. O!Offsets(zpub, O!PartSize["qpub"]) = at /\ O!Offsets(zpriv, O!PartSize["qpriv"]) = at
  <2>1. zpub # O!Null /\ zpriv # O!Null
    BY DEF O!Null
  <2> HIDE DEF zpub, zpriv
  <2> QED
    BY <2>1 DEF O!Offsets
<1>7. at[O!Pq] = 1
  BY Sizes
<1>8. O!Part("qpub", p) = <<Q(p)>> /\ O!Part("qpriv", p) = <<E(p, 1), E(p, 2)>>
  BY Parts
<1> HIDE DEF b, pub, zpub, zpriv, at
<1>9. O!oqsx_key_set_composites(NewKey) = Full(zpub, zpriv, at, at, O!NoEvp)
  BY <1>2, <1>6, NewKeyIs, FullPlaced
<1>10. O!lunax_oqsx_key_gen_oqs_ndx(Full(zpub, zpriv, at, at, O!NoEvp), p) =
          Full(pub, b, at, at, O!NoEvp)
  BY <1>3, <1>4, <1>7, <1>8, NdxWrites
<1>11. Made(p, b) = Full(pub, b, at, at, O!NoEvp)
  BY <1>5 DEF Made
<1> QED
  BY <1>1, <1>9, <1>10, <1>11

LEMMA HybridGenerated ==
    ASSUME NEW p \in Pairs, O!Hybrid
    PROVE  \E b \in PrivBufs(p) :
               O!lunax_oqsx_key_gen_oqs_ndx(O!lunax_oqsx_key_gen_evp_key(NewKey, p), p) = Made(p, b)
<1> DEFINE zpub == <<Z, Z, Z, Z>>
           zpriv == <<Z, Z, Z, Z, Z, Z, Z>>
           stray == <<O!Stray, O!Stray>>
           evp == [of |-> p, private |-> TRUE]
           cpub == O!Part("cpub", p)
           cpriv == O!Part("cpriv", p)
           pub1 == <<O!Length(2), C(p, 1), C(p, 2), Z>>
           priv1 == IF Short(p) THEN <<O!Length(2), D(p, 1), D(p, 2), Z, Z, Z, Z>>
                    ELSE <<O!Length(3), D(p, 1), D(p, 2), D(p, 3), Z, Z, Z>>
           pub2 == <<O!Length(2), C(p, 1), C(p, 2), Q(p)>>
           b == IF Short(p) THEN <<O!Length(2), D(p, 1), D(p, 2), E(p, 1), E(p, 2), Z, Z>>
                ELSE <<O!Length(3), D(p, 1), D(p, 2), D(p, 3), E(p, 1), E(p, 2), Z>>
           at == PubAt
           pat == PrivAt(p)
<1>1. NewKey = Full(zpub, zpriv, stray, stray, O!NoEvp)
  <2>1. O!Zeros(Space) = zpriv /\ O!Zeros(O!pubkeylen) = zpub
    BY ZerosAre, Sizes DEF Space
  <2> HIDE DEF zpub, zpriv
  <2> QED
    BY <2>1, NewKeyIs
<1>2. pub1 = O!Write(zpub, 1, <<O!Length(Len(cpub))>> \o cpub)
  <2>1. cpub = <<C(p, 1), C(p, 2)>>
    BY Parts
  <2>2. Len(cpub) = 2
    BY <2>1
  <2>3. <<O!Length(2)>> \o <<C(p, 1), C(p, 2)>> = <<O!Length(2), C(p, 1), C(p, 2)>>
    BY Join12
  <2>4. O!Write(<<Z, Z, Z, Z>>, 1, <<O!Length(2), C(p, 1), C(p, 2)>>) = <<O!Length(2), C(p, 1), C(p, 2), Z>>
    BY Writes4
  <2> HIDE DEF cpub
  <2> QED
    BY <2>1, <2>2, <2>3, <2>4
<1>3. priv1 = O!Write(zpriv, 1, <<O!Length(Len(cpriv))>> \o cpriv)
  <2>1. CASE Short(p)
    <3>1. cpriv = <<D(p, 1), D(p, 2)>>
      BY <2>1, Parts
    <3>2. Len(cpriv) = 2
      BY <3>1
    <3>3. <<O!Length(2)>> \o <<D(p, 1), D(p, 2)>> = <<O!Length(2), D(p, 1), D(p, 2)>>
      BY Join12
    <3>4. O!Write(<<Z, Z, Z, Z, Z, Z, Z>>, 1, <<O!Length(2), D(p, 1), D(p, 2)>>)
             = <<O!Length(2), D(p, 1), D(p, 2), Z, Z, Z, Z>>
      BY Writes7
    <3> HIDE DEF cpriv
    <3> QED
      BY <2>1, <3>1, <3>2, <3>3, <3>4
  <2>2. CASE ~Short(p)
    <3>1. cpriv = <<D(p, 1), D(p, 2), D(p, 3)>>
      BY <2>2, Parts
    <3>2. Len(cpriv) = 3
      BY <3>1
    <3>3. <<O!Length(3)>> \o <<D(p, 1), D(p, 2), D(p, 3)>> = <<O!Length(3), D(p, 1), D(p, 2), D(p, 3)>>
      BY Join13
    <3>4. O!Write(<<Z, Z, Z, Z, Z, Z, Z>>, 1, <<O!Length(3), D(p, 1), D(p, 2), D(p, 3)>>)
             = <<O!Length(3), D(p, 1), D(p, 2), D(p, 3), Z, Z, Z>>
      BY Writes7
    <3> HIDE DEF cpriv
    <3> QED
      BY <2>2, <3>1, <3>2, <3>3, <3>4
  <2> QED
    BY <2>1, <2>2
<1>4. O!Offsets(pub1, O!PartSize["qpub"]) = at
  <2>1. pub1 # O!Null /\ pub1[1] = O!Length(2)
    BY DEF O!Null
  <2>2. O!Length(2)[2] = 2
    BY DEF O!Length
  <2> HIDE DEF pub1
  <2> QED
    BY <2>1, <2>2, Sizes DEF O!Offsets, PubAt
<1>5. O!Offsets(priv1, O!PartSize["qpriv"]) = pat
  <2>1. priv1 # O!Null /\ priv1[1] = O!Length(IF Short(p) THEN 2 ELSE 3)
    BY DEF O!Null
  <2>2. O!Length(2)[2] = 2 /\ O!Length(3)[2] = 3
    BY DEF O!Length
  <2> HIDE DEF priv1
  <2> QED
    BY <2>1, <2>2, Sizes DEF O!Offsets, PrivAt
<1>6. pub2 = O!Write(pub1, at[O!Pq], O!Part("qpub", p))
  <2>1. at[O!Pq] = 4
    BY Sizes DEF PubAt
  <2>2. O!Part("qpub", p) = <<Q(p)>>
    BY Parts
  <2>3. O!Write(<<O!Length(2), C(p, 1), C(p, 2), Z>>, 4, <<Q(p)>>) = <<O!Length(2), C(p, 1), C(p, 2), Q(p)>>
    BY Writes4
  <2> QED
    BY <2>1, <2>2, <2>3
<1>7. b = O!Write(priv1, pat[O!Pq], O!Part("qpriv", p))
  <2>1. pat[O!Pq] = IF Short(p) THEN 4 ELSE 5
    BY Sizes DEF PrivAt
  <2>2. O!Part("qpriv", p) = <<E(p, 1), E(p, 2)>>
    BY Parts
  <2>3. O!Write(<<O!Length(2), D(p, 1), D(p, 2), Z, Z, Z, Z>>, 4, <<E(p, 1), E(p, 2)>>)
           = <<O!Length(2), D(p, 1), D(p, 2), E(p, 1), E(p, 2), Z, Z>>
    BY Writes7
  <2>4. O!Write(<<O!Length(3), D(p, 1), D(p, 2), D(p, 3), Z, Z, Z>>, 5, <<E(p, 1), E(p, 2)>>)
           = <<O!Length(3), D(p, 1), D(p, 2), D(p, 3), E(p, 1), E(p, 2), Z>>
    BY Writes7
  <2> HIDE DEF pat
  <2> QED
    BY <2>1, <2>2, <2>3, <2>4
<1>8. b \in PrivBufs(p)
  <2>1. CASE Short(p)
    <3>1. PrivBuf(p) = <<O!Length(2), D(p, 1), D(p, 2), E(p, 1), E(p, 2), Z>>
      BY <2>1, Sizes DEF PrivBuf
    <3>2. <<O!Length(2), D(p, 1), D(p, 2), E(p, 1), E(p, 2), Z>> \o <<Z>> = b
      BY <2>1, Join61
    <3> HIDE DEF b
    <3> QED
      BY <3>1, <3>2, Sizes DEF PrivBufs
  <2>2. CASE ~Short(p)
    <3>1. PrivBuf(p) = <<O!Length(3), D(p, 1), D(p, 2), D(p, 3), E(p, 1), E(p, 2)>>
      BY <2>2, Sizes DEF PrivBuf
    <3>2. <<O!Length(3), D(p, 1), D(p, 2), D(p, 3), E(p, 1), E(p, 2)>> \o <<Z>> = b
      BY <2>2, Join61
    <3> HIDE DEF b
    <3> QED
      BY <3>1, <3>2, Sizes DEF PrivBufs
  <2> QED
    BY <2>1, <2>2
<1>9. pub2 = PubBuf(p)
  BY Sizes DEF PubBuf
<1> HIDE DEF zpub, zpriv, stray, evp, cpub, cpriv, pub1, priv1, pub2, b, at, pat
<1>10. O!lunax_oqsx_key_gen_evp_key(NewKey, p) = Full(pub1, priv1, at, pat, evp)
  <2> DEFINE k == Full(zpub, zpriv, stray, stray, O!NoEvp)
  <2>1. k.pub = zpub /\ k.priv = zpriv
    BY FullHas
  <2>2. O!lunax_oqsx_key_gen_evp_key(NewKey, p) =
           [O!oqsx_key_set_composites([k EXCEPT !.pub = pub1, !.priv = priv1]) EXCEPT !.classical = evp]
    <3> HIDE DEF k
    <3>1. ~O!Composite
      BY Sizes
    <3> QED
      BY <1>1, <1>2, <1>3, <2>1, <3>1 DEF O!lunax_oqsx_key_gen_evp_key, k, evp, cpub, cpriv
  <2>3. [k EXCEPT !["pub"] = pub1] = Full(pub1, zpriv, stray, stray, O!NoEvp)
    BY FullWithPub
  <2>4. [Full(pub1, zpriv, stray, stray, O!NoEvp) EXCEPT !["priv"] = priv1]
          = Full(pub1, priv1, stray, stray, O!NoEvp)
    BY FullWithPriv
  <2>5. O!oqsx_key_set_composites(Full(pub1, priv1, stray, stray, O!NoEvp)) =
           Full(pub1, priv1, at, pat, O!NoEvp)
    BY <1>4, <1>5, FullPlaced
  <2>6. [Full(pub1, priv1, at, pat, O!NoEvp) EXCEPT !.classical = evp] = Full(pub1, priv1, at, pat, evp)
    BY FullWithEvp
  <2> HIDE DEF k
  <2> QED
    BY <2>2, <2>3, <2>4, <2>5, <2>6
<1>11. O!lunax_oqsx_key_gen_oqs_ndx(Full(pub1, priv1, at, pat, evp), p) = Full(pub2, b, at, pat, evp)
  BY <1>6, <1>7, NdxWrites
<1>12. Made(p, b) = Full(pub2, b, at, pat, evp)
  BY <1>9, Sizes DEF Made, at, pat, evp
<1> QED
  BY <1>8, <1>10, <1>11, <1>12

LEMMA CompositeGenerated ==
    ASSUME NEW p \in Pairs, O!Composite
    PROVE  O!lunax_oqsx_key_gen_evp_key(
               O!lunax_oqsx_key_gen_oqs_ndx(O!oqsx_key_set_composites(NewKey), p), p) = Made(p, PrivBuf(p))
<1> DEFINE zpub == <<Z, Z, Z>>
           zpriv == <<Z, Z, Z, Z, Z>>
           stray == <<O!Stray, O!Stray>>
           evp == [of |-> p, private |-> TRUE]
           pub1 == <<Q(p), Z, Z>>
           priv1 == <<E(p, 1), E(p, 2), Z, Z, Z>>
           pub2 == <<Q(p), C(p, 1), C(p, 2)>>
           b == PrivBuf(p)
           at == PubAt
           pat == PrivAt(p)
<1>1. NewKey = Full(zpub, zpriv, stray, stray, O!NoEvp)
  <2>1. O!Zeros(Space) = zpriv /\ O!Zeros(O!pubkeylen) = zpub
    BY ZerosAre, Sizes DEF Space
  <2> HIDE DEF zpub, zpriv
  <2> QED
    BY <2>1, NewKeyIs
<1>2. O!Offsets(zpub, O!PartSize["qpub"]) = at /\ O!Offsets(zpriv, O!PartSize["qpriv"]) = pat
  <2>1. zpub # O!Null /\ zpriv # O!Null
    BY DEF O!Null
  <2> HIDE DEF zpub, zpriv
  <2> QED
    BY <2>1, Sizes DEF O!Offsets, PubAt, PrivAt
<1>3. pub1 = O!Write(zpub, at[O!Pq], O!Part("qpub", p)) /\ pub2 = O!Write(pub1, at[O!Classic], O!Part("cpub", p))
  <2>1. at[O!Pq] = 1 /\ at[O!Classic] = 2
    BY Sizes DEF PubAt
  <2>2. O!Part("qpub", p) = <<Q(p)>> /\ O!Part("cpub", p) = <<C(p, 1), C(p, 2)>>
    BY Parts
  <2>3. O!Write(<<Z, Z, Z>>, 1, <<Q(p)>>) = <<Q(p), Z, Z>>
    BY Writes3
  <2>4. O!Write(<<Q(p), Z, Z>>, 2, <<C(p, 1), C(p, 2)>>) = <<Q(p), C(p, 1), C(p, 2)>>
    BY Writes3
  <2> HIDE DEF at
  <2> QED
    BY <2>1, <2>2, <2>3, <2>4
<1>4. priv1 = O!Write(zpriv, pat[O!Pq], O!Part("qpriv", p))
  <2>1. pat[O!Pq] = 1
    BY Sizes DEF PrivAt
  <2>2. O!Part("qpriv", p) = <<E(p, 1), E(p, 2)>>
    BY Parts
  <2>3. O!Write(<<Z, Z, Z, Z, Z>>, 1, <<E(p, 1), E(p, 2)>>) = <<E(p, 1), E(p, 2), Z, Z, Z>>
    BY Writes5
  <2> HIDE DEF pat
  <2> QED
    BY <2>1, <2>2, <2>3
<1>5. b = O!Write(priv1, pat[O!Classic], O!Part("cpriv", p))
  <2>1. pat[O!Classic] = 3
    BY Sizes DEF PrivAt
  <2>2. CASE Short(p)
    <3>1. O!Part("cpriv", p) = <<D(p, 1), D(p, 2)>>
      BY <2>2, Parts
    <3>2. O!Write(<<E(p, 1), E(p, 2), Z, Z, Z>>, 3, <<D(p, 1), D(p, 2)>>) = <<E(p, 1), E(p, 2), D(p, 1), D(p, 2), Z>>
      BY Writes5
    <3>3. PrivBuf(p) = <<E(p, 1), E(p, 2), D(p, 1), D(p, 2), Z>>
      BY <2>2, Sizes DEF PrivBuf
    <3> HIDE DEF pat
    <3> QED
      BY <2>1, <3>1, <3>2, <3>3
  <2>3. CASE ~Short(p)
    <3>1. O!Part("cpriv", p) = <<D(p, 1), D(p, 2), D(p, 3)>>
      BY <2>3, Parts
    <3>2. O!Write(<<E(p, 1), E(p, 2), Z, Z, Z>>, 3, <<D(p, 1), D(p, 2), D(p, 3)>>)
             = <<E(p, 1), E(p, 2), D(p, 1), D(p, 2), D(p, 3)>>
      BY Writes5
    <3>3. PrivBuf(p) = <<E(p, 1), E(p, 2), D(p, 1), D(p, 2), D(p, 3)>>
      BY <2>3, Sizes DEF PrivBuf
    <3> HIDE DEF pat
    <3> QED
      BY <2>1, <3>1, <3>2, <3>3
  <2> QED
    BY <2>2, <2>3
<1>6. pub2 = PubBuf(p)
  BY Sizes DEF PubBuf
<1> HIDE DEF zpub, zpriv, stray, evp, pub1, priv1, pub2, b, at, pat
<1>7. O!oqsx_key_set_composites(NewKey) = Full(zpub, zpriv, at, pat, O!NoEvp)
  BY <1>1, <1>2, FullPlaced
<1>8. O!lunax_oqsx_key_gen_oqs_ndx(Full(zpub, zpriv, at, pat, O!NoEvp), p) =
         Full(pub1, priv1, at, pat, O!NoEvp)
  BY <1>3, <1>4, NdxWrites
<1>9. O!lunax_oqsx_key_gen_evp_key(Full(pub1, priv1, at, pat, O!NoEvp), p) = Full(pub2, b, at, pat, evp)
  <2> DEFINE k == Full(pub1, priv1, at, pat, O!NoEvp)
  <2>1. O!Generated(k, p, "cpub") = Full(pub2, priv1, at, pat, O!NoEvp)
    BY <1>3, WritesPub
  <2>2. O!Generated(Full(pub2, priv1, at, pat, O!NoEvp), p, "cpriv") = Full(pub2, b, at, pat, O!NoEvp)
    BY <1>5, WritesPriv
  <2>3. [Full(pub2, b, at, pat, O!NoEvp) EXCEPT !.classical = evp] = Full(pub2, b, at, pat, evp)
    BY FullWithEvp
  <2> HIDE DEF k
  <2>4. O!lunax_oqsx_key_gen_evp_key(k, p) =
           [O!Generated(O!Generated(k, p, "cpub"), p, "cpriv") EXCEPT !.classical = evp]
    BY DEF O!lunax_oqsx_key_gen_evp_key, evp
  <2> QED
    BY <2>1, <2>2, <2>3, <2>4 DEF k
<1>10. Made(p, b) = Full(pub2, b, at, pat, evp)
  BY <1>6, Sizes DEF Made, at, pat, evp
<1> QED
  BY <1>7, <1>8, <1>9, <1>10 DEF b

(* A generation that the classical part does not fail makes a whole key or none. *)
LEMMA KeyGenerated ==
    ASSUME NEW p \in Pairs, NEW fault, fault # "classic"
    PROVE  \/ O!oqsx_key_gen(p, fault) = O!Free
           \/ \E b \in PrivBufs(p) : O!oqsx_key_gen(p, fault) = Made(p, b)
<1>1. CASE fault = "pq"
  BY <1>1 DEF O!oqsx_key_gen
<1>2. CASE fault # "pq" /\ O!Single
  <2>1. O!oqsx_key_gen(p, fault) = O!lunax_oqsx_key_gen_oqs_ndx(O!oqsx_key_set_composites(NewKey), p)
    BY <1>2 DEF O!oqsx_key_gen, NewKey
  <2> QED
    BY <1>2, <2>1, SingleGenerated
<1>3. CASE fault # "pq" /\ O!Hybrid
  <2>1. O!oqsx_key_gen(p, fault) =
           O!lunax_oqsx_key_gen_oqs_ndx(O!lunax_oqsx_key_gen_evp_key(NewKey, p), p)
    BY <1>3, Sizes DEF O!oqsx_key_gen, NewKey
  <2> QED
    BY <1>3, <2>1, HybridGenerated
<1>4. CASE fault # "pq" /\ O!Composite
  <2>1. O!oqsx_key_gen(p, fault) =
           O!lunax_oqsx_key_gen_evp_key(
               O!lunax_oqsx_key_gen_oqs_ndx(O!oqsx_key_set_composites(NewKey), p), p)
    BY <1>4, Sizes DEF O!oqsx_key_gen, NewKey
  <2>2. PrivBuf(p) \in PrivBufs(p)
    BY DEF PrivBufs
  <2> QED
    BY <1>4, <2>1, <2>2, CompositeGenerated
<1> QED
  BY <1>1, <1>2, <1>3, <1>4, Sizes

(* What is whole stays whole, the algorithm being the same. *)
LEMMA AlgKept ==
    ASSUME alg' = alg
    PROVE  /\ O!Single' <=> O!Single
           /\ O!Hybrid' <=> O!Hybrid
           /\ O!Composite' <=> O!Composite
           /\ O!Kem' <=> O!Kem
           /\ O!Rsa' <=> O!Rsa
           /\ PubAt' = PubAt
           /\ \A p : /\ Short(p)' <=> Short(p)
                     /\ PubBuf(p)' = PubBuf(p) /\ PrivBuf(p)' = PrivBuf(p)
                     /\ PrivBufs(p)' = PrivBufs(p) /\ PrivAt(p)' = PrivAt(p)
<1>1. /\ O!Single' <=> O!Single
      /\ O!Composite' <=> O!Composite
      /\ O!Kem' <=> O!Kem
      /\ O!Rsa' <=> O!Rsa
  BY DEF O!Single, O!Composite, O!Kem, O!Rsa
<1>2. O!Hybrid' <=> O!Hybrid
  BY <1>1 DEF O!Hybrid
<1>3. PubAt' = PubAt
  BY <1>1, <1>2 DEF PubAt
<1>4. ASSUME NEW p
      PROVE  /\ Short(p)' <=> Short(p)
             /\ PubBuf(p)' = PubBuf(p) /\ PrivBuf(p)' = PrivBuf(p)
             /\ PrivBufs(p)' = PrivBufs(p) /\ PrivAt(p)' = PrivAt(p)
  <2>1. Short(p)' <=> Short(p)
    <3>1. O!Actual("cpriv", p)' = O!Actual("cpriv", p)
      BY <1>1 DEF O!Actual
    <3> QED
      BY <3>1 DEF Short
  <2>2. PubBuf(p)' = PubBuf(p)
    BY <1>1, <1>2 DEF PubBuf
  <2>3. PrivBuf(p)' = PrivBuf(p)
    BY <1>1, <1>2, <2>1 DEF PrivBuf
  <2>4. PrivAt(p)' = PrivAt(p)
    BY <1>1, <1>2, <2>1 DEF PrivAt
  <2>5. PrivBufs(p)' = PrivBufs(p)
    BY <1>1, <2>3 DEF PrivBufs
  <2> QED
    BY <2>1, <2>2, <2>3, <2>4, <2>5
<1> QED
  BY <1>1, <1>2, <1>3, <1>4

LEMMA WholeKept ==
    ASSUME alg' = alg, NEW k, Whole(k)
    PROVE  Whole(k)'
<1>1. /\ k.of \in Pairs
      /\ k = KeyRecord(k.of, k.pub, k.priv, k.comp_pub, k.comp_priv, k.classical, k.cmplen)
      /\ k.priv # O!Null => k.priv \in PrivBufs(k.of) /\ k.comp_priv = PrivAt(k.of)
      /\ k.classical.of \in Pairs \cup {0} /\ (~O!Kem /\ ~O!Single => k.classical.of = k.of)
      /\ k.cmplen \in 1 .. 3 /\ (~O!Rsa => k.cmplen = 3)
  BY DEF Whole
<1>2. KeyRecord(k.of, k.pub, k.priv, k.comp_pub, k.comp_priv, k.classical, k.cmplen)' =
         KeyRecord(k.of, k.pub, k.priv, k.comp_pub, k.comp_priv, k.classical, k.cmplen)
  BY DEF KeyRecord
<1>3. /\ PrivBufs(k.of)' = PrivBufs(k.of) /\ PrivAt(k.of)' = PrivAt(k.of)
      /\ PubBuf(k.of)' = PubBuf(k.of) /\ PubAt' = PubAt
  BY AlgKept
<1>4. (O!Kem' <=> O!Kem) /\ (O!Single' <=> O!Single) /\ (O!Rsa' <=> O!Rsa)
  BY AlgKept
<1>5. O!Null' = O!Null /\ O!Stray' = O!Stray
  BY DEF O!Null, O!Stray
<1>6. HasPublic(k)' \/ LacksPublic(k)'
  <2>1. HasPublic(k) => HasPublic(k)'
    BY <1>3 DEF HasPublic
  <2>2. LacksPublic(k) => LacksPublic(k)'
    BY <1>3, <1>4, <1>5 DEF LacksPublic
  <2> QED
    BY <2>1, <2>2 DEF Whole
<1> QED
  BY <1>1, <1>2, <1>3, <1>4, <1>5, <1>6 DEF Whole

LEMMA OneChanges ==
    ASSUME OInv, alg' = alg, NEW x \in Keys, NEW k, k = O!Free \/ Whole(k),
           key' = [key EXCEPT ![x] = k]
    PROVE  OInv'
<1>1. key' = [y \in Keys |-> IF y = x THEN k ELSE key[y]]
  BY DEF OInv
<1>2. key' = [y \in Keys |-> key'[y]]
  BY <1>1
<1>3. ASSUME NEW y \in Keys PROVE (key[y] = O!Free \/ Whole(key[y]))'
  <2> DEFINE o == IF y = x THEN k ELSE key[y]
  <2>1. PICK z : z = o
    OBVIOUS
  <2>2. z = O!Free \/ Whole(z)
    BY <2>1 DEF OInv
  <2>3. Whole(z) => Whole(z)'
    BY WholeKept
  <2>4. key'[y] = z
    BY <1>1, <2>1
  <2>5. O!Free' = O!Free
    BY DEF O!Free
  <2>6. Whole(z)' => Whole(key[y])'
    BY <2>4 DEF Whole, KeyRecord, HasPublic, LacksPublic
  <2> QED
    BY <2>2, <2>3, <2>4, <2>5, <2>6
<1> QED
  BY <1>2, <1>3 DEF OInv, O!Algs

LEMMA MakesWhole ==
    ASSUME OInv, alg' = alg, NEW x \in Keys, NEW p \in Pairs, NEW r, O!Makes(x, r, p),
           r = O!Free \/ (r # O!Free /\ Whole([r EXCEPT !.of = p]))
    PROVE  OInv'
<1>1. PICK k : k = IF r = O!Free THEN r ELSE [r EXCEPT !.of = p]
  OBVIOUS
<1>2. key' = [key EXCEPT ![x] = k]
  BY <1>1 DEF O!Makes
<1>3. k = O!Free \/ Whole(k)
  BY <1>1
<1> QED
  BY <1>2, <1>3, OneChanges

(* What is made, given its pair, is whole. *)
LEMMA FinishedIsWhole ==
    ASSUME NEW p \in Pairs, NEW b \in PrivBufs(p), NEW n \in 1 .. 3, ~O!Rsa => n = 3
    PROVE  Finished(p, b, n) # O!Free /\ Whole([Finished(p, b, n) EXCEPT !.of = p])
<1> DEFINE evp == IF O!Single THEN O!NoEvp ELSE [of |-> p, private |-> TRUE]
           at == PrivAt(p)
           pub == PubBuf(p)
           pat == PubAt
<1>1. evp.of \in Pairs \cup {0} /\ (~O!Kem /\ ~O!Single => evp.of = p)
  BY DEF O!NoEvp
<1>2. PICK r : r = Finished(p, b, n)
  OBVIOUS
<1> HIDE DEF evp
<1>3. r = [of |-> 0, pub |-> pub, priv |-> b, comp_pub |-> pat, comp_priv |-> at,
           classical |-> evp, cmplen |-> n]
  BY <1>2 DEF Finished, Ended, evp
<1>4. at = PrivAt(p) /\ pub = PubBuf(p) /\ pat = PubAt
  OBVIOUS
<1> HIDE DEF at, pub, pat
<1> QED
  BY <1>1, <1>2, <1>3, <1>4, WholeMade

LEMMA MadeIsWhole ==
    ASSUME NEW p \in Pairs, NEW b \in PrivBufs(p)
    PROVE  Made(p, b) # O!Free /\ Whole([Made(p, b) EXCEPT !.of = p])
<1>1. Made(p, b) = Finished(p, b, 3)
  BY DEF Made, Full, Finished, Ended
<1>2. PICK n \in 1 .. 3 : n = 3
  OBVIOUS
<1>3. Finished(p, b, n) # O!Free /\ Whole([Finished(p, b, n) EXCEPT !.of = p])
  BY <1>2, FinishedIsWhole
<1> QED
  BY <1>1, <1>2, <1>3

LEMMA PublicIsWhole ==
    ASSUME NEW p \in Pairs, NEW r,
           r = [of |-> 0, pub |-> PubBuf(p), priv |-> O!Null, comp_pub |-> PubAt,
                comp_priv |-> <<0, 0>>, cmplen |-> 3,
                classical |-> IF O!Single THEN O!NoEvp ELSE [of |-> p, private |-> FALSE]]
    PROVE  r # O!Free /\ Whole([r EXCEPT !.of = p])
<1>1. PICK pub, pat, null, at, n, evp :
         /\ pub = PubBuf(p) /\ pat = PubAt /\ null = O!Null /\ at = <<0, 0>> /\ n = 3
         /\ evp = IF O!Single THEN O!NoEvp ELSE [of |-> p, private |-> FALSE]
  OBVIOUS
<1>2. evp.of \in Pairs \cup {0} /\ (~O!Kem /\ ~O!Single => evp.of = p)
  BY <1>1 DEF O!NoEvp
<1>3. n \in 1 .. 3 /\ (~O!Rsa => n = 3)
  BY <1>1
<1>4. r = [of |-> 0, pub |-> pub, priv |-> null, comp_pub |-> pat, comp_priv |-> at,
           classical |-> evp, cmplen |-> n]
  BY <1>1
<1>5. pub = PubBuf(p) /\ pat = PubAt /\ null = O!Null
  BY <1>1
<1>6. PICK q : q = r
  OBVIOUS
<1>7. q = [of |-> 0, pub |-> pub, priv |-> null, comp_pub |-> pat, comp_priv |-> at,
           classical |-> evp, cmplen |-> n]
  BY <1>4, <1>6
<1>8. q # O!Free /\ Whole([q EXCEPT !.of = p])
  BY <1>2, <1>3, <1>5, <1>7, WholeMade
<1> QED
  BY <1>6, <1>8

LEMMA PublessIsWhole ==
    ASSUME NEW p \in Pairs, NEW b \in PrivBufs(p)
    PROVE  Publess(p, b) # O!Free /\ Whole([Publess(p, b) EXCEPT !.of = p])
<1>1. PICK pub, pat, at, n, evp :
         /\ pub = O!Null /\ pat = <<0, 0>> /\ at = PrivAt(p) /\ n = 3
         /\ evp = IF O!Single THEN O!NoEvp ELSE [of |-> p, private |-> TRUE]
  OBVIOUS
<1>2. evp.of \in Pairs \cup {0} /\ (~O!Kem /\ ~O!Single => evp.of = p)
  BY <1>1 DEF O!NoEvp
<1>3. n \in 1 .. 3 /\ (~O!Rsa => n = 3)
  BY <1>1
<1>4. PICK r : r = Publess(p, b)
  OBVIOUS
<1>5. r = [of |-> 0, pub |-> pub, priv |-> b, comp_pub |-> pat, comp_priv |-> at,
           classical |-> evp, cmplen |-> n]
  BY <1>1, <1>4 DEF Publess, Ended
<1>6. (pub = O!Null /\ pat = <<0, 0>>) /\ b \in PrivBufs(p) /\ at = PrivAt(p)
  BY <1>1
<1>7. r # O!Free /\ Whole([r EXCEPT !.of = p])
  BY <1>2, <1>3, <1>5, <1>6, WholeMade
<1> QED
  BY <1>4, <1>7

LEMMA WholeHas ==
    ASSUME NEW k, Whole(k)
    PROVE  /\ k.of \in Pairs /\ k # O!Free
           /\ k.pub # O!Null => k.pub = PubBuf(k.of)
           /\ k.pub # O!Null /\ (k.priv # O!Null \/ ~O!Kem \/ ~O!Single) => HasPublic(k)
           /\ k.pub # O!Null /\ ~HasPublic(k) => O!Single /\ k.comp_pub[O!Pq] = 0
           /\ HasPublic(k) => k.pub # O!Null /\ k.comp_pub[O!Pq] # 0
<1>1. k = KeyRecord(k.of, k.pub, k.priv, k.comp_pub, k.comp_priv, k.classical, k.cmplen)
  BY DEF Whole
<1>2. k # O!Free
  <2>1. "pub" \in DOMAIN KeyRecord(k.of, k.pub, k.priv, k.comp_pub, k.comp_priv, k.classical, k.cmplen)
    BY DEF KeyRecord
  <2>2. "pub" \notin DOMAIN O!Free
    BY DEF O!Free
  <2> QED
    BY <1>1, <2>1, <2>2
<1>3. k.of \in Pairs /\ (HasPublic(k) \/ LacksPublic(k))
  BY DEF Whole
<1>4. HasPublic(k) => k.pub # O!Null /\ k.comp_pub[O!Pq] # 0
  <2>1. PubBuf(k.of) # O!Null
    BY <1>3, PubParts
  <2>2. PubAt[O!Pq] # 0
    BY Sizes DEF PubAt
  <2> QED
    BY <2>1, <2>2 DEF HasPublic
<1>5. k.pub # O!Null /\ LacksPublic(k) =>
         O!Kem /\ O!Single /\ k.priv = O!Null /\ k.pub = PubBuf(k.of) /\ k.comp_pub[O!Pq] = 0
  BY Sizes DEF LacksPublic
<1>6. HasPublic(k) => k.pub = PubBuf(k.of)
  BY DEF HasPublic
<1> QED
  BY <1>2, <1>3, <1>4, <1>5, <1>6

LEMMA LiveIsWhole ==
    ASSUME OInv, NEW y \in Keys
    PROVE  /\ O!Live(y) <=> Whole(key[y])
           /\ \A h : O!Has(y, h) => O!Live(y)
<1>1. Whole(key[y]) => key[y] # O!Free
  BY WholeHas
<1> QED
  BY <1>1 DEF OInv, O!Live, O!Has

LEMMA GenKeyStep ==
    ASSUME OInv, NEW x \in Keys, NEW p \in Pairs, NEW fault, fault # "classic", O!Gen(x, p, fault)
    PROVE  OInv'
<1>1. O!Makes(x, O!oqsx_key_gen(p, fault), p) /\ alg' = alg
  BY DEF O!Gen
<1>2. PICK r : r = O!oqsx_key_gen(p, fault)
  OBVIOUS
<1>3. r = O!Free \/ (r # O!Free /\ Whole([r EXCEPT !.of = p]))
  BY <1>2, KeyGenerated, MadeIsWhole
<1> QED
  BY <1>1, <1>2, <1>3, MakesWhole

LEMMA DecodePublicStep ==
    ASSUME OInv, NEW x \in Keys, NEW y \in Keys, O!DecodePublic(x, y)
    PROVE  OInv'
<1>1. Whole(key[y]) /\ key[y]["pub"] # O!Null
  BY LiveIsWhole DEF O!DecodePublic, O!Has
<1>2. PICK k : k = key[y]
  OBVIOUS
<1>3. k.of \in Pairs /\ k.pub = PubBuf(k.of) /\ (O!Composite => k.comp_pub = PubAt)
  BY <1>1, <1>2, WholeHas, Sizes DEF HasPublic
<1>4. PICK p \in Pairs : p = k.of
  BY <1>3
<1>5. PICK r : r = O!oqsx_key_from_x509pubkey(O!oqsx_spki_pub_to_der(k))
  OBVIOUS
<1>6. r # O!Free /\ Whole([r EXCEPT !.of = p])
  <2>1. r = [of |-> 0, pub |-> PubBuf(p), priv |-> O!Null, comp_pub |-> PubAt,
             comp_priv |-> <<0, 0>>, cmplen |-> 3,
             classical |-> IF O!Single THEN O!NoEvp ELSE [of |-> p, private |-> FALSE]]
    BY <1>3, <1>4, <1>5, Decoded
  <2> QED
    BY <2>1, PublicIsWhole
<1>7. O!Makes(x, r, p) /\ alg' = alg
  BY <1>2, <1>4, <1>5 DEF O!DecodePublic
<1> QED
  BY <1>6, <1>7, MakesWhole

LEMMA PrivateHas ==
    ASSUME NEW k, Whole(k), k.priv # O!Null
    PROVE  k.priv \in PrivBufs(k.of) /\ k.comp_priv = PrivAt(k.of) /\ (~O!Rsa => k.cmplen = 3)
  BY DEF Whole

LEMMA DecodePrivateStep ==
    ASSUME OInv, NEW x \in Keys, NEW y \in Keys, O!DecodePrivate(x, y)
    PROVE  OInv'
<1>1. Whole(key[y]) /\ key[y]["pub"] # O!Null /\ key[y]["priv"] # O!Null
  BY LiveIsWhole DEF O!DecodePrivate, O!Has
<1>2. PICK k : k = key[y]
  OBVIOUS
<1>3. /\ k.of \in Pairs /\ k.pub = PubBuf(k.of) /\ k.comp_pub = PubAt
      /\ k.priv \in PrivBufs(k.of) /\ k.comp_priv = PrivAt(k.of) /\ (~O!Rsa => k.cmplen = 3)
  BY <1>1, <1>2, WholeHas, PrivateHas DEF HasPublic
<1>4. PICK p \in Pairs : p = k.of
  BY <1>3
<1>5. PICK r : r = O!oqsx_key_from_pkcs8(O!oqsx_pki_priv_to_der(k))
  OBVIOUS
<1>6. r # O!Free /\ Whole([r EXCEPT !.of = p])
  <2>1. PICK b \in PrivBufs(p), n \in 1 .. 3 : r = Finished(p, b, n) /\ (~O!Rsa => n = 3)
    BY <1>3, <1>4, <1>5, PrivateDecoded
  <2> QED
    BY <2>1, FinishedIsWhole
<1>7. O!Makes(x, r, p) /\ alg' = alg
  BY <1>2, <1>4, <1>5 DEF O!DecodePrivate
<1> QED
  BY <1>6, <1>7, MakesWhole

LEMMA ImportPublicStep ==
    ASSUME OInv, NEW x \in Keys, NEW y \in Keys, O!oqsx_import(x, y, {"pub"})
    PROVE  OInv'
<1>1. Whole(key[y]) /\ key[y]["pub"] # O!Null
  BY LiveIsWhole DEF O!oqsx_import, O!Has
<1>2. PICK k : k = key[y]
  OBVIOUS
<1>3. k.of \in Pairs /\ k.pub = PubBuf(k.of)
  BY <1>1, <1>2, WholeHas
<1>4. PICK p \in Pairs : p = k.of
  BY <1>3
<1>5. PICK r : r = O!oqsx_key_fromdata(O!oqsx_key_to_params(k, {"pub"}))
  OBVIOUS
<1>6. r # O!Free /\ Whole([r EXCEPT !.of = p])
  <2>1. r = [of |-> 0, pub |-> PubBuf(p), priv |-> O!Null, comp_pub |-> PubAt,
             comp_priv |-> <<0, 0>>, cmplen |-> 3,
             classical |-> IF O!Single THEN O!NoEvp ELSE [of |-> p, private |-> FALSE]]
    BY <1>3, <1>4, <1>5, PublicImported
  <2> QED
    BY <2>1, PublicIsWhole
<1>7. O!Makes(x, r, p) /\ alg' = alg
  BY <1>2, <1>4, <1>5 DEF O!oqsx_import
<1> QED
  BY <1>6, <1>7, MakesWhole

LEMMA ImportPrivateStep ==
    ASSUME OInv, NEW x \in Keys, NEW y \in Keys, O!oqsx_import(x, y, {"pub", "priv"})
    PROVE  OInv'
<1>1. Whole(key[y]) /\ key[y]["pub"] # O!Null /\ key[y]["priv"] # O!Null
  BY LiveIsWhole DEF O!oqsx_import, O!Has
<1>2. PICK k : k = key[y]
  OBVIOUS
<1>3. k.of \in Pairs /\ k.pub = PubBuf(k.of) /\ k.priv \in PrivBufs(k.of)
  BY <1>1, <1>2, WholeHas, PrivateHas
<1>4. PICK p \in Pairs : p = k.of
  BY <1>3
<1>5. PICK r : r = O!oqsx_key_fromdata(O!oqsx_key_to_params(k, {"pub", "priv"}))
  OBVIOUS
<1>6. r # O!Free /\ Whole([r EXCEPT !.of = p])
  <2>1. PICK b \in PrivBufs(p) : r = Finished(p, b, 3)
    BY <1>3, <1>4, <1>5, PrivateImported
  <2>2. PICK n \in 1 .. 3 : n = 3
    OBVIOUS
  <2>3. r = Finished(p, b, n)
    BY <2>1, <2>2
  <2> QED
    BY <2>2, <2>3, FinishedIsWhole
<1>7. O!Makes(x, r, p) /\ alg' = alg
  BY <1>2, <1>4, <1>5 DEF O!oqsx_import
<1> QED
  BY <1>6, <1>7, MakesWhole

LEMMA ImportAloneStep ==
    ASSUME OInv, NEW x \in Keys, NEW y \in Keys, O!oqsx_import(x, y, {"priv"})
    PROVE  OInv'
<1>1. Whole(key[y]) /\ key[y]["priv"] # O!Null
  BY LiveIsWhole DEF O!oqsx_import, O!Has
<1>2. PICK k : k = key[y]
  OBVIOUS
<1>3. k.of \in Pairs /\ k.priv \in PrivBufs(k.of)
  BY <1>1, <1>2, WholeHas, PrivateHas
<1>4. PICK p \in Pairs : p = k.of
  BY <1>3
<1>5. PICK r : r = O!oqsx_key_fromdata(O!oqsx_key_to_params(k, {"priv"}))
  OBVIOUS
<1>6. r # O!Free /\ Whole([r EXCEPT !.of = p])
  <2>1. PICK b \in PrivBufs(p) : r = Publess(p, b)
    BY <1>3, <1>4, <1>5, AloneImported
  <2> QED
    BY <2>1, PublessIsWhole
<1>7. O!Makes(x, r, p) /\ alg' = alg
  BY <1>2, <1>4, <1>5 DEF O!oqsx_import
<1> QED
  BY <1>6, <1>7, MakesWhole

(* A key share is the parts of the public half, whatever order they travel in. *)
LEMMA ShareIs ==
    ASSUME NEW q \in Pairs, NEW j, j.pub = PubBuf(q), O!Kem
    PROVE  O!LUNA_PARAM_get_encoded_public_key(O!oqsx_get_params(j)) =
               IF O!Single THEN <<Q(q)>> ELSE <<C(q, 1), C(q, 2), Q(q)>>
<1> DEFINE s == <<C(q, 1), C(q, 2), Q(q)>>
           t == <<Q(q), C(q, 1), C(q, 2)>>
<1>0. O!PartSize["cpub"] = 2
  BY Sizes
<1>1. CASE O!Single
  <2>1. O!oqsx_get_params(j) = <<Q(q)>>
    BY <1>1 DEF O!oqsx_get_params, PubBuf
  <2>2. ~O!Reversed
    BY <1>1, Sizes
  <2> QED
    BY <1>1, <2>1, <2>2 DEF O!LUNA_PARAM_get_encoded_public_key
<1>2. CASE O!Hybrid
  <2>1. SubSeq(j.pub, 1 + O!LengthSize, O!pubkeylen) = s
    <3>1. j.pub = <<O!Length(2), C(q, 1), C(q, 2), Q(q)>>
      BY <1>2, Sizes DEF PubBuf
    <3>2. j.pub[2] = C(q, 1) /\ j.pub[3] = C(q, 2) /\ j.pub[4] = Q(q)
      BY <3>1
    <3>3. SubSeq(j.pub, 2, 4) = <<j.pub[2], j.pub[3], j.pub[4]>>
      BY CutsAt
    <3>4. 1 + O!LengthSize = 2 /\ O!pubkeylen = 4
      BY <1>2, Sizes
    <3> QED
      BY <3>2, <3>3, <3>4
  <2>2. O!oqsx_get_params(j) = O!LUNA_PARAM_set_encoded_public_key(s)
    BY <1>2, <2>1, Sizes DEF O!oqsx_get_params
  <2>3. /\ SubSeq(s, 3, 3) = <<Q(q)>> /\ SubSeq(s, 1, 2) = <<C(q, 1), C(q, 2)>> /\ Len(s) = 3
        /\ SubSeq(t, 1, 1) = <<Q(q)>> /\ SubSeq(t, 2, 3) = <<C(q, 1), C(q, 2)>> /\ Len(t) = 3
    BY CutsAt
  <2>4. <<Q(q)>> \o <<C(q, 1), C(q, 2)>> = t
    BY Join12
  <2>5. <<C(q, 1), C(q, 2)>> \o <<Q(q)>> = s
    BY Join21
  <2> HIDE DEF s, t
  <2>6. 2 + 1 = 3 /\ 3 - 2 = 1 /\ 1 + 1 = 2
    OBVIOUS
  <2>7. O!LUNA_PARAM_set_encoded_public_key(s) = IF O!Reversed THEN t ELSE s
    BY <1>0, <2>3, <2>4, <2>6 DEF O!LUNA_PARAM_set_encoded_public_key
  <2>8. O!Reversed => O!LUNA_PARAM_get_encoded_public_key(t) = s
    BY <1>0, <2>3, <2>5, <2>6 DEF O!LUNA_PARAM_get_encoded_public_key
  <2>9. ~O!Reversed => O!LUNA_PARAM_get_encoded_public_key(s) = s
    BY DEF O!LUNA_PARAM_get_encoded_public_key
  <2>10. ~O!Single
    BY <1>2, Sizes
  <2> QED
    BY <2>2, <2>7, <2>8, <2>9, <2>10 DEF s
<1> QED
  BY <1>1, <1>2, Sizes

LEMMA ShareWritten ==
    ASSUME NEW p \in Pairs, NEW q \in Pairs, O!Kem
    PROVE  O!Write(PubBuf(p), PubAt[1], IF O!Single THEN <<Q(q)>> ELSE <<C(q, 1), C(q, 2), Q(q)>>)
               = PubBuf(q)
<1>1. CASE O!Single
  <2>1. O!Write(<<Q(p)>>, 1, <<Q(q)>>) = <<Q(q)>>
    BY Writes1
  <2>2. PubBuf(p) = <<Q(p)>> /\ PubBuf(q) = <<Q(q)>> /\ PubAt[1] = 1
    BY <1>1 DEF PubBuf, PubAt
  <2> QED
    BY <1>1, <2>1, <2>2
<1>2. CASE O!Hybrid
  <2>1. O!Write(<<O!Length(2), C(p, 1), C(p, 2), Q(p)>>, 2, <<C(q, 1), C(q, 2), Q(q)>>)
           = <<O!Length(2), C(q, 1), C(q, 2), Q(q)>>
    BY Writes4
  <2>2. /\ PubBuf(p) = <<O!Length(2), C(p, 1), C(p, 2), Q(p)>>
        /\ PubBuf(q) = <<O!Length(2), C(q, 1), C(q, 2), Q(q)>> /\ PubAt[1] = 2 /\ ~O!Single
    BY <1>2, Sizes DEF PubBuf, PubAt
  <2> QED
    BY <2>1, <2>2
<1> QED
  BY <1>1, <1>2, Sizes

(* A share is written over a public half, stands in for a missing one, or is lost. *)
LEMMA GivenIs ==
    ASSUME NEW k, Whole(k), NEW q \in Pairs, O!Kem, NEW share,
           share = IF O!Single THEN <<Q(q)>> ELSE <<C(q, 1), C(q, 2), Q(q)>>
    PROVE  \E pub, pat :
               /\ O!Given(k, share) =
                      KeyRecord(k.of, pub, k.priv, pat, k.comp_priv, k.classical, k.cmplen)
               /\ \/ pub = PubBuf(q) /\ pat = PubAt
                  \/ pub = PubBuf(q) /\ pat = <<0, 0>> /\ O!Single
                  \/ pub = O!Null /\ pat = <<O!Stray, 0>> /\ ~O!Single
<1> DEFINE K1(pub, pat) == KeyRecord(k.of, pub, k.priv, pat, k.comp_priv, k.classical, k.cmplen)
<1>1. k = K1(k.pub, k.comp_pub) /\ (HasPublic(k) \/ LacksPublic(k)) /\ k.of \in Pairs
  BY DEF Whole
<1>2. \A pub, pat : /\ [K1(k.pub, k.comp_pub) EXCEPT !.pub = pub] = K1(pub, k.comp_pub)
                     /\ [K1(k.pub, k.comp_pub) EXCEPT !.comp_pub = pat] = K1(k.pub, pat)
  BY DEF KeyRecord
<1> HIDE DEF K1
<1>3. \A pub, pat : /\ [k EXCEPT !.pub = pub] = K1(pub, k.comp_pub)
                     /\ [k EXCEPT !.comp_pub = pat] = K1(k.pub, pat)
  BY <1>1, <1>2
<1>4. CASE O!Single
  <2>1. O!Given(k, share) = K1(share, k.comp_pub)
    BY <1>3, <1>4 DEF O!Given
  <2>2. share = PubBuf(q)
    BY <1>4 DEF PubBuf
  <2>3. k.comp_pub = PubAt \/ k.comp_pub = <<0, 0>>
    BY <1>1, <1>4 DEF HasPublic, LacksPublic
  <2> QED
    BY <1>4, <2>1, <2>2, <2>3 DEF K1
<1>5. CASE ~O!Single /\ k.pub = O!Null
  <2>1. O!Given(k, share) = K1(O!Null, <<O!Stray, 0>>)
    BY <1>3, <1>5 DEF O!Given
  <2> QED
    BY <1>5, <2>1 DEF K1
<1>6. CASE ~O!Single /\ k.pub # O!Null
  <2>1. k.pub = PubBuf(k.of) /\ k.comp_pub = PubAt
    BY <1>6, WholeHas DEF HasPublic
  <2>2. O!Given(k, share) = K1(O!Write(k.pub, k.comp_pub[1], share), k.comp_pub)
    BY <1>3, <1>6 DEF O!Given
  <2>3. O!Write(PubBuf(k.of), PubAt[1], share) = PubBuf(q)
    BY <1>1, ShareWritten
  <2>4. O!Given(k, share) = K1(PubBuf(q), PubAt)
    BY <2>1, <2>2, <2>3
  <2> QED
    BY <2>4 DEF K1
<1> QED
  BY <1>4, <1>5, <1>6

LEMMA ShareGiven ==
    ASSUME NEW k, Whole(k), NEW q \in Pairs, O!Kem, NEW pub, NEW pat, NEW g,
           g = KeyRecord(k.of, pub, k.priv, pat, k.comp_priv, k.classical, k.cmplen),
           \/ pub = PubBuf(q) /\ pat = PubAt
           \/ pub = PubBuf(q) /\ pat = <<0, 0>> /\ O!Single
           \/ pub = O!Null /\ pat = <<O!Stray, 0>> /\ ~O!Single
    PROVE  Whole([g EXCEPT !.priv = O!Null, !.comp_priv = <<O!Stray, O!Stray>>, !.of = q])
<1>1. PICK a, c, d, e, f, null, stray :
         /\ a = k.of /\ c = k.priv /\ d = k.comp_priv /\ e = k.classical /\ f = k.cmplen
         /\ null = O!Null /\ stray = <<O!Stray, O!Stray>>
  OBVIOUS
<1>2. g = [of |-> a, pub |-> pub, priv |-> c, comp_pub |-> pat, comp_priv |-> d, classical |-> e, cmplen |-> f]
  BY <1>1 DEF KeyRecord
<1>3. e.of \in Pairs \cup {0} /\ f \in 1 .. 3 /\ (~O!Rsa => f = 3)
  BY <1>1 DEF Whole
<1>4. PICK k1 : k1 = [g EXCEPT !.priv = null]
  OBVIOUS
<1>5. k1 = [of |-> a, pub |-> pub, priv |-> null, comp_pub |-> pat, comp_priv |-> d, classical |-> e, cmplen |-> f]
  BY <1>2, <1>4
<1>6. PICK k2 : k2 = [k1 EXCEPT !.comp_priv = stray]
  OBVIOUS
<1>7. k2 = [of |-> a, pub |-> pub, priv |-> null, comp_pub |-> pat, comp_priv |-> stray, classical |-> e, cmplen |-> f]
  BY <1>5, <1>6
<1>8. PICK k3 : k3 = [k2 EXCEPT !.of = q]
  OBVIOUS
<1>9. k3 = [of |-> q, pub |-> pub, priv |-> null, comp_pub |-> pat, comp_priv |-> stray, classical |-> e, cmplen |-> f]
  BY <1>7, <1>8
<1>10. /\ k3.of = q /\ k3.pub = pub /\ k3.priv = null /\ k3.comp_pub = pat /\ k3.comp_priv = stray
       /\ k3.classical = e /\ k3.cmplen = f
  BY <1>9
<1>11. k3 = KeyRecord(k3.of, k3.pub, k3.priv, k3.comp_pub, k3.comp_priv, k3.classical, k3.cmplen)
  BY <1>9, <1>10 DEF KeyRecord
<1>12. HasPublic(k3) \/ LacksPublic(k3)
  BY <1>1, <1>10 DEF HasPublic, LacksPublic
<1>13. Whole(k3)
  BY <1>1, <1>3, <1>10, <1>11, <1>12 DEF Whole
<1> QED
  BY <1>1, <1>4, <1>6, <1>8, <1>13

LEMMA SetParamsStep ==
    ASSUME OInv, NEW x \in Keys, NEW y \in Keys, O!oqsx_set_params(x, y)
    PROVE  OInv'
<1>1. Whole(key[x]) /\ Whole(key[y]) /\ key[y]["pub"] # O!Null /\ O!Kem
  BY LiveIsWhole DEF O!oqsx_set_params, O!Has
<1>2. PICK k : k = key[x]
  OBVIOUS
<1>3. PICK j : j = key[y]
  OBVIOUS
<1>4. j.of \in Pairs /\ j.pub = PubBuf(j.of)
  BY <1>1, <1>3, WholeHas
<1>5. PICK q \in Pairs : q = j.of
  BY <1>4
<1>6. PICK share : share = O!LUNA_PARAM_get_encoded_public_key(O!oqsx_get_params(j))
  OBVIOUS
<1>7. share = IF O!Single THEN <<Q(q)>> ELSE <<C(q, 1), C(q, 2), Q(q)>>
  BY <1>1, <1>4, <1>5, <1>6, ShareIs
<1>8. PICK g : g = O!Given(k, share)
  OBVIOUS
<1>9. PICK n : n = [g EXCEPT !.priv = O!Null, !.comp_priv = <<O!Stray, O!Stray>>, !.of = q]
  OBVIOUS
<1>10. Whole(n)
  <2>1. PICK pub, pat :
           /\ g = KeyRecord(k.of, pub, k.priv, pat, k.comp_priv, k.classical, k.cmplen)
           /\ \/ pub = PubBuf(q) /\ pat = PubAt
              \/ pub = PubBuf(q) /\ pat = <<0, 0>> /\ O!Single
              \/ pub = O!Null /\ pat = <<O!Stray, 0>> /\ ~O!Single
    BY <1>1, <1>2, <1>7, <1>8, GivenIs
  <2> QED
    BY <1>1, <1>2, <1>9, <2>1, ShareGiven
<1>11. key' = [key EXCEPT ![x] = n] /\ alg' = alg
  BY <1>2, <1>3, <1>5, <1>6, <1>8, <1>9 DEF O!oqsx_set_params
<1> QED
  BY <1>10, <1>11, OneChanges

LEMMA FreeKeyStep ==
    ASSUME OInv, NEW x \in Keys, O!oqsx_key_free(x)
    PROVE  OInv'
<1>1. PICK k : k = O!Free
  OBVIOUS
<1>2. key' = [key EXCEPT ![x] = k] /\ alg' = alg
  BY <1>1 DEF O!oqsx_key_free
<1> QED
  BY <1>1, <1>2, OneChanges

LEMMA OFirst == O!Init => OInv
<1> SUFFICES ASSUME O!Init PROVE OInv
  OBVIOUS
<1>1. key = [x \in Keys |-> O!Free] /\ alg \in O!Algs
  BY DEF O!Init
<1> HIDE DEF O!Init
<1>2. \A x \in Keys : key[x] = O!Free
  BY <1>1
<1>3. key = [x \in Keys |-> key[x]]
  BY <1>1
<1> QED
  BY <1>1, <1>2, <1>3 DEF OInv

LEMMA ONext == ASSUME OInv, O!Next, "classic" \notin Faults PROVE OInv'
<1>1. PICK x \in Keys, y \in Keys :
           \/ \E p \in Pairs, fault \in Faults \cup {"none"} : O!Gen(x, p, fault)
           \/ O!DecodePublic(x, y)
           \/ O!DecodePrivate(x, y)
           \/ \E list \in O!Lists : O!oqsx_import(x, y, list)
           \/ O!oqsx_set_params(x, y)
           \/ O!oqsx_key_free(x)
  BY DEF O!Next
<1>2. CASE \E p \in Pairs, fault \in Faults \cup {"none"} : O!Gen(x, p, fault)
  <2>1. PICK p \in Pairs, fault \in Faults \cup {"none"} : O!Gen(x, p, fault)
    BY <1>2
  <2>2. fault # "classic"
    OBVIOUS
  <2> QED
    BY <2>1, <2>2, GenKeyStep
<1>3. CASE O!DecodePublic(x, y)
  BY <1>3, DecodePublicStep
<1>4. CASE O!DecodePrivate(x, y)
  BY <1>4, DecodePrivateStep
<1>5. O!Lists = {{"pub"}, {"priv"}, {"pub", "priv"}}
  BY DEF O!Lists
<1>6. CASE \E list \in O!Lists : O!oqsx_import(x, y, list)
  <2>1. O!oqsx_import(x, y, {"pub"}) \/ O!oqsx_import(x, y, {"priv"}) \/ O!oqsx_import(x, y, {"pub", "priv"})
    BY <1>5, <1>6
  <2> QED
    BY <2>1, ImportPublicStep, ImportAloneStep, ImportPrivateStep
<1>7. CASE O!oqsx_set_params(x, y)
  BY <1>7, SetParamsStep
<1>8. CASE O!oqsx_key_free(x)
  BY <1>8, FreeKeyStep
<1> QED
  BY <1>1, <1>2, <1>3, <1>4, <1>6, <1>7, <1>8

LEMMA ORests == OInv /\ UNCHANGED oqs => OInv'
<1> SUFFICES ASSUME OInv, UNCHANGED oqs PROVE OInv'
  OBVIOUS
<1>1. alg' = alg /\ key' = key
  BY DEF oqs
<1>2. ASSUME NEW y \in Keys PROVE (key[y] = O!Free \/ Whole(key[y]))'
  <2>1. PICK z : z = key[y]
    OBVIOUS
  <2>2. z = O!Free \/ Whole(z)
    BY <2>1 DEF OInv
  <2>3. Whole(z) => Whole(z)'
    BY <1>1, WholeKept
  <2>4. key'[y] = z
    BY <1>1, <2>1
  <2>5. O!Free' = O!Free
    BY DEF O!Free
  <2>6. Whole(z)' => Whole(key[y])'
    BY <2>4 DEF Whole, KeyRecord, HasPublic, LacksPublic
  <2> QED
    BY <2>2, <2>3, <2>4, <2>5, <2>6
<1> QED
  BY <1>1, <1>2 DEF OInv, O!Algs

(* What whole keys give. *)
LEMMA OTypes == OInv => O!TypeOK
<1> SUFFICES ASSUME OInv PROVE O!TypeOK
  OBVIOUS
<1>1. ASSUME NEW x \in Keys, O!Live(x)
      PROVE  /\ key[x].of \in Pairs /\ key[x].classical.of \in Pairs \cup {0}
             /\ key[x].pub = O!Null \/ Len(key[x].pub) = O!pubkeylen
             /\ key[x].priv = O!Null \/ Len(key[x].priv) >= O!privkeylen
             /\ key[x].cmplen \in 1 .. O!PartSize["cpriv"]
  <2>1. PICK k : k = key[x]
    OBVIOUS
  <2>2. Whole(k)
    BY <1>1, <2>1, LiveIsWhole
  <2>3. k.of \in Pairs /\ (k.pub = O!Null \/ k.pub = PubBuf(k.of))
    BY <2>2, WholeHas
  <2>4. k.pub = O!Null \/ Len(k.pub) = O!pubkeylen
    BY <2>3, PubParts
  <2>5. k.priv = O!Null \/ Len(k.priv) >= O!privkeylen
    <3>1. k.priv # O!Null => k.priv \in PrivBufs(k.of)
      BY <2>2, PrivateHas
    <3> QED
      BY <2>3, <3>1, PrivParts
  <2>6. k.classical.of \in Pairs \cup {0} /\ k.cmplen \in 1 .. 3
    BY <2>2 DEF Whole
  <2>7. O!PartSize["cpriv"] = 3
    BY Sizes
  <2> QED
    BY <2>1, <2>3, <2>4, <2>5, <2>6, <2>7
<1>2. alg \in O!Algs
  BY DEF OInv
<1> QED
  BY <1>1, <1>2 DEF O!TypeOK

LEMMA PubWhole == \A p \in Pairs : SubSeq(PubBuf(p), 1, O!pubkeylen) = PubBuf(p)
<1> SUFFICES ASSUME NEW p \in Pairs PROVE SubSeq(PubBuf(p), 1, O!pubkeylen) = PubBuf(p)
  OBVIOUS
<1> DEFINE b == PubBuf(p)
<1>1. CASE O!Single
  <2>1. b = <<Q(p)>> /\ b[1] = Q(p) /\ O!pubkeylen = 1
    BY <1>1, Sizes DEF PubBuf
  <2> HIDE DEF b
  <2>2. SubSeq(b, 1, 1) = <<b[1]>>
    BY CutsAt
  <2>3. SubSeq(b, 1, O!pubkeylen) = b
    BY <2>1, <2>2
  <2> QED
    BY <2>3 DEF b
<1>2. CASE O!Hybrid
  <2>1. /\ b = <<O!Length(2), C(p, 1), C(p, 2), Q(p)>> /\ O!pubkeylen = 4
        /\ b[1] = O!Length(2) /\ b[2] = C(p, 1) /\ b[3] = C(p, 2) /\ b[4] = Q(p)
    BY <1>2, Sizes DEF PubBuf
  <2> HIDE DEF b
  <2>2. SubSeq(b, 1, 4) = <<b[1], b[2], b[3], b[4]>>
    BY CutsAt
  <2>3. SubSeq(b, 1, O!pubkeylen) = b
    BY <2>1, <2>2
  <2> QED
    BY <2>3 DEF b
<1>3. CASE O!Composite
  <2>1. /\ b = <<Q(p), C(p, 1), C(p, 2)>> /\ O!pubkeylen = 3
        /\ b[1] = Q(p) /\ b[2] = C(p, 1) /\ b[3] = C(p, 2)
    BY <1>3, Sizes DEF PubBuf
  <2> HIDE DEF b
  <2>2. SubSeq(b, 1, 3) = <<b[1], b[2], b[3]>>
    BY CutsAt
  <2>3. SubSeq(b, 1, O!pubkeylen) = b
    BY <2>1, <2>2
  <2> QED
    BY <2>3 DEF b
<1> QED
  BY <1>1, <1>2, <1>3, Sizes

LEMMA HalvesDiffer ==
    ASSUME NEW p \in Pairs, NEW q \in Pairs
    PROVE  /\ PubBuf(p) = PubBuf(q) => p = q
           /\ PrivBuf(p) = PrivBuf(q) => p = q
<1>1. PubBuf(p) = PubBuf(q) => p = q
  <2>1. O!Holds(PubBuf(p), PubAt[O!Pq], "qpub") = p /\ O!Holds(PubBuf(q), PubAt[O!Pq], "qpub") = q
    BY PubParts
  <2> QED
    BY <2>1
<1>2. ASSUME NEW r \in Pairs
      PROVE  /\ O!Hybrid => PrivBuf(r)[2] = <<"cpriv", r, 1>>
             /\ ~O!Hybrid => PrivBuf(r)[1] = <<"qpriv", r, 1>>
  <2>1. O!Hybrid /\ Short(r) => PrivBuf(r)[2] = D(r, 1)
    BY Sizes DEF PrivBuf
  <2>2. O!Hybrid /\ ~Short(r) => PrivBuf(r)[2] = D(r, 1)
    BY Sizes DEF PrivBuf
  <2>3. ~O!Hybrid => PrivBuf(r)[1] = E(r, 1)
    BY DEF PrivBuf
  <2> QED
    BY <2>1, <2>2, <2>3 DEF D, E
<1>3. PrivBuf(p) = PrivBuf(q) => p = q
  <2>1. /\ <<"cpriv", p, 1>> = <<"cpriv", q, 1>> => p = q
        /\ <<"qpriv", p, 1>> = <<"qpriv", q, 1>> => p = q
    OBVIOUS
  <2> QED
    BY <1>2, <2>1
<1> QED
  BY <1>1, <1>3

(* Halves that are there are compared by the pair they are of. *)
LEMMA Compared ==
    ASSUME NEW j, NEW k, Whole(j), Whole(k)
    PROVE  /\ O!SameBuffer(j.pub, k.pub, O!pubkeylen)
                 <=> j.pub # O!Null /\ k.pub # O!Null /\ j.of = k.of
           /\ O!SameBuffer(j.priv, k.priv, O!privkeylen)
                 <=> j.priv # O!Null /\ k.priv # O!Null /\ j.of = k.of
<1>1. j.of \in Pairs /\ k.of \in Pairs
  BY WholeHas
<1>2. ASSUME j.pub # O!Null, k.pub # O!Null
      PROVE  SubSeq(j.pub, 1, O!pubkeylen) = SubSeq(k.pub, 1, O!pubkeylen) <=> j.of = k.of
  <2>1. j.pub = PubBuf(j.of) /\ k.pub = PubBuf(k.of)
    BY <1>2, WholeHas
  <2>2. /\ SubSeq(j.pub, 1, O!pubkeylen) = PubBuf(j.of)
        /\ SubSeq(k.pub, 1, O!pubkeylen) = PubBuf(k.of)
    BY <1>1, <2>1, PubWhole
  <2> QED
    BY <1>1, <2>2, HalvesDiffer
<1>3. ASSUME j.priv # O!Null, k.priv # O!Null
      PROVE  SubSeq(j.priv, 1, O!privkeylen) = SubSeq(k.priv, 1, O!privkeylen) <=> j.of = k.of
  <2>1. j.priv \in PrivBufs(j.of) /\ k.priv \in PrivBufs(k.of)
    BY <1>3, PrivateHas
  <2>2. /\ SubSeq(j.priv, 1, O!privkeylen) = PrivBuf(j.of)
        /\ SubSeq(k.priv, 1, O!privkeylen) = PrivBuf(k.of)
    BY <1>1, <2>1, PrivParts
  <2> QED
    BY <1>1, <2>2, HalvesDiffer
<1> QED
  BY <1>2, <1>3 DEF O!SameBuffer

LEMMA OEqual == OInv => O!EqualIsSame
<1> SUFFICES ASSUME OInv, NEW x \in Keys, NEW y \in Keys, O!Live(x), O!Live(y)
             PROVE  LET Both(half) == O!Has(x, {half}) /\ O!Has(y, {half})
                        Neither(half) == ~O!Has(x, {half}) /\ ~O!Has(y, {half})
                        asked == {"params", "pub"} \cup (IF Both("pub") THEN {} ELSE {"priv"})
                        same == key[x].of = key[y].of
                    IN  /\ O!oqsx_match(key[x], key[y], asked)
                           <=> Neither("pub") \/ (same /\ (Both("pub") \/ Both("priv")))
                        /\ O!oqsx_match(key[x], key[y], {"priv"})
                           <=> Neither("priv") \/ (same /\ Both("priv"))
  BY DEF O!EqualIsSame
<1>1. PICK j : j = key[x]
  OBVIOUS
<1>2. PICK k : k = key[y]
  OBVIOUS
<1>3. Whole(j) /\ Whole(k)
  BY <1>1, <1>2, LiveIsWhole
<1>4. /\ O!Has(x, {"pub"}) <=> j.pub # O!Null
      /\ O!Has(y, {"pub"}) <=> k.pub # O!Null
      /\ O!Has(x, {"priv"}) <=> j.priv # O!Null
      /\ O!Has(y, {"priv"}) <=> k.priv # O!Null
  BY <1>1, <1>2 DEF O!Has
<1>5. PICK asked : asked = {"params", "pub"} \cup
                           (IF O!Has(x, {"pub"}) /\ O!Has(y, {"pub"}) THEN {} ELSE {"priv"})
  OBVIOUS
<1>6. "pub" \in asked /\ "params" \in asked
  BY <1>5
<1>7. O!oqsx_match(j, k, asked)
        <=> \/ j.pub = O!Null /\ k.pub = O!Null
            \/ j.of = k.of /\ \/ j.pub # O!Null /\ k.pub # O!Null
                              \/ /\ j.priv # O!Null /\ k.priv # O!Null
  <2>1. CASE (j.pub = O!Null) # (k.pub = O!Null)
    <3>1. O!oqsx_match(j, k, asked) <=> O!SameBuffer(j.priv, k.priv, O!privkeylen)
      BY <1>6, <2>1 DEF O!oqsx_match
    <3> QED
      BY <1>3, <2>1, <3>1, Compared
  <2>2. CASE (j.pub = O!Null) = (k.pub = O!Null)
    <3>1. O!oqsx_match(j, k, asked) <=> O!SameIfAny(j.pub, k.pub, O!pubkeylen)
      BY <1>6, <2>2 DEF O!oqsx_match
    <3> QED
      BY <1>3, <2>2, <3>1, Compared DEF O!SameIfAny
  <2> QED
    BY <2>1, <2>2
<1>8. O!oqsx_match(j, k, {"priv"})
        <=> \/ j.priv = O!Null /\ k.priv = O!Null
            \/ j.of = k.of /\ j.priv # O!Null /\ k.priv # O!Null
  <2>1. O!oqsx_match(j, k, {"priv"}) <=> O!SameIfAny(j.priv, k.priv, O!privkeylen)
    BY DEF O!oqsx_match
  <2> QED
    BY <1>3, <2>1, Compared DEF O!SameIfAny
<1> QED
  BY <1>1, <1>2, <1>4, <1>5, <1>7, <1>8

(* The cells of a ciphertext, a secret or a signature name one pair. *)
LEMMA CellsAre ==
    ASSUME NEW kind, NEW p
    PROVE  /\ O!Cells(kind, p, 1) = <<<<kind, p, 1>>>>
           /\ O!Cells(kind, p, 2) = <<<<kind, p, 1>>, <<kind, p, 2>>>>
           /\ O!Cells(kind, p, 3) = <<<<kind, p, 1>>, <<kind, p, 2>>, <<kind, p, 3>>>>
<1>1. O!Cells(kind, p, 1) = <<<<kind, p, 1>>>>
  BY DEF O!Cells
<1>2. O!Cells(kind, p, 2) = <<<<kind, p, 1>>, <<kind, p, 2>>>>
  BY DEF O!Cells
<1>3. O!Cells(kind, p, 3) = <<<<kind, p, 1>>, <<kind, p, 2>>, <<kind, p, 3>>>>
  BY DEF O!Cells
<1> QED
  BY <1>1, <1>2, <1>3

(* Key encapsulation, part by part. *)
Result(ct, secret) == [ok |-> TRUE, ct |-> ct, secret |-> secret]
LEMMA QsEncaps ==
    ASSUME NEW k, Whole(k), HasPublic(k)
    PROVE  O!oqs_qs_kem_encaps_keyslot(k) =
               Result(O!Cells("ct", k.of, 3), O!Cells("secret", k.of, 2))
<1>1. O!Holds(k.pub, k.comp_pub[O!Pq], "qpub") = k.of /\ k.of \in Pairs
  BY WholeHas, PubParts DEF HasPublic
<1>2. k.of # 0
  BY <1>1, KeyObjectsAssumption
<1>3. O!CtSize.pq = 3
  BY DEF O!CtSize
<1> QED
  BY <1>1, <1>2, <1>3 DEF O!oqs_qs_kem_encaps_keyslot, Result

LEMMA EvpEncaps ==
    ASSUME NEW k, Whole(k), HasPublic(k), ~O!Single
    PROVE  O!oqs_evp_kem_encaps_keyslot(k) =
               Result(O!Cells("ephemeral", 0, 2), O!Cells("agreed", k.of, 1))
<1>1. O!Holds(k.pub, k.comp_pub[O!Classic], "cpub") = k.of /\ k.of \in Pairs
  BY WholeHas, PubParts DEF HasPublic
<1>2. k.of # 0
  BY <1>1, KeyObjectsAssumption
<1>3. O!CtSize.classic = 2
  BY Sizes DEF O!CtSize
<1> QED
  BY <1>1, <1>2, <1>3 DEF O!oqs_evp_kem_encaps_keyslot, Result

LEMMA QsDecaps ==
    ASSUME NEW k, Whole(k), k.priv # O!Null, NEW p
    PROVE  O!oqs_qs_kem_decaps_keyslot(k, O!Cells("ct", p, 3)) =
               Result(O!Cells("ct", p, 3), O!Cells(IF p = k.of THEN "secret" ELSE "rejected", k.of, 2))
<1>1. O!Holds(k.priv, k.comp_priv[O!Pq], "qpriv") = k.of /\ k.of \in Pairs
  BY WholeHas, PrivateHas, PrivParts
<1>2. k.of # 0
  BY <1>1, KeyObjectsAssumption
<1>3. O!CtSize.pq = 3
  BY DEF O!CtSize
<1>4. Len(O!Cells("ct", p, 3)) = 3
  BY DEF O!Cells
<1>5. O!Cells("ct", p, 3) = O!Cells("ct", k.of, 3) <=> p = k.of
  <2>1. O!Cells("ct", p, 3)[1] = <<"ct", p, 1>> /\ O!Cells("ct", k.of, 3)[1] = <<"ct", k.of, 1>>
    BY DEF O!Cells
  <2> QED
    BY <2>1
<1> QED
  BY <1>1, <1>2, <1>3, <1>4, <1>5 DEF O!oqs_qs_kem_decaps_keyslot, Result

LEMMA EvpDecaps ==
    ASSUME NEW k, Whole(k), k.priv # O!Null, ~O!Single
    PROVE  O!oqs_evp_kem_decaps_keyslot(k, O!Cells("ephemeral", 0, 2)) =
               Result(O!Cells("ephemeral", 0, 2), O!Cells("agreed", k.of, 1))
<1>1. O!Holds(k.priv, k.comp_priv[O!Classic], "cpriv") = k.of /\ k.of \in Pairs
  BY WholeHas, PrivateHas, PrivParts
<1>2. k.of # 0
  BY <1>1, KeyObjectsAssumption
<1>3. O!CtSize.classic = 2
  BY Sizes DEF O!CtSize
<1> QED
  BY <1>1, <1>2, <1>3 DEF O!oqs_evp_kem_decaps_keyslot, Result

LEMMA ResultHas ==
    ASSUME NEW ct, NEW secret
    PROVE  Result(ct, secret).ok /\ Result(ct, secret).ct = ct /\ Result(ct, secret).secret = secret
  BY DEF Result

(* Of a joined ciphertext each part decapsulates its own. *)
LEMMA HybridKem ==
    ASSUME NEW k, Whole(k), HasPublic(k), NEW j, Whole(j), j.priv # O!Null, O!Kem, ~O!Single
    PROVE  LET c == O!Cells("ephemeral", 0, 2)
               q == O!Cells("ct", k.of, 3)
               ct == O!Join(c, q)
           IN  /\ O!oqs_hyb_kem_encaps(k) =
                      Result(ct, O!Join(O!Cells("agreed", k.of, 1), O!Cells("secret", k.of, 2)))
               /\ O!oqs_hyb_kem_decaps(j, ct) =
                      Result(ct, O!Join(O!Cells("agreed", j.of, 1),
                                        O!Cells(IF k.of = j.of THEN "secret" ELSE "rejected", j.of, 2)))
<1> DEFINE c == O!Cells("ephemeral", 0, 2)
           q == O!Cells("ct", k.of, 3)
           ct == O!Join(c, q)
           s == O!Cells("agreed", k.of, 1)
           t == O!Cells("secret", k.of, 2)
           u == O!Cells("agreed", j.of, 1)
           v == O!Cells(IF k.of = j.of THEN "secret" ELSE "rejected", j.of, 2)
           first == IF O!Reversed THEN O!CtSize.pq ELSE O!CtSize.classic
           halves == <<SubSeq(ct, 1, first), SubSeq(ct, first + 1, Len(ct))>>
<1>1. O!oqs_evp_kem_encaps_keyslot(k) = Result(c, s) /\ O!oqs_qs_kem_encaps_keyslot(k) = Result(q, t)
  BY EvpEncaps, QsEncaps
<1>2. O!oqs_evp_kem_decaps_keyslot(j, c) = Result(c, u) /\ O!oqs_qs_kem_decaps_keyslot(j, q) = Result(q, v)
  BY EvpDecaps, QsDecaps
<1>3. /\ halves[IF O!Reversed THEN 2 ELSE 1] = c /\ halves[IF O!Reversed THEN 1 ELSE 2] = q
      /\ Len(ct) = 5
  <2>1. O!CtSize.classic = 2 /\ O!CtSize.pq = 3
    BY Sizes DEF O!CtSize
  <2> DEFINE c1 == <<"ephemeral", 0, 1>>
             c2 == <<"ephemeral", 0, 2>>
             q1 == <<"ct", k.of, 1>>
             q2 == <<"ct", k.of, 2>>
             q3 == <<"ct", k.of, 3>>
  <2>2. c = <<c1, c2>> /\ q = <<q1, q2, q3>>
    BY CellsAre
  <2> HIDE DEF c, q, c1, c2, q1, q2, q3
  <2>3. CASE O!Reversed
    <3>1. ct = <<q1, q2, q3, c1, c2>>
      <4>1. <<q1, q2, q3>> \o <<c1, c2>> = <<q1, q2, q3, c1, c2>>
        BY Join32
      <4>2. ct = q \o c
        BY <2>3 DEF O!Join
      <4> QED
        BY <2>2, <4>1, <4>2
    <3> HIDE DEF ct
    <3>2. Len(ct) = 5 /\ ct[1] = q1 /\ ct[2] = q2 /\ ct[3] = q3 /\ ct[4] = c1 /\ ct[5] = c2
      BY <3>1
    <3>3. SubSeq(ct, 1, 3) = <<ct[1], ct[2], ct[3]>> /\ SubSeq(ct, 4, 5) = <<ct[4], ct[5]>>
      BY CutsAt
    <3>4. first = 3 /\ first + 1 = 4
      BY <2>1, <2>3
    <3> HIDE DEF first
    <3>5. halves = <<q, c>>
      BY <2>2, <3>2, <3>3, <3>4
    <3> HIDE DEF halves
    <3> QED
      BY <2>3, <3>2, <3>5
  <2>4. CASE ~O!Reversed
    <3>1. ct = <<c1, c2, q1, q2, q3>>
      <4>1. <<c1, c2>> \o <<q1, q2, q3>> = <<c1, c2, q1, q2, q3>>
        BY Join23
      <4>2. ct = c \o q
        BY <2>4 DEF O!Join
      <4> QED
        BY <2>2, <4>1, <4>2
    <3> HIDE DEF ct
    <3>2. Len(ct) = 5 /\ ct[1] = c1 /\ ct[2] = c2 /\ ct[3] = q1 /\ ct[4] = q2 /\ ct[5] = q3
      BY <3>1
    <3>3. SubSeq(ct, 1, 2) = <<ct[1], ct[2]>> /\ SubSeq(ct, 3, 5) = <<ct[3], ct[4], ct[5]>>
      BY CutsAt
    <3>4. first = 2 /\ first + 1 = 3
      BY <2>1, <2>4
    <3> HIDE DEF first
    <3>5. halves = <<c, q>>
      BY <2>2, <3>2, <3>3, <3>4
    <3> HIDE DEF halves
    <3> QED
      BY <2>4, <3>2, <3>5
  <2> QED
    BY <2>3, <2>4
<1>4. O!CtSize.classic + O!CtSize.pq = 5
  BY Sizes DEF O!CtSize
<1> HIDE DEF c, q, s, t, u, v
<1>5. O!oqs_hyb_kem_encaps(k) = Result(ct, O!Join(s, t))
  <2>1. /\ Result(c, s).ok /\ Result(c, s).ct = c /\ Result(c, s).secret = s
        /\ Result(q, t).ok /\ Result(q, t).ct = q /\ Result(q, t).secret = t
    BY ResultHas
  <2> QED
    BY <1>1, <2>1 DEF O!oqs_hyb_kem_encaps, Result
<1>6. O!oqs_hyb_kem_decaps(j, ct) = Result(ct, O!Join(u, v))
  <2>1. /\ Result(c, u).ok /\ Result(c, u).secret = u
        /\ Result(q, v).ok /\ Result(q, v).secret = v
    BY ResultHas
  <2> DEFINE e == O!oqs_evp_kem_decaps_keyslot(j, halves[IF O!Reversed THEN 2 ELSE 1])
             d == O!oqs_qs_kem_decaps_keyslot(j, halves[IF O!Reversed THEN 1 ELSE 2])
  <2>2. e = Result(c, u) /\ d = Result(q, v)
    BY <1>2, <1>3
  <2>3. O!oqs_hyb_kem_decaps(j, ct) =
           IF Len(ct) # O!CtSize.classic + O!CtSize.pq \/ ~e.ok \/ ~d.ok THEN O!Fails
           ELSE [ok |-> TRUE, ct |-> ct, secret |-> O!Join(e.secret, d.secret)]
    BY DEF O!oqs_hyb_kem_decaps
  <2> HIDE DEF e, d, ct
  <2>4. e.ok /\ d.ok /\ e.secret = u /\ d.secret = v
    BY <2>1, <2>2
  <2> QED
    BY <1>3, <1>4, <2>3, <2>4 DEF Result
<1> QED
  BY <1>5, <1>6 DEF c, q, s, t, u, v

LEMMA SecretsSame ==
    ASSUME NEW p, NEW q, NEW kind, kind = IF p = q THEN "secret" ELSE "rejected"
    PROVE  /\ O!Cells("secret", p, 2) = O!Cells(kind, q, 2) <=> p = q
           /\ O!Join(O!Cells("agreed", p, 1), O!Cells("secret", p, 2))
                = O!Join(O!Cells("agreed", q, 1), O!Cells(kind, q, 2)) <=> p = q
<1> DEFINE a == <<"agreed", p, 1>>
           b == <<"secret", p, 1>>
           c == <<"secret", p, 2>>
           d == <<"agreed", q, 1>>
           e == <<kind, q, 1>>
           f == <<kind, q, 2>>
<1>1. /\ O!Cells("agreed", p, 1) = <<a>> /\ O!Cells("secret", p, 2) = <<b, c>>
      /\ O!Cells("agreed", q, 1) = <<d>> /\ O!Cells(kind, q, 2) = <<e, f>>
  BY CellsAre
<1>2. (a = d => p = q) /\ (b = e => p = q) /\ (p = q => a = d /\ b = e /\ c = f)
  OBVIOUS
<1> HIDE DEF a, b, c, d, e, f
<1>3. <<b, c>> = <<e, f>> <=> p = q
  BY <1>2
<1>4. CASE O!Reversed
  <2>1. <<b, c>> \o <<a>> = <<b, c, a>> /\ <<e, f>> \o <<d>> = <<e, f, d>>
    BY Join21
  <2>2. <<b, c, a>> = <<e, f, d>> <=> p = q
    BY <1>2
  <2> QED
    BY <1>1, <1>3, <1>4, <2>1, <2>2 DEF O!Join
<1>5. CASE ~O!Reversed
  <2>1. <<a>> \o <<b, c>> = <<a, b, c>> /\ <<d>> \o <<e, f>> = <<d, e, f>>
    BY Join12
  <2>2. <<a, b, c>> = <<d, e, f>> <=> p = q
    BY <1>2
  <2> QED
    BY <1>1, <1>3, <1>5, <2>1, <2>2 DEF O!Join
<1> QED
  BY <1>4, <1>5

LEMMA KemCounts ==
    ASSUME NEW k, Whole(k), HasPublic(k), NEW j, Whole(j), j.priv # O!Null, O!Kem
    PROVE  LET e == O!Encaps(k)
               d == O!Decaps(j, e.ct)
           IN  e.ok /\ d.ok /\ (e.secret = d.secret <=> k.of = j.of)
<1> DEFINE kind == IF k.of = j.of THEN "secret" ELSE "rejected"
           c == O!Cells("ephemeral", 0, 2)
           q == O!Cells("ct", k.of, 3)
           ct == O!Join(c, q)
           s == O!Cells("secret", k.of, 2)
           v == O!Cells(kind, j.of, 2)
           st == O!Join(O!Cells("agreed", k.of, 1), s)
           uv == O!Join(O!Cells("agreed", j.of, 1), v)
<1>1. (s = v <=> k.of = j.of) /\ (st = uv <=> k.of = j.of)
  BY SecretsSame
<1>2. CASE O!Single
  <2>1. O!Encaps(k) = Result(q, s)
    BY <1>2, QsEncaps DEF O!Encaps
  <2>2. O!Decaps(j, q) = Result(q, v)
    BY <1>2, QsDecaps DEF O!Decaps
  <2> HIDE DEF q, s, v
  <2>3. /\ Result(q, s).ok /\ Result(q, s).ct = q /\ Result(q, s).secret = s
        /\ Result(q, v).ok /\ Result(q, v).secret = v
    BY ResultHas
  <2> QED
    BY <1>1, <2>1, <2>2, <2>3
<1>3. CASE ~O!Single
  <2>1. O!Encaps(k) = Result(ct, st)
    BY <1>3, HybridKem DEF O!Encaps
  <2>2. O!Decaps(j, ct) = Result(ct, uv)
    BY <1>3, HybridKem DEF O!Decaps
  <2> HIDE DEF ct, st, uv
  <2>3. /\ Result(ct, st).ok /\ Result(ct, st).ct = ct /\ Result(ct, st).secret = st
        /\ Result(ct, uv).ok /\ Result(ct, uv).secret = uv
    BY ResultHas
  <2> QED
    BY <1>1, <2>1, <2>2, <2>3
<1> QED
  BY <1>2, <1>3

(* A public half that the pointers do not lead to is of no use. *)
LEMMA UnplacedFails ==
    ASSUME NEW k, Whole(k), k.pub # O!Null, ~HasPublic(k)
    PROVE  O!Encaps(k) = O!Fails
<1>1. O!Single /\ k.comp_pub[O!Pq] = 0
  BY WholeHas
<1>2. O!Holds(k.pub, 0, "qpub") = 0
  BY DEF O!Holds
<1>3. O!oqs_qs_kem_encaps_keyslot(k) = O!Fails
  BY <1>1, <1>2 DEF O!oqs_qs_kem_encaps_keyslot
<1> QED
  BY <1>1, <1>3 DEF O!Encaps

(* Signatures: the parts of each, and what is combined of two. *)
LEMMA Join11 ==
    ASSUME NEW a, NEW b
    PROVE  <<a>> \o <<b>> = <<a, b>>
<1> DEFINE r == <<a>> \o <<b>>
           T == {a, b}
<1>1. <<a>> \in Seq(T) /\ <<b>> \in Seq(T)
  OBVIOUS
<1> HIDE DEF T
<1>2. /\ r = [i \in 1 .. 2 |-> r[i]]
      /\ r[1] = a /\ r[2] = b
  BY <1>1, ConcatIs
<1> HIDE DEF r
<1>3. r = <<a, b>>
  BY <1>2, Tuples
<1> QED
  BY <1>3 DEF r

LEMMA SigLens == \A p \in Pairs : O!ClassicSigLen(p) \in {1, 2}
<1>1. \A p \in Pairs : p % 2 \in {0, 1}
  BY KeyObjectsAssumption
<1> QED
  BY <1>1 DEF O!ClassicSigLen

LEMMA SigsDiffer ==
    ASSUME NEW p \in Pairs, NEW q \in Pairs
    PROVE  /\ O!PqSig(p) = O!PqSig(q) <=> p = q
           /\ O!ClassicSig(p) = O!ClassicSig(q) <=> p = q
<1>1. PICK kind : kind = <<"signature", O!PqTbs>>
  OBVIOUS
<1>2. PICK other : other = <<"classic signature", O!ClassicTbs>>
  OBVIOUS
<1>3. O!PqSig(p)[1] = <<kind, p, 1>> /\ O!PqSig(q)[1] = <<kind, q, 1>>
  BY <1>1 DEF O!PqSig, O!Cells
<1>4. \A r \in Pairs : O!ClassicSig(r)[1] = <<other, r, 1>>
  <2> SUFFICES ASSUME NEW r \in Pairs PROVE O!ClassicSig(r)[1] = <<other, r, 1>>
    OBVIOUS
  <2>1. PICK n : n = O!ClassicSigLen(r)
    OBVIOUS
  <2>2. n \in {1, 2}
    BY <2>1, SigLens
  <2>3. O!ClassicSig(r) = [i \in 1 .. n |-> <<other, r, i>>]
    BY <1>2, <2>1 DEF O!ClassicSig, O!Cells
  <2> QED
    BY <2>2, <2>3
<1> QED
  BY <1>3, <1>4

(* A hybrid signature that has the classical part of p and the post-quantum part of q. *)
SigHead(p) == <<O!Length(Len(O!ClassicSig(p)))>> \o O!ClassicSig(p)
Sig(p, q) == SigHead(p) \o O!PqSig(q)
LEMMA SigCuts ==
    ASSUME NEW p \in Pairs, NEW q \in Pairs
    PROVE  LET s == Sig(p, q)
               n == s[1][2]
           IN  /\ SubSeq(s, 1, n + 1) = SigHead(p)
               /\ SubSeq(s, 2, n + 1) = O!ClassicSig(p)
               /\ SubSeq(s, n + 2, Len(s)) = O!PqSig(q)
<1> DEFINE s == Sig(p, q)
           c == O!ClassicSig(p)
           d == O!PqSig(q)
<1>1. PICK d1, d2, d3 : d = <<d1, d2, d3>>
  BY CellsAre DEF O!PqSig
<1>2. CASE O!ClassicSigLen(p) = 1
  <2>1. PICK c1 : c = <<c1>>
    BY <1>2, CellsAre DEF O!ClassicSig
  <2>2. PICK l : l = O!Length(1)
    OBVIOUS
  <2>3. l[2] = 1
    BY <2>2 DEF O!Length
  <2>4. Len(c) = 1
    BY <2>1
  <2> HIDE DEF c, d
  <2>5. SigHead(p) = <<l, c1>>
    <3>1. <<l>> \o <<c1>> = <<l, c1>>
      BY Join11
    <3>2. SigHead(p) = <<O!Length(Len(c))>> \o c
      BY DEF SigHead, c
    <3> QED
      BY <2>1, <2>2, <2>4, <3>1, <3>2
  <2>6. s = <<l, c1, d1, d2, d3>>
    <3>1. <<l, c1>> \o <<d1, d2, d3>> = <<l, c1, d1, d2, d3>>
      BY Join23
    <3>2. s = SigHead(p) \o d
      BY DEF Sig, d
    <3> HIDE DEF s
    <3> QED
      BY <1>1, <2>5, <3>1, <3>2
  <2> HIDE DEF s
  <2>7. s[1] = l /\ s[2] = c1 /\ s[3] = d1 /\ s[4] = d2 /\ s[5] = d3 /\ Len(s) = 5
    BY <2>6
  <2>8. /\ SubSeq(s, 1, 2) = <<s[1], s[2]>> /\ SubSeq(s, 2, 2) = <<s[2]>>
        /\ SubSeq(s, 3, 5) = <<s[3], s[4], s[5]>>
    BY CutsAt
  <2>9. s[1][2] + 1 = 2 /\ s[1][2] + 2 = 3
    BY <2>3, <2>7
  <2> QED
    BY <1>1, <2>1, <2>5, <2>7, <2>8, <2>9 DEF s, c, d
<1>3. CASE O!ClassicSigLen(p) = 2
  <2>1. PICK c1, c2 : c = <<c1, c2>>
    BY <1>3, CellsAre DEF O!ClassicSig
  <2>2. PICK l : l = O!Length(2)
    OBVIOUS
  <2>3. l[2] = 2
    BY <2>2 DEF O!Length
  <2>4. Len(c) = 2
    BY <2>1
  <2> HIDE DEF c, d
  <2>5. SigHead(p) = <<l, c1, c2>>
    <3>1. <<l>> \o <<c1, c2>> = <<l, c1, c2>>
      BY Join12
    <3>2. SigHead(p) = <<O!Length(Len(c))>> \o c
      BY DEF SigHead, c
    <3> QED
      BY <2>1, <2>2, <2>4, <3>1, <3>2
  <2>6. s = <<l, c1, c2, d1, d2, d3>>
    <3>1. <<l, c1, c2>> \o <<d1, d2, d3>> = <<l, c1, c2, d1, d2, d3>>
      BY Join33
    <3>2. s = SigHead(p) \o d
      BY DEF Sig, d
    <3> HIDE DEF s
    <3> QED
      BY <1>1, <2>5, <3>1, <3>2
  <2> HIDE DEF s
  <2>7. s[1] = l /\ s[2] = c1 /\ s[3] = c2 /\ s[4] = d1 /\ s[5] = d2 /\ s[6] = d3 /\ Len(s) = 6
    BY <2>6
  <2>8. /\ SubSeq(s, 1, 3) = <<s[1], s[2], s[3]>> /\ SubSeq(s, 2, 3) = <<s[2], s[3]>>
        /\ SubSeq(s, 4, 6) = <<s[4], s[5], s[6]>>
    BY CutsAt
  <2>9. s[1][2] + 1 = 3 /\ s[1][2] + 2 = 4
    BY <2>3, <2>7
  <2> QED
    BY <1>1, <2>1, <2>5, <2>7, <2>8, <2>9 DEF s, c, d
<1> QED
  BY <1>2, <1>3, SigLens

LEMMA SignIs ==
    ASSUME NEW k, Whole(k), k.priv # O!Null, ~O!Kem
    PROVE  O!oqs_sig_sign(k) =
               IF O!Single THEN O!PqSig(k.of)
               ELSE IF O!Composite THEN <<O!PqSig(k.of), O!ClassicSig(k.of)>> ELSE Sig(k.of, k.of)
<1>1. O!Holds(k.priv, k.comp_priv[O!Pq], "qpriv") = k.of
  BY WholeHas, PrivateHas, PrivParts
<1>2. ~O!Single => k.classical.of = k.of
  BY DEF Whole
<1>3. O!HybridSignature(O!ClassicSig(k.of), O!PqSig(k.of)) = Sig(k.of, k.of)
  BY DEF O!HybridSignature, Sig, SigHead
<1>4. O!CompositeSignature(O!ClassicSig(k.of), O!PqSig(k.of)) = <<O!PqSig(k.of), O!ClassicSig(k.of)>>
  BY DEF O!CompositeSignature
<1> QED
  BY <1>1, <1>2, <1>3, <1>4 DEF O!oqs_sig_sign

LEMMA VerifyIs ==
    ASSUME NEW k, Whole(k), k.pub # O!Null, ~O!Kem, NEW sig
    PROVE  O!oqs_sig_verify(k, sig) <=>
               IF O!Single THEN sig = O!PqSig(k.of)
               ELSE IF O!Composite THEN O!VerifyComposite(sig, O!ClassicSig(k.of), O!PqSig(k.of))
               ELSE O!VerifyHybrid(sig, O!ClassicSig(k.of), O!PqSig(k.of))
<1>1. O!Holds(k.pub, k.comp_pub[O!Pq], "qpub") = k.of
  BY WholeHas, PubParts DEF HasPublic
<1>2. ~O!Single => k.classical.of = k.of
  BY DEF Whole
<1> QED
  BY <1>1, <1>2 DEF O!oqs_sig_verify

LEMMA SigCounts ==
    ASSUME NEW k, Whole(k), k.priv # O!Null, NEW l, Whole(l), l.priv # O!Null,
           NEW j, Whole(j), j.pub # O!Null, ~O!Kem
    PROVE  O!oqs_sig_verify(j, O!Combined(O!oqs_sig_sign(k), O!oqs_sig_sign(l)))
             <=> j.of = l.of /\ (O!Single \/ j.of = k.of)
<1> DEFINE s == O!oqs_sig_sign(k)
           t == O!oqs_sig_sign(l)
           both == O!Combined(s, t)
<1>1. PICK p \in Pairs : p = k.of
  BY WholeHas
<1>2. PICK q \in Pairs : q = l.of
  BY WholeHas
<1>3. PICK r \in Pairs : r = j.of
  BY WholeHas
<1>4. CASE O!Single
  <2>1. t = O!PqSig(q)
    BY <1>2, <1>4, SignIs
  <2>2. both = t
    BY <1>4 DEF O!Combined
  <2> HIDE DEF s, t, both
  <2>3. O!oqs_sig_verify(j, both) <=> both = O!PqSig(r)
    BY <1>3, <1>4, VerifyIs
  <2>4. O!PqSig(q) = O!PqSig(r) <=> q = r
    BY SigsDiffer
  <2> QED
    BY <1>2, <1>3, <1>4, <2>1, <2>2, <2>3, <2>4 DEF both, s, t
<1>5. CASE O!Composite
  <2>1. s = <<O!PqSig(p), O!ClassicSig(p)>> /\ t = <<O!PqSig(q), O!ClassicSig(q)>>
    BY <1>1, <1>2, <1>5, Sizes, SignIs
  <2> HIDE DEF s, t
  <2>2. both = <<t[1], s[2]>>
    BY <1>5, Sizes DEF O!Combined
  <2>3. both[1] = O!PqSig(q) /\ both[2] = O!ClassicSig(p)
    BY <2>1, <2>2
  <2> HIDE DEF both
  <2>4. O!oqs_sig_verify(j, both) <=> both[1] = O!PqSig(r) /\ both[2] = O!ClassicSig(r)
    BY <1>3, <1>5, Sizes, VerifyIs DEF O!VerifyComposite
  <2>5. (O!PqSig(q) = O!PqSig(r) <=> q = r) /\ (O!ClassicSig(p) = O!ClassicSig(r) <=> p = r)
    BY SigsDiffer
  <2>6. ~O!Single
    BY <1>5, Sizes
  <2> QED
    BY <1>1, <1>2, <1>3, <2>3, <2>4, <2>5, <2>6 DEF both, s, t
<1>6. CASE O!Hybrid
  <2>1. s = Sig(p, p) /\ t = Sig(q, q)
    BY <1>1, <1>2, <1>6, Sizes, SignIs
  <2> HIDE DEF s, t
  <2>2. both = SubSeq(s, 1, s[1][2] + 1) \o SubSeq(t, t[1][2] + 2, Len(t))
    BY <1>6, Sizes DEF O!Combined
  <2>3. SubSeq(s, 1, s[1][2] + 1) = SigHead(p)
    BY <2>1, SigCuts
  <2>4. SubSeq(t, t[1][2] + 2, Len(t)) = O!PqSig(q)
    BY <2>1, SigCuts
  <2>5. both = Sig(p, q)
    BY <2>2, <2>3, <2>4 DEF Sig
  <2> HIDE DEF both
  <2>6. /\ SubSeq(both, 2, both[1][2] + 1) = O!ClassicSig(p)
        /\ SubSeq(both, both[1][2] + 2, Len(both)) = O!PqSig(q)
    BY <2>5, SigCuts
  <2>7. O!oqs_sig_verify(j, both) <=> O!ClassicSig(p) = O!ClassicSig(r) /\ O!PqSig(q) = O!PqSig(r)
    BY <1>3, <1>6, <2>6, Sizes, VerifyIs DEF O!VerifyHybrid
  <2>8. (O!PqSig(q) = O!PqSig(r) <=> q = r) /\ (O!ClassicSig(p) = O!ClassicSig(r) <=> p = r)
    BY SigsDiffer
  <2>9. ~O!Single
    BY <1>6, Sizes
  <2> QED
    BY <1>1, <1>2, <1>3, <2>7, <2>8, <2>9 DEF both, s, t
<1> QED
  BY <1>4, <1>5, <1>6, Sizes

LEMMA OCounts == OInv => O!BothPartsCount
<1> SUFFICES ASSUME OInv PROVE O!BothPartsCount
  OBVIOUS
<1>1. ASSUME O!Kem, NEW x \in Keys, NEW y \in Keys, O!Has(x, {"pub"}), O!Has(y, {"priv"})
      PROVE  LET e == O!Encaps(key[x])
                 d == O!Decaps(key[y], e.ct)
             IN  /\ e.ok <=> key[x].comp_pub[O!Pq] # 0
                 /\ e.ok => d.ok /\ (e.secret = d.secret <=> key[x].of = key[y].of)
  <2>1. PICK k : k = key[x]
    OBVIOUS
  <2>2. PICK j : j = key[y]
    OBVIOUS
  <2>3. Whole(k) /\ Whole(j) /\ k["pub"] # O!Null /\ j["priv"] # O!Null
    BY <1>1, <2>1, <2>2, LiveIsWhole DEF O!Has
  <2>4. LET e == O!Encaps(k)
            d == O!Decaps(j, e.ct)
        IN  /\ e.ok <=> k.comp_pub[O!Pq] # 0
            /\ e.ok => d.ok /\ (e.secret = d.secret <=> k.of = j.of)
    <3>1. CASE HasPublic(k)
      <4>1. k.comp_pub[O!Pq] # 0
        BY <2>3, <3>1, WholeHas
      <4>2. LET e == O!Encaps(k)
                d == O!Decaps(j, e.ct)
            IN  e.ok /\ d.ok /\ (e.secret = d.secret <=> k.of = j.of)
        BY <1>1, <2>3, <3>1, KemCounts
      <4> QED
        BY <4>1, <4>2
    <3>2. CASE ~HasPublic(k)
      <4>1. k.comp_pub[O!Pq] = 0
        BY <2>3, <3>2, WholeHas
      <4>2. O!Encaps(k) = O!Fails /\ ~O!Fails.ok
        BY <2>3, <3>2, UnplacedFails DEF O!Fails
      <4> QED
        BY <4>1, <4>2
    <3> QED
      BY <3>1, <3>2
  <2> QED
    BY <2>1, <2>2, <2>4
<1>2. ASSUME NEW x \in Keys, NEW y \in Keys, NEW z \in Keys, O!Signs(x), O!Signs(z), O!Has(y, {"pub"})
      PROVE  O!oqs_sig_verify(key[y], O!Combined(O!oqs_sig_sign(key[x]), O!oqs_sig_sign(key[z])))
               <=> key[y].of = key[z].of /\ (O!Single \/ key[y].of = key[x].of)
  <2>1. PICK k : k = key[x]
    OBVIOUS
  <2>2. PICK j : j = key[y]
    OBVIOUS
  <2>3. PICK l : l = key[z]
    OBVIOUS
  <2>4. Whole(k) /\ Whole(j) /\ Whole(l) /\ j["pub"] # O!Null /\ k["priv"] # O!Null /\ l["priv"] # O!Null /\ ~O!Kem
    BY <1>2, <2>1, <2>2, <2>3, LiveIsWhole DEF O!Signs, O!Has
  <2>5. O!oqs_sig_verify(j, O!Combined(O!oqs_sig_sign(k), O!oqs_sig_sign(l)))
          <=> j.of = l.of /\ (O!Single \/ j.of = k.of)
    BY <2>4, SigCounts
  <2> QED
    BY <2>1, <2>2, <2>3, <2>5
<1> QED
  BY <1>1, <1>2 DEF O!BothPartsCount

-----------------------------------------------------------------------------
(* The parts together. *)
LEMMA KRests == KInv /\ UNCHANGED kmgmt => KInv'
<1> SUFFICES ASSUME KInv, UNCHANGED kmgmt PROVE KInv'
  OBVIOUS
<1>1. /\ types' = types /\ obj' = obj /\ app' = app /\ ref' = ref /\ gen' = gen /\ pair' = pair
      /\ joined' = joined
  BY DEF kmgmt
<1>2. PairsKept /\ GenKept
  BY <1>1 DEF PairsKept, GenKept, KInv
<1> QED
  BY <1>1, <1>2, KeyStep DEF KInv

LEMMA SRests == SInv /\ UNCHANGED store => SInv'
<1> SUFFICES ASSUME SInv, UNCHANGED store PROVE SInv'
  OBVIOUS
<1>1. ldr' = ldr /\ held' = held /\ refs' = refs
  BY DEF store
<1> QED
  BY <1>1 DEF SInv, LdrInv, RefInv

LEMMA KSInit == Init => KInv /\ SInv
  BY KFirst, SInit DEF Init

LEMMA KSStep == KInv /\ SInv /\ [Next]_vars => KInv' /\ SInv'
<1> SUFFICES ASSUME KInv, SInv, [Next]_vars PROVE KInv' /\ SInv'
  OBVIOUS
<1>1. CASE K!Next /\ UNCHANGED <<oqs, store>>
  BY <1>1, KNext, SRests
<1>2. CASE UNCHANGED <<kmgmt, store>>
  BY <1>2, KRests, SRests
<1>3. CASE S!Next /\ UNCHANGED <<kmgmt, oqs>>
  BY <1>3, KRests, SNext
<1>4. UNCHANGED vars => UNCHANGED <<kmgmt, store>>
  BY DEF vars
<1> QED
  BY <1>1, <1>2, <1>3, <1>4 DEF Next

LEMMA KSAlways == Spec => [](KInv /\ SInv)
  BY KSInit, KSStep, PTL DEF Spec

(* An object that a decoder made is in one hand at a time: in the reference, or, after
   the load, with libcrypto (luna_*_load); and an object of the store loader that its
   callback was given is alive as long as the reference holds it. *)
THEOREM ObjectsAreOwned == Spec => []OwnedOnce
<1>1. KInv /\ SInv => OwnedOnce
  BY KOwned, SGives DEF OwnedOnce
<1> QED
  BY <1>1, KSAlways, PTL

(* What a store lists is given once and in order, and the end is not seen before: the
   names of a directory that are wanted, less those that could not be opened because the
   load of an entry broke off (file_load_dir_entry, file_eof), and the objects of the
   token that its iterator lists (luna_find_pkcs11, LUNA_FIND_CTX_next). The objects
   inside one file are not part of this. *)
THEOREM StoreGivesEachOnce == Spec => []EachOnce
<1>1. KInv /\ SInv => EachOnce
  BY SGives DEF EachOnce
<1> QED
  BY <1>1, KSAlways, PTL

(* What stands for a private half tells where the pair it was made for has its real one
   (luna_prov_rsa_check_private and its kin), and a validation passes only two halves of
   one pair. There is one exception: the marker of an EC key says nothing of its pair, so
   a public half that was set over it by ec_set_params (lunaEcGen.c) validates as well. *)
THEOREM GuessesAreRight == Spec => []GuessAndPair
<1>1. KInv /\ SInv => GuessAndPair
  BY KGuess DEF GuessAndPair
<1> QED
  BY <1>1, KSAlways, PTL

(* The keys of the oqs part are whole as long as no generation loses its classical part;
   what the others do is independent of that. *)
LEMMA OStep ==
    ASSUME "classic" \notin Faults
    PROVE  OInv /\ [Next]_vars => OInv'
<1> SUFFICES ASSUME OInv, [Next]_vars PROVE OInv'
  OBVIOUS
<1>1. CASE O!Next
  BY <1>1, ONext
<1>2. CASE UNCHANGED oqs
  BY <1>2, ORests
<1>3. O!Next \/ UNCHANGED oqs
  BY DEF Next, vars
<1> QED
  BY <1>1, <1>2, <1>3

LEMMA OAlways ==
    ASSUME "classic" \notin Faults
    PROVE  Spec => []OInv
<1>1. Init => OInv
  BY OFirst DEF Init
<1>2. OInv /\ [Next]_vars => OInv'
  BY OStep
<1> QED
  BY <1>1, <1>2, PTL DEF Spec

(* The objects of all three parts have their types: the type of a classic object is one of
   its family, the buffers of an oqs key have the length of its algorithm. *)
THEOREM ObjectTypesAreKept ==
    ASSUME "classic" \notin Faults
    PROVE  Spec => []TypeOK
<1>1. KInv /\ SInv /\ OInv => TypeOK
  BY KTypes, SGives, OTypes DEF TypeOK
<1>2. Spec => []OInv
  BY OAlways
<1> QED
  BY <1>1, <1>2, KSAlways, PTL

(* Two classic objects that compare equal hold a half of the same pair, or the same zeros,
   although the private halves of keys of the token are all alike (luna_*_match). Two oqs keys compare equal exactly when
   they have the same half of one pair, and also when neither has a public half: EVP_PKEY_eq
   never has oqsx_match look at the private halves then. *)
THEOREM EqualObjectsAreSame ==
    ASSUME "classic" \notin Faults
    PROVE  Spec => []EqualIsSame
<1>1. KInv /\ OInv => EqualIsSame
  BY KEqual, OEqual DEF EqualIsSame
<1>2. Spec => []OInv
  BY OAlways
<1> QED
  BY <1>1, <1>2, KSAlways, PTL

(* Both parts of a hybrid or composite key count, wherever the key came from: generated
   (oqsx_key_gen), decoded (oqsx_key_from_pkcs8, oqsx_key_from_x509pubkey), imported
   (oqsx_key_fromdata) or given a key share (oqsx_set_params). A secret is shared, and a
   signature is good, exactly when both of its parts are of one pair. Only a share set in
   an object that has no public half is of no use: the pointers do not lead to it. *)
THEOREM BothPartsAlwaysCount ==
    ASSUME "classic" \notin Faults
    PROVE  Spec => []BothPartsCount
<1>1. OInv => BothPartsCount
  BY OCounts DEF BothPartsCount
<1>2. Spec => []OInv
  BY OAlways
<1> QED
  BY <1>1, <1>2, PTL

=============================================================================
