# Verification of the Luna OpenSSL provider and engine

TLA+ models of the logic of this repository, the TLC configurations that check
them on small instances, and machine-checked proofs (TLAPS) of their main
invariants. Line numbers refer to the sources of the repository.

## 1. The system

The repository builds one shared library: an OpenSSL *engine* (`gem`,
`engine/e_gem.c`) and an OpenSSL 3 *provider* (`lunaProvider/`) which includes
the engine's source and adds post-quantum keys (`oqsprov2/`, derived from the
oqs-provider). Both send crypto operations to a Luna HSM through a PKCS#11
library ("cryptoki") and fall back to software where the key or the
configuration says so.

### Inventory

| component | state | operations | hard behaviour | what makes it correct | module |
|---|---|---|---|---|---|
| key lock (`lunaCommon.c` 1847-2016) | `readers`, `writers`, `want_writers` under `mu`, the key buffer | write lock/unlock, read lock/unlock | polling between releases of `mu`, starvation | exclusion, exact counters, writers not overtaken, pointers of readers stay valid | `RWLock`, `KeyLock` |
| session layer (`e_gem.c` 1617-1906, 4460-4790) | `luna_have_c_init`, `luna_count_c_init`, session cache, login sessions, activity counters, `luna_flag_recovery`, one global mutex | open and close a context, initialize, log in, recover, finalize, `SET_FINALIZE_PENDING` | calls of many threads against recovery and finalization, sleeps that release the mutex, failures half-way | a session serves one call; no call over a finalized library; exact counters; recovery ends; nothing leaks | `Session` |
| fork handling (`e_gem.c` 4494-4543) | `pid_bind`, `pid_c_init`, `pid_intermediate(_count)`, `in_child_v` | open in parent, intermediate and child processes | state copied by fork between any two calls | parent and child have different connections | `Process` |
| engine lifecycle (`e_gem.c` 974-1610, 9958-9980; `lunaCommon.c`, `lunaProvider.c`) | reference counts, mutexes, loaded library, registered methods | bind, init, finish, destroy, exit handlers, load and unload of the provider | order of calls, failures half-way, double teardown | everything is there with the first context and gone with the last | `Process` |
| key use (`lunaCommon.c` 1306-1772, `lunaPqcSig.c`, `lunaPqcKem.c`) | `magic`, `is_hardware`, `hPublic`, `hPrivate`, `count_c_init`, `reason` of a key context | query, lazy search, sign, verify, encapsulate, decapsulate | readers search and operate at the same time with no lock between them; re-initialization under a cached handle | fresh and non-null handles; hardware keys stay in hardware | `KeyUse` |
| references to token keys (`lunaPqcSig.c`, `lunaPqcKem.c`, `lunaCommon.c`) | labels in the private buffer, objects of the token | generate, export, load, search, encapsulate | partial failures, keys that travel without their token, objects that vanish | a reference is never taken for a key and finds its own pair | `PqcRef` |
| wrapping key (`lunaCommon.c` 2024-2580, 2835-3110) | an RSA key pair made on demand, its public object in the token | derive, wrap, unwrap secrets | lazy creation under no lock, re-initialization | no outdated handle wraps; no secret stays in the token | `TokenSecret` |
| PQC random numbers (`lunaCommon.c` 3600-3715) | cache of random bytes under a mutex, error flag | bytes | cache shared by threads, failure in a refill, fork | no byte is handed out twice in a process; over a fork only what was unread | `PqcRng` |
| engine keys and handle cache (`e_gem.c` 2323-2641, 6324-7280) | handles and counts in the ex_data of RSA, DSA, EC keys | find, cache, generate, load by an identifier | stale handles, two slots, public and private objects | the token is given a handle of the key's own object | `EngineKey` |
| engine crypto operations (`e_gem.c` 2717-4116, 7538-9200) | none of their own | RSA sign/verify/encrypt/decrypt, DSA, ECDSA, ECDH | choice between token and software, padding done here or there | private operations are done where the private members are | `EngineKey`, `RsaEnc` |
| classic signature and exchange contexts (`luna{RsaSig,RsaEnc,DsaSig,EcSig,EddsaSig,Ecdh,Ecx}.c`) | operation contexts, references to keys | init, parameters, update, final, copy, free | long sequences of legal calls, refused calls, copies | signatures cover the message and keep the key's restrictions; keys live as long as a context | `RsaSig`, `RsaEnc`, `OpContext` |
| classic key management (`luna{Rsa,Dsa,Ec,Ecx}Gen.c`) | key objects whose private half may be a marker | generate, load, dup, import, export, match, validate | the private half is not there | one owner; the place of a key is guessed right | `KeyMgmt` |
| store loader (`lunaFileStore.c`, `lunaFileAny2obj.c`, `lunaCommon.c` 3762-3833) | loader contexts of a file, a directory and the token | open, load, eof, close | long-lived context, read-ahead, keys with several holders | every object once; nothing freed twice; close releases the session | `StoreLoader`, context in `Session` |
| oqs keys (`oqsprov_keys.c`, `oqs_kmgmt.c`) | `OQSX_KEY` buffers of one or two parts, pointers into them | new, free, decode, generate, import, export, key share | layout of hybrid and composite keys, failures half-way | both parts count; equal means the same key | `OqsKey` |
| oqs operations (`oqs_sig.c`, `oqs_kem.c`) | operation contexts | hybrid and composite signatures, KEMs | choice between token and liboqs per part | both parts are of one key pair | `KeyUse`, `TokenSecret`, `OpContext`, `OqsKey` |
| encoders and decoders (`oqs_encode_key2any.c`, `oqs_decode_der2key.c`, ...) | none | encode, decode | references in place of keys | what is decoded is what was encoded | `OqsKey` (contents of the encodings) |
| password (`e_gem.c` 9215-9310) | `boolInit`, password | read, log in | one failed login is final | login state matches `boolInit` | login in `Session` |
| engine random numbers (`e_gem.c` 4302-4455) | none | seed, bytes, status | - | - | not modelled |
| configuration (`e_gem.c` 4800-5240) | `g_config`, `g_postconfig` | read once | - | - | constants of the modules |
| provider registration (`lunaProvider.c`) | provider context | init, teardown | failures half-way | one teardown per init | `Process` |
| tables, error strings, headers, samples, scripts | static | - | - | - | not modelled |

### How the parts interact

Every crypto operation opens a *context* (`luna_open_context`), uses its session
in calls of the PKCS#11 library, notes severe errors in it
(`luna_context_set_last_error`) and closes it. Opening initializes the library
when needed, and closing may start a recovery that blocks all other opens. The
session layer is serialized by one process-wide mutex, which is released in two
places in the middle of a call, and by the counters of calls that are inside.

Opening also compares process identifiers: a process that inherits an initialized
library finalizes it and makes its own connection, and a process that may fork
finalizes the library after each call. The provider brings the engine up with its
first library context and down with its last.

A PQC operation takes the read lock of its key context, asks the session layer
for a context, and compares `keyctx->count_c_init` with `luna_count_c_init` to
learn whether its cached object handles survived. So `KeyUse` depends on two
facts of `Session`: the library is only finalized while no context is open, and
the count changes with each initialization. Both are proved there
(`SessionsAreLive`, `CountersAreExact`). `EngineKey` and `TokenSecret` rest on the
same two facts. A secret that an encapsulation or derivation leaves in the token is
carried out under the wrapping key.

A store iterator holds a context for as long as the application keeps the store
open, and loads each object through `luna_load_anykey`, which opens another.
The keys it gives are objects of the key management, with a marker where their
private half would be; the operation contexts hold references to them.

## 2. Modules

Each module describes its source in its head comment; `PROJECT.json` gives for
every definition the lines it stands for.

**`RWLock`** is what the key lock promises: a set of readers, at most one
writer, each reader looking at the buffer that was current when it came in.

**`KeyLock`** is the lock of the code. A critical section of `mu` is one step; the
loop of a lock function is a first pass (`WriteLock`, `ReadLock`) and later
passes (`WriteRetry`, `ReadRetry`) that happen when the test succeeds. The key
buffer and the pointers that `_LUNA_OQS_READKEY_NDX` copies out of it are `buf`
and `view`.

**`Session`** is the session layer of one process. Each action is a piece of code
between two points where the mutex can change hands or an outcome of a library
call is decided:

| action | code |
|---|---|
| `StartOpen`, `EnterOpen` | entry of `luna_open_context_ndx`, wait for a recovery, enter the mutex |
| `InitP11` and its failures `InitFails`, `InitLateFails` | `luna_init_p11_deferred` with the login of every slot; failure before and after `C_Initialize` took effect |
| `GetSession`, `GetSessionFails` | choice of the slot, session from the cache or from the library, counters |
| `Close`, `CloseFinalize`, `CloseRecover` | `luna_close_context_w_err` with no recovery, in a parent process, with recovery |
| `DrainSleep`, `Drained` | the closer sleeps outside the mutex while calls are inside |
| `RecoverNot`, `RecoverLogin`, `RecoverGivesUp`, `RecoverFinalize` | the end of a recovery by `RecoveryLevel` and outcome |
| `StartFinalizePending`, `SetFinalizePending` | the control command |
| `Fini` (operator) | `luna_fini_p11`, used by several of them |

A context is a record with the session handle, the slot, the count of
initializations it was opened in and the most severe error seen. What a call on
the token returns is a member of `Results`. Handles are reusable: the library
may give out any handle that is not open, including one that an old context
still remembers.

**`Process`** is a set of processes, each a memory image: the pid variables, the
counts, the loaded parts of the engine and the provider contexts. A function of the
code is an operator that returns the images it may leave; fork copies the image.
The actions are the loads and unloads of the provider, a call's open and close,
the control commands that prepare a fork, fork and exit.

**`KeyUse`** is one key context used by several threads. Readers of the key lock
run together and the fields are plain (not volatile, not under `mu`), so each
load or store of a shared field is a step, in source order; the makefiles of the
project set no optimization level. A handle is represented by the
initialization of the library it belongs to. Finalization and initialization by
other calls of the process are the actions `Finalize` and `Initialize`.

**`PqcRef`** follows the bytes of a key whose pair is in the token: generation
writes labels into the private buffer, a search decodes them. Calls run one after
the other; the objects come and go.

**`TokenSecret`** is the way of a secret out of the token, with threads interleaved
at every load and store of the four unlocked `luna_wrapping_*` variables.

**`PqcRng`** is the cache of random bytes, its mutex and its failure flag, in a
process and a child that inherits them.

**`EngineKey`** has keys of the engine with the handles cached in their ex_data, the
objects of two slots, and the operations that choose a place, a handle and a
padding.

**`RsaSig`**, **`RsaEnc`**, **`OpContext`** are the contexts libcrypto drives: RSA
signatures, RSA encryption (with `luna_rsa_decrypt` of the engine), and those of the
other keys (digest-and-sign of DSA, EC, EdDSA and OQS keys, EC and ECX exchange).
One action per dispatch function.

**`KeyMgmt`** is the key management of the classic families; a behaviour is of one
family (`types`, one of `Families`), as keys of two families never meet. **`OqsKey`** is
that of the OQS keys, with their encodings and what hybrid and composite operations do
with the parts; **`StoreLoader`** the loader that gives libcrypto such keys.

Components that share no state are put beside each other by a host module; a behaviour
of a host is of one of its components, which a variable that never changes names, and the
properties of the host are the conjunctions of theirs:

| host | components | chosen by | specification | TLC |
|---|---|---|---|---|
| `Contexts` | `RsaSig`, `RsaEnc`, `OpContext` | `kind` | `Spec` | `MCContexts` |
| `KeyObjects` | `KeyMgmt`, `OqsKey`, `StoreLoader` | `part` | `Spec` | `MCKeys` |
| `KeyPaths` | `KeyUse`, `TokenSecret`, `PqcRef`, `PqcRng` | `part` | `PathSpec` | `MCKeyUse` |

`MCKeyLock`, `MCSession`, `MCProcess` and `MCEngineKey` instantiate one module each. The
theorems are in `KeyLockProofs`, `SessionProofs`, `ProcessProofs`, `EngineKeyProofs`,
`KeyUseProofs` (of `KeyPaths`, with `TokenSecretProofs` for its wrapping key),
`ContextProofs` and `KeyObjectProofs`. They are about the same modules that TLC checks: a
host and not its `MC` module declares what the theorems are stated of.

### What is abstracted, and why it is safe to

* `C_CloseSession`, `C_Finalize` and `C_Logout` succeed. Their results are only
  logged by the code.
* The password: `boolInit` is modelled, its contents are not. The additional
  login of a protect server (`luna_ps_check_lib`) is left out; its failure takes
  the path of `GetSessionFails`.
* `CountModulus` stands for 2^32. TLC uses 3 in `session` and 4 elsewhere, so that the
  wrap happens; the proofs hold for every modulus greater than one. With a small modulus
  a context could be mistaken for one of a few initializations ago; `SessionsLive` shows that no
  context survives even one.
* `Session` describes one process. Its settings are in `config`, read once: with
  `finalizeEach` it is the parent of the fork protocol (a child behaves like a process
  without it after its first open), with `skipInit` the application does `C_Initialize`
  and `C_Finalize` (`skip_c_initialize`). A behaviour has one of the settings in
  `Configs`; the theorems hold for all. `Process` has the forks, and one call at a time.
* `KeyUse` has one slot. `luna_open_context` takes the slot with the shortest line
  (`e_gem.c` 4547-4565, 4611) and a key context remembers handles and no slot, so with
  `Engine2Init` a handle may be used in the other slot; that is not in the model.
* `KeyUse` leaves out the shim firmware (which encapsulates to the key bytes
  without an object), the export of public bytes after the first search of an
  ECX key, and `QUERY_X` (the algorithm is enabled). Writers of a key context run
  while it is being made, before other threads know it; `KeyUse` starts with the
  key made, loaded or generated, `PqcRef` has the making.
* `TokenSecret` tells objects by what they are, where the token would reuse
  numbers; that the handle is current is then visible in it.
* `EngineKey` opens and closes a context in one step (`Session!SessionsLive`), and
  leaves the choice of the slot free.
* Messages are numbers of chunks, digests and labels are names, an RSA encoding is a
  length and what it carries. Two contexts meet only through copies and through the
  messages they exchange.
* Buffers of OQS keys are sequences of cells; a length field is one cell, the two
  parts have different sizes, and a private RSA part is one cell shorter than its
  space for every second pair, as DER encodings are.
* Selections of the key management are those that callers in libcrypto use.
  libcrypto frees a context whose initialization fails.
* Memory is never exhausted, except where a failed allocation is like another
  failure of the same function.

## 3. Runs

| run | instance | shows |
|---|---|---|
| `key_lock` | 4 threads, 2 buffers, fairness | counters exact, current view, no overtaking, refinement of `RWLock` (and so exclusion), writers and readers progress |
| `session` | 2 threads with store iterators, 2 slots, 5 handles, recovery level 2, login; finalizing after each call or not, the application owning `C_Finalize` or not | counters exact, sessions exclusive, sessions live; a process that finalizes each time keeps no connection outside the mutex; no session in use is lost, others only by a recovery or where the application owns `C_Finalize` |
| `session_live` | 2 threads without store iterators, fairness | a recovery ends |
| `process` | 3 processes, 2 library contexts, 1 intermediate process | connections are their process's own and survive other processes; inherited handles are not current; the engine lives exactly as long as the provider |
| `key_use` | 2 threads, 3 operations, 2 initializations, a key of the token or of liboqs; beside it secrets, references, random numbers | counts vouch for fresh handles, no null handle, each key goes where it belongs; secrets arrive and do not stay; references hold; no byte twice in a process, over a fork only what was unread |
| `engine_key` | 2 threads, an RSA, a DSA and an EC key, 2 slots, 2 sessions, 2 configurations | the token is given the key's own object, private operations are done in their place, standard padding |
| `contexts` | 2 contexts over RSA, PSS, DSA, EC, EdDSA, OQS and ECX keys | whole message, restrictions, exact references; RSA signatures and ciphertexts go through under the same parameters, Edwards signatures of software under the same instance and string, those of the token under a pure instance only |
| `keys` | 2 objects and 2 pairs per classic family; 3 OQS keys of 2 pairs over 8 kinds of algorithm; 2 objects of a loader | one owner, place guessed right, validation and comparison right with the exceptions of section 6, both parts count, every name once |

Runs that refute a statement of the repository:

| run | statement | what happens |
|---|---|---|
| `session_skip` | "C_Finalize; close cached sessions otherwise, token session leak" (`e_gem.c` 1864) | the first cached session of a slot is closed, the others are forgotten open |
| `session_store` | "wait for thread activity to reach zero ... unblock" (`e_gem.c` 4726-4768) | the thread waits for its own store iterator |
| `key_use_stale` | "check for stale object handle" (`lunaPqcSig.c` 603) | handle read, key found again by another reader, test passes |
| `oqs_gen` | "allocates OQS and classical keys" (`oqsprov_keys.c` 1946) | the classical part fails to be generated, the key is returned as a success |

### Bounds

*Session, key lock, key use.* A recovery takes one thread that recovers and one that
is inside or comes in; store iterators double what a thread holds, so `session` has
two threads and up to four contexts. Handles are one more than contexts in use, so
that a login session and a cached one exist beside them; with fewer `GetSession` only
blocks, which is no behaviour the code lacks. `session_skip` takes one slot and three
handles, two of them cached at a finalization. Two slots with two threads reach every combination of the shortest-line rule. Two
threads and two initializations are what a stale handle takes, `key_use_stale` has
three initializations. Four threads at the key lock give two writers and two readers.

*Process.* One call at a time per process, forks between calls, lines of three
processes: parent, intermediate process, child. `MaxRunning` = 2 processes run at a
time, `MaxInits` = 3 initializations. The theorems hold without these bounds.

*EngineKey.* One key per type; the token gives out the lowest free handles, which is
the worst case for a stale one; slots are chosen freely.

*Contexts.* Two contexts: one that was copied from, or signed for, the other. RSA
contexts take one set of parameters after initialization and two chunks, others one
chunk. 1025-bit keys make the encoded message a byte shorter than the key. An
application starts with two keys (`AppKeys`): two of one curve, of which each may be the
peer of the other, an OQS and an Edwards key, or an Edwards key in software and one in the
token. `RsaEnc` has ten parameter lists.

*Keys.* Two objects, two pairs: enough for a wrong comparison and for a reference that
is taken over. The eight OQS algorithms are one of each layout: signature or KEM, alone,
with a classical part before or after it, RSA, composite. The directory has four names,
accepted or not; streams have up to three items; one loader at a time.

*TokenSecret* two threads, two sessions, two RSA keys; *PqcRef* two keys, two pairs and
one kind of key per behaviour; *PqcRng* a cache of three bytes, small requests of two,
two fills, two threads and a child: a refill that leaves a rest behind, and a second one.
`Parts` chooses among the components of `KeyPaths`: `key_use` looks at all four,
`key_use_stale` at the key context alone.

Threads, handles, contexts, keys and children are interchangeable, hence the symmetry
sets; the runs with liveness properties use none.

`CHECK_DEADLOCK FALSE` is in `MCContexts.cfg` (an application that has freed everything
may stop), `MCProcess.cfg` (processes exit) and `MCSession.cfg`, `MCSessionStore.cfg`
(with store iterators everybody may wait: the finding of `session_store`).

### Fairness

`KeyLock`: weak fairness of retries and unlocks. A sleeping thread polls every 10
ms and a holder finishes its call; nothing obliges a thread to ask for a lock.
`Session`: weak fairness, per thread, of continuing an open, of closing an open
context and of continuing a recovery. The second says that a call on the token
returns and that its caller closes the context, as every caller in the sources
does. The control command gets none: it polls for a moment of no activity
which may never come. The other modules state safety only.

## 4. Proofs

All theorems are `Spec => []P` (or `Spec => P` for action properties) for every value
of the constants that satisfies the assumptions of the modules. These say what the
constants are; the ones with content are

* a finite set of threads, of engine keys, or of operation contexts, where something is
  counted; one or two slots; a modulus above one;
* names that stand for "none" are no key, pair, object or session, and the shared
  identifier "temp" is no key's (`KeysAssumption`);
* a small request of random bytes fits the cache (`KeyPathsAssumption`);
* only RSA-PSS keys carry restrictions, and the words for "no digest" are no digest
  (`ContextsAssumption`).

Some theorems assume more, in their `ASSUME`:

| assumption | theorems | why |
|---|---|---|
| `CheckFinalize` | processes, except the types and the engine | without comparing identifiers the properties are false: a child uses its parent's connection |
| finitely many library contexts | `EngineFollows`, `ConnectionsAreNotCut`, `ProcessTypesAreKept` | the references to the engine are counted |
| finitely many processes | `ProcessTypesAreKept` | the depth of a process is counted |
| `MaxInits > 0` | processes: the types | the bound of the model, which admits one initialization |
| `"classic" \notin Faults` | `ObjectTypesAreKept`, `EqualObjectsAreSame`, `BothPartsAlwaysCount` | a classical part that fails to be generated is what `oqs_gen` shows to be lost |

**Key lock.** `IInv == TypeOK /\ CountersExact /\ WriterAlone /\ ReaderViewCurrent`.
Exclusion alone is not inductive: that a writer may come in follows from
counters that read zero, which means "no thread" only because the counters are
the cardinalities of the threads at each place. `MoveCounts` says how a move of
one thread changes a cardinality. `ReadersYield` and `Refinement` follow from the
invariant step by step; sleeping is a stutter of `RWLock`.

**Session layer.** `IInv` joins the three properties with what relates the mutex to
the places of the threads (`PlaceInv`), the parent mode (`ParentInv`) and the
login sessions (`LoginInit` off means none, logged-in sessions are live and
distinct: `LoginInv`). The core of the argument: `luna_fini_p11` runs either under
a mutex that excludes all contexts (parent mode) or when the activity counter
reads zero, and exact counters turn that into "no context is open"; so contexts
and cached sessions always belong to the current initialization; so handing out
a cached session or a fresh handle keeps sessions exclusive. That the guards
`g_count_activity > 0` before each decrement never matter is a lemma
(`LeaveCounts`). `SessionsAreKept` goes through the steps for the sessions that nobody
holds. No step adds a session that a call holds to them. Where this code owns
`C_Finalize` they grow only when a recovery starts or ends: finalization leaves none live,
and initialization starts with none and keeps what it opens as login sessions. Where the
application owns it they may also grow at an initialization or a finalization of this
code, and they do: what `session_skip` shows.

**Processes** (`ProcessProofs`). *Connections.* An image has its own connection while a
call is open, because opening finalizes what `pid_c_init` says is another's. A key with
the current count has the current connection: every initialization increases the
count and `pid_c_init` changes only while no library is initialized. The invariant is
about each image by itself and so survives a fork, which copies one.

*Engine* (`EngineFollows`). The references are the number of live provider contexts, all
parts are there from the first, and no library is left after the last, whatever step of
a load failed.

*Forks* (`ConnectionsAreNotCut`). A process that finalizes an inherited connection could
cut off the process that still uses it. `Counted`: a process *d* forks below the root
counts at most *d* bound processes and takes itself for a child only beyond
`IntermediateProcesses`. `KeepsByRole`: between calls only such a child has a connection
of its own, or a process in which a command left one. `Moves`: an operation
leaves a process no connection, the one it had, or a newer one. `Bound` joins them: a
copy of another's connection is never newer than the owner's, and if it is the
owner's current one, a command left it and no call runs on it.

*Types* (`ProcessTypesAreKept`), with or without the comparison of identifiers. What has
to be shown is that no counter runs away. A process counts itself at most once, so the
count of intermediate processes is at most its depth (`Numbered`), and a process *d* deep
has *d* others above it (`DepthInv`), so the depth is below the number of processes. The
references are the live contexts, one short while one is loading.

**Key use** (`KeyUseProofs`). Between open and close a thread sees one initialization, so
all the searches under way store handles of the same one (`SearchInv`), handles are only
replaced by younger ones (`AgeInv`), and `magic = OK` is stored after both
(`FoundInv`). Hence a count that matches vouches for both handles, and no handle
used is null. That the *handle already read* may be older is what `key_use_stale`
shows and no invariant can exclude.

*Wrapping key* (`TokenSecretProofs`). A handle is stored before the count and reset
before it, so a count that is current vouches for the handle (`FreshInv`) although four
variables are read and written without a lock. A secret object belongs to the call
that made it, calls have different sessions, and every way to the end of a call leads
through the destruction (`SecretInv`). `SecretsAlwaysArrive` carries both to `PathSpec`.

*References* (`ReferencesAlwaysHold`). `RefGood`: a private buffer with labels is a
hardware key's and names a pair, and the handle beside it is of the pair the labels name,
through copies, exports and imports. Not inductive by itself for KEM keys: a second search
after a re-initialization could bring back the handle of the old pair beside the public
bytes of a peer. `KemGood` closes this: KEM pairs are session objects and never stored, so
once the handles of a key are outdated there is no such pair to be found.

*Random numbers* (`BytesGivenOnce`). The bytes given out are a set with as many members
as were counted; those of a clean cache beyond its offset are not in it; who fills the
cache holds the mutex, and the cache is dirty meanwhile. At a fork the child takes over
the set and the cache, and `shared` notes what parent and child may both give out: what
was given before, and what was unread. Bytes of both outside `shared` are different,
because the token gives each fill once.

**Engine keys** (`EngineKeyProofs`). What `luna_rsa_check_private` decided at the start
of an operation is still true at its end: private members change only while no call
is on the key, because a key object under construction is known to its maker only
(`Alone`, `Decided`). The padding theorem is a case analysis of the plans.

`TokenGetsOwnObject` needs what a handle rests on. `ObjInv`: objects have handles of their
own and a key has one object of a class in a slot. `SessInv`: a session is in one cache or
in one call, so closing one does not take away the objects another call works with.
`ExInv`: a remembered handle is of the key's object if there is one, and an absent key
remembers none. `HandInv`: so is the handle in a call's hand. That new objects get handles
nobody remembers is a counting argument (`Room`, `PairIsNew`): the objects of finitely many
keys never fill the handles the token gives out.

**Operation contexts** (`ContextProofs`). One invariant per kind. `SigInv` and `OpInv`: a
stream that may still be finished is of the digest its context names and has every chunk
fed to it; in particular a change of parameters is refused or starts the stream anew. For
an RSA-PSS key `mgf1Set` is what makes the restrictions inductive (`SigRestricted`): it is set
before the minimum of the key takes effect, so that a digest named later does not bring its
own mask function. `EncInv`: a live encryption context has an RSA key and a padding that
encrypts. `EncInv` and `OpInv` count references: the application's one and one for each
context that holds the key, as `KeyHolders` or as peer; a replaced key gives one up, a copy
takes one. `SignaturesAreVerified` says for any two RSA contexts with equal parameters that
what one makes the other accepts, in the token and in software, and for any two contexts
of an Edwards key when the one accepts what the other makes, which depends on the place:
software hashes instance and context string in both, the token takes the message alone.

**Key objects** (`KeyObjectProofs`). `SInv`: a loader of a directory has given exactly the
wanted names before the place it stands at, in order (`Complete`). `KInv`: the
marker, template or bytes of a private half are those of the place its pair was made in,
and the public half beside it is of that pair, or `joined` has the two, a history of the
public halves set over private ones (`Sound`); so the guess by the bytes is right, and a
validation that computes anything tells halves of two pairs. `OInv`: an OQS key is `Whole`:
what buffers it has hold the parts of one pair, and the pointers lead to them unless a share
came into an object without a public half, in each of the layouts alone, hybrid and composite,
with a classical private part that may be shorter than its room. Decoding and encoding are
shown to give whole keys back by lemmas about concatenation and cuts (`ConcatIs`, `Cuts`),
because buffers are sequences.

*Only model-checked:* the liveness properties (`WriterProgress`, `ReaderProgress`,
`RecoveryEnds`), which are beyond the prover, and the properties of the four runs
that refute a statement. Every invariant and every action property of the other runs is
a theorem.

## 5. Plan

What is left, in order of use:

1. Proofs: an abstract specification of a session pool (at most one call per session) that
   `Session` implements, and of a key store that `StoreLoader` implements.
2. A composition of `Session` and `KeyUse` in place of the two environment actions of
   `KeyUse`, with `KeyUse` as the specification it implements.
3. The session of a store iterator in `StoreLoader`, and two loaders at a time.
4. The key derivations of ECDH (X9.63, X9.42) and the EVP_PKEY methods of the engine.
5. The choice of output type, encryption and PEM of the encoders, and the dispatch of
   the decoders.

## 6. What reading showed and no run states

Modelling met these places. They are outside the models, or the properties leave them
out, as said at the property; none of them contradicts a property above.

* *Session:* `luna_callback_close_session` takes the success of `luna_close_session` for a
  failure (`e_gem.c` 1825), so that one cached session per slot is closed; `C_Finalize`
  closes the others unless the application owns it (`session_skip`). A login that fails once is never tried again (`e_gem.c` 1786); a recovery by
  login loses the handle of the login session before; the purge at an error drops cached
  sessions without closing them (4715); with the parent mode or `DisableMultiThread` a
  second context of one thread waits for its own mutex (4604).
* *Key use:* a search that fails once is never repeated (`lunaCommon.c` 1684); the magic
  value is read twice (1563), and a re-initialization in between meets an assertion;
  session objects of keys go with their session while handle and count stay
  (`lunaPqcKem.c` 116); generation leaves objects in the token when the export of the
  public key fails; verification of a key whose public bytes were replaced uses `hPublic`.
* *Wrapping key:* its object goes with the session that made it, and later unwrapping fails
  until the library is initialized again (`lunaCommon.c` 2712); two first calls can leave
  the object of one key beside another key (2836), which unwrapping detects.
* *Random numbers:* parent and child both give out the bytes that were cached and unread
  at the fork (`lunaCommon.c` 3665; `BytesOnce` allows these and no others); the child may
  inherit a locked mutex.
* *Process:* `luna_provider_init` frees its library context twice when the engine fails to
  start (`lunaProvider.c` 1613); the "post" commands initialize without comparing
  identifiers; `luna_destroy_engine` finalizes without doing so.
* *Engine keys:* keys are always generated in slot 0; EC session objects share label and
  id; identifiers by `CKA_MODULUS`, `CKA_VALUE` and `CKA_EC_POINT` never load; generation
  that fails late leaves token objects.
* *RSA contexts:* refused parameters leave X9.31 padding with a digest that has no
  identifier; the minimum salt length admits two bytes more than fit; one parameter list
  with both digests sets MGF1 to the OAEP digest (`lunaRsaEnc.c` 539); OAEP without an
  explicit MGF1 digest fails in software and gives an empty message in the token; copies
  share `oaep_label`, which both free; the engine ignores the label.
* *Other contexts:* the OQS digest is unlocked after a size query although the comment at
  `oqs_sig.c` 111 says otherwise (1023); token EdDSA ignores instance and context string
  (`lunaEddsaSig.c` 318), so what it signs verifies under the pure instance without a string
  and not in the context that made it, where the comment at 114 has the string "match octet
  by octet for verification to be successful" (`SignaturesVerify` states which verify); copies keep pointers into the original's algorithm identifier;
  an ECX derivation without a peer aborts for a token key.
* *Key management:* the public half alone passes private validation for RSA and EC; an EC
  object that gets another public half keeps its private one (`lunaEcGen.c` 842), and the
  two are valid together if that is a marker (the exception in `GuessAndPair`); an ECX generation context generates
  once in the token; an SM2 key of the token never passes the pairwise check.
* *OQS keys:* two keys without public halves compare equal in `EVP_PKEY_eq`, whatever their
  private halves, although the comment at `oqs_kmgmt.c` 111-127 has private keys "matched
  binary if available in both keys" (`EqualIsSame` says so); a share set in an object with a
  private half only goes where its pointers do not lead (`oqs_kmgmt.c` 552;
  `BothPartsCount` excepts it); a failed generation leaks the key object; the encoded public key of a hybrid
  signature key can be set without its classical part; a composite digest differs from the
  pre-hash of some algorithms; `oqsx_d2i_PUBKEY` does not compare the algorithm.
* *Store loader:* an iterator of the token that finds no private key never tries the
  public one (`lunaCommon.c` 3811) although the comment at `lunaFileStore.c` 1007 says
  so; the keys of an iterator are never freed; a refused reference leaks its key; a
  directory that cannot be read further is never at its end.

Hazards that were considered and dropped: commands before a fork (in `process` now), OQS
digest locking (a divergence of the comment only), and sessions popped and pushed around
a recovery, which `SessionsLive` covers.

## 7. Not modelled

Provider tables, error strings and the pkcs11 headers are data. Configuration is read
before any thread runs; its values are constants here. The engine's random numbers are
one context around one library call. Reading and decrypting the password, and the parser of
the control commands, are text processing. Text output, PEM and the encryption of
private keys belong to the encoders' output side. The s390x branches repeat the others with
another library. The sample programs, tests, scripts and makefiles are outside the
library.
