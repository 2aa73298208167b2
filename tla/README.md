# TLA+ models of sonic-netconf-server

This directory holds TLA+ specifications of the NETCONF server in `src/`. It
contains the TLC configurations that model-check them on small instances, and
TLAPS proofs of the lock and session invariants for every instance. `PROJECT.json`
lists the components, runs, mutants, the map from definitions to source lines,
the findings, the hazards and the theorems.

## 1. The system

The server is a Go program. `main.go` starts a gliderlabs SSH server whose
`netconf` subsystem runs `SessionHandler` on one goroutine per connection.

| Part (spec.md) | Code | State | Operations |
|---|---|---|---|
| Session & framing manager | `handler.go` `SessionHandler`, `capabilitesXML`, `readCapabilities`, `SplitAt`, `doRecover` | per session: the scanner buffer, the channel, the SSH context (`auth`, `auth-type`, `uuid`); global: `sessionID`, `read`, `YangModules`, `YangSchemas` | send hello, read client hello, loop: scan a message, `process`, write reply |
| Request router and AAA gate | `handler.go` `process`, `handleRequest`, `withAuth`; the handlers of `subhandlers.go` | the context's authenticator | dispatch on the operation; Authorize, execute, Account |
| Datastore lock | `subhandlers.go` `lockRequestHandler`, `unlockRequestHandler`, `EditRequestHandler` | redis key `CONFIG_LOCK` (value: the context's `uuid`, TTL 15s) | SETNX; GET + compare (+ DEL); EXISTS + GET, then writes |
| Request compiler | `parser.go` `ParseGetRequest`, `ParseEditRequest`, `extract*` | none (pure) | XML to paths and edit units (five passes: delete, remove, merge, replace, create) |
| AAA substrate | `main.go` `authenticate`, `pamAuth.go`, `tacplus/helpers.go`, `lib/security.go` | the TACACS+ connection bound at login | login; server selection by priority with failover |
| Response re-shaping | `subhandlers.go` `innerGetHandler`, `postChecks`, `filterJson`, `reorderKeys` | none (pure) | translib JSON to NETCONF XML |

These parts interact in a fixed order:
- Login binds one authenticator per session, either TACACS+ or PAM. For TACACS+, `CreateClient` walks the server pool in priority order.
- The session loop hands each message to the router.
- The router runs the AAA gate and the handler.
- The lock handlers and edit-config share the one redis key, and that key is the only state shared between sessions.
- The hello path shares `sessionID` and the module cache between all sessions, with no synchronisation.

The behaviours that make this code hard are all concurrent or partial:
- the steps of several sessions interleave around `CONFIG_LOCK`;
- the lock expires in the middle of a protocol;
- goroutines race on package globals;
- a panic is recovered at message scope;
- the session loop continues after a failed hello;
- the AAA principal is released by `close-session` but not by disconnect;
- the heap used for server selection is not stable.

## 2. Modules

### DatastoreLock (`DatastoreLock.tla`, proofs in `DatastoreLockProofs.tla`)

The model covers any number of sessions, given as `CONSTANT Sessions`. Each
session runs the lock, unlock and edit-config handlers, with one step per
redis round trip so that other sessions and the key's expiry can come between
them. The translation is:

- `lockKey` is `NoLock` when `CONFIG_LOCK` is absent, and otherwise the session whose SETNX created it. The key's value carries no identity. SETNX stores `context.Value("uuid")`, and nothing in the server sets `"uuid"`: `authenticate` (`main.go:93-108`) sets only `auth-type` and `auth`. So every session stores the nil uuid, which go-redis writes as `""`. The holder is therefore history that no step reads.
- `LockValueIsUuid(s)` is the comparison `lock != context.Value("uuid")` at `subhandlers.go:503` and `:652`. It compares a string with the nil interface, so it never succeeds, and it is FALSE.
- `pc[s]` records where session s is inside a handler.
- `existsSeen[s]` is the result of the EXISTS call.
- `todo[s]` holds the compiled edit units not yet applied.
- `denied[s]` holds the paths the AAA server refuses.
- `applied[s]` holds the paths written by the current edit.
- `authz` and `acct` are the commands named in Authorize and Account.
- `unlockReply[s]` is the error of s's last request when that request was an unlock.
- The history variable `lockedSinceCheck[s]` records that a SETNX succeeded after s began its lock check.

Actions:
- `LockRequest` covers the target check, Authorize and SETNX.
- `UnlockGet` covers Authorize, GET and the comparison. A missing key gives "No active lock". Otherwise the comparison fails, so the reply is "doesn't own". The DEL and Account after it are dead code, and unlock changes no shared state.
- `EditExists` is the EXISTS call.
- `EditGet` covers GET, the check, the parse and Authorize of every path. Since the uuid never matches, the check refuses every edit whose EXISTS saw the key, including an edit by the holder itself.
- `EditApply` applies one unit: merge goes to translib Create, other tags fail with "unsupported operation", and each unit is accounted.
- `Expire` models the 15s TTL.

Request compilation is abstracted to a set of units, at most one per path. The
units are applied in the pass order of `ParseEditRequest` (`PassRank`).

### Session (`Session.tla`, proofs in `SessionProofs.tla`)

One connection, from the bound authenticator to the end of `SessionHandler`.
The state is as follows:
- `inbox` holds what the client still sends, ending in EOF.
- `buf` holds what the scanner has read but not yet scanned.
- `closed` records `s.Close()`.
- `phase` is one of hello, loop or ended.
- `auth` and `authType` are the context values.
- `tacConn` is the TACACS+ connection.
- `log` has one record per processed message: whether it was authorized, executed and accounted, and how many frames were written.

A message is abstracted to its kind. The malformed kinds are junk, no
message-id, and an `<rpc>` without an operation child. The other kinds are one
per RPC. `Process` is `process` plus `handleRequest`:
- Malformed messages get error replies.
- An `<rpc>` with no child panics on the nil `typeNode`.
- `WithAuth` stands for `withAuth` and for the handlers that follow its pattern (get, edit-config, lock, unlock, copy-config), after a precheck that may fail.
- A nil authenticator panics.
- A get may panic inside `filterJson` or the schema lookup.
- A panic gives two frames: `doRecover`'s reply and the empty string the loop writes afterwards.
- `close-session` under TACACS+ disconnects and sets `auth` to nil (`CloseSession`).

`ReadHello` is the first Scan and `readCapabilities`. On failure it closes the
channel but still enters the loop, as the code does.

### Capabilities (`Capabilities.tla`)

This module models the hello of concurrent sessions. `sessionID += 1` is a load
(`LoadId`) and a store (`StoreId`), and `serverHello.SessionID = sessionID` is
another load (`ReadId`). Then come the `read` check and `readYangModules`.
- `Fetch` resets the schema map and calls GetYanglibInfo, which may fail.
- Each iteration of the module loop takes two steps, because
  `YangModules.Modules = append(YangModules.Modules, mod)` runs with no lock.
  - `AppendModule` writes YangSchemas and loads the slice into `loaded[s]`. A
    concurrent map write may stop the process here.
  - `StoreModule` stores `loaded[s]` extended by the module. If another
    session stored between the two steps, its modules are lost.
- `FinishFetch` sets `read`.
- `Build` dereferences ModuleSetId, which stops the process when it is nil, and
  writes the module list.

Below the load and the store, the two goroutines also share the slice's
backing array: appends of the same length write the same slot, and the last
writer wins. The model leaves this out. A store writes its own module after
the list it loaded, and the shared slot only adds more ways to lose a module.

### Framing (`Framing.tla`)

This module models how a session cuts the channel's bytes into messages:
`SplitAt` and `trimInput`, run by the `bufio.Scanner` that `SessionHandler`
creates. A byte is a one-character string. `Index` is `strings.Index`, and
`TrimByte` is `strings.Trim` with a one-byte cutset.

The client side comes from spec.md, because `RPCDelimiter`, `ChunkDelimiter`
and the chunk header are not defined in the repository. A script is a
sequence of messages. Each message is sent with `]]>]]>` ("legacy"), as one
chunk `\n#<len>\n<body>\n##\n` ("chunked"), or cut short by the channel
closing ("eof"). `Init` puts all the bytes of the script on `stream`.

The state is `stream` (bytes not yet read), `buf` (the scanner's buffer),
`eof`, `tokens` (what `Scan` returned) and `stop`. The actions follow the
order of `Scanner.Scan`:
- `Split`: `SplitAt` found a token; it is returned and `advance` bytes are dropped.
- `EndOfInput`: at EOF with no token, `Scan` returns false.
- `TooLong`: no token and a full buffer of `MaxToken` bytes, which is `ErrTooLong`.
- `Read`: no token, so some bytes (any count that fits) or EOF come from the channel.

`SplitAt` keeps the code's order. It first checks for whitespace-only data,
then looks for `]]>]]>` in the whole buffer, then for `\n##\n`, then for the
EOF remainder. It never reads the chunk size, so a chunked token keeps its
`\n#<len>\n` header. The spec's message (`Content`) is therefore the header
plus the body.

### Compiler (`Compiler.tla`)

This module models `ParseEditRequest` and its five passes as pure operators.
A document is its element tree. Model containers hold inner containers, which
hold list entries, which hold leaves. A list entry or leaf carries its
`operation` attribute, or "none" when it has none. A path is kept as a record
of what the code's string names: the list path, the `[key=value]` predicates,
and the leaf.
- `getOperation`, `ListOp` and `LeafOp` follow the inheritance rule: a leaf inherits from its entry, and an entry defaults to merge.
- `extractAtomicRequestsByOpTag2` handles delete and remove. It walks the entries in document order (`ListsOf`) and resolves each key with `FindKey`. Like the code's `//` path, `FindKey` searches the whole document. Each entry yields a list unit and one unit per non-key leaf. The result is then sorted by key count (`SortByKeys`).
- `extractTransactionalRequestByOpTag2` handles merge and create, and `...Op3` handles replace. They build one config per model container. The replace pass assigns a fresh `mc:mc` map for each inner container, so only the last one is kept.

For up to 12 elements, `sort.Slice` is an insertion sort, which is stable.
The instances hold far fewer units per pass, so `SortByKeys` is a stable
sort. `Init` picks a document and sets `result`
to what `ParseEditRequest` returns for it. The module has no other step.

### ServerSelection (`ServerSelection.tla`) and ServerSelectionAbstract

`ServerSelectionAbstract` is the promise of spec.md: probe in ascending
priority, with ties in discovery order, each server once, and stop at the first
success. It fails with NoConfig or NoServer. `ServerSelection` is
`GetTacacsInfo` followed by `CreateClient`:
- The keys are in KEYS order (`DiscoveryOrders`).
- Priorities are parsed with `Atoi`, where the ignored error gives 0.
- The array is heapified with Go's `container/heap` (`HeapInit`, `SiftDown` are its `Init` and `down`).
- Servers are popped with `HeapPop`, which is `heap.Pop` then `PriorityQueue.Pop`.

`PriorityQueue`'s `Less` and `Swap` live outside `src/` and are modelled from
the spec, as a comparison of `Priority`. The abstract module is instantiated
with the parsed priorities: `Abs == INSTANCE ServerSelectionAbstract WITH ...`,
where `prio` is the parsed priority and the heap array is hidden. Its
`AbsSpec` is checked as the PROPERTY `SelectionRefinesAbstract`.

## 3. Runs

| Run | Checks | Result |
|---|---|---|
| `lock_edit` | `TypeOK`, `LockBypassOnlyByInFlightEdit`, `DeniedRequestWritesNothing` | pass (8,675 states) |
| `lock_unlock_own` | `HolderCanUnlock` | violation: s1 locks, then unlocks, and is told it does not own the lock, because the uuid is never set (`subhandlers.go:652`) |
| `lock_edit_foreign` | `NoWriteUnderForeignLock` | violation: edit-config's EXISTS finds no key; another session then locks, before the GET or after it, and the edit writes under that lock |
| `session_aaa` | `AuthorizeBeforeExecute`, `NoUseAfterRelease`, `SessionTerminates` | pass (9,250 states) |
| `session_hello` | `NoRpcWithoutHello` | violation: after a bad hello the buffered RPCs are still processed |
| `session_reply` | `ExactlyOneReplyPerMessage` | violation: a recovered panic gives two frames |
| `framing_roundtrip` | `TokensMatchFrames`, `TooLongOnlyForOversizedFrame` | pass (1,033 states): any read boundaries give back every message exactly, and ErrTooLong comes only for a frame longer than the buffer |
| `framing_mixed` | `TokensMatchFrames` | violation: a chunked message followed by a base:1.0 message in one read comes back as one token, `\n#1\nx\n##\nx` |
| `selection_refines` | `SelectionRefinesAbstract` | pass (27,180 states): with distinct priorities the heap walk implements the abstract selection |
| `compile_keys` | `AtomicUnitsAddressOwnEntry` | violation: deleting entries e1 and e2 of a list keyed by `name` compiles to two deletes of `name=e1` |
| `caps_cache` | `CacheCompleteWhenRead` | violation: s2 loads ⟨m1⟩, then s1 appends m2 and sets `read`, and s2 stores ⟨m1, m1⟩. m2 is gone, and no session fetches again (`subhandlers.go:96`) |
| `caps_every_module` | `HelloListsEveryModule` | violation: a session whose fetch failed lists the partial list of another session's fetch in progress |

Each property of a passing run has a mutant in `PROJECT.json`. A mutant is a
plausible bug in the mapped code, such as `withAuth` running the operation
without Authorize, `close-session` keeping `auth`, an Account call with its
arguments swapped, or popping the array without the heap fix-up. TLC finds the
property violated under each of them.

These disagreements were seen while modelling but are not runs:
- `lockRequestHandler` authorizes "lock" but accounts "get" (`subhandlers.go:614`).
- Two first sessions both run the fetch loop. Besides losing modules (`caps_cache`), their appends can list a module twice, and two hellos can list the modules in different orders: ⟨m1, m2⟩ and ⟨m2, m1⟩.
- Because the uuid is never set, every edit-config is refused while the lock exists, including an edit by the session that took the lock (`subhandlers.go:503`). The lock therefore only shuts everyone out for 15 seconds.
- `SessionHandler` returns on transport close without disconnecting the TACACS+ authenticator (`handler.go:51`). Only close-session releases it.
- `container/heap` is not stable (`helpers.go:189`). With three servers of equal priority, discovered a, b, c, `CreateClient` probes a, c, b. This breaks the spec's tie-break by discovery order, and `SelectionRefinesAbstract` fails on such a pool. `selection_refines` therefore gives the servers distinct priorities.
- The replace pass keeps only the last inner container of each model container (`parser.go:398`). `extractTransactionalRequestByOpTag3` models this.
- `sessionID += 1` is unsynchronised (`handler.go:58`). Capabilities models it as separate load and store steps, so two sessions can get the same id.
- `SplitAt` ignores the chunk size (`handler.go:231`). A chunked body that holds `\n##\n` is cut there. The framing runs' bodies leave out `#` and `]` so that the round trip run checks everything else.

Bounds, and why they are enough:
- **DatastoreLock:** 2 sessions and 2 paths. The tags are merge plus replace, which stands for every tag the apply loop rejects. Two sessions give every cross-session race on the one key. Two paths make partial application, one unit written before a failure, observable.
- **Session:** every client script of up to three messages over eight kinds. That covers: bad hello followed by two buffered RPCs; close-session followed by a gated RPC; a panic followed by a further message.
- **Capabilities:** 2 sessions and 2 modules. That is the smallest instance in which a lost append leaves a module missing, and in which the counter update is lost.
- **Framing:** bodies of up to two bytes over `x` and `\n`, with one or two messages of one style or a message followed by an EOF piece. `MaxToken` is 8, which is exactly the frame of a two-byte legacy body and of an empty chunked body. So both the exact fit and the overflow by one byte occur. The cost is that `framing_roundtrip` checks chunked messages only with empty bodies: a non-empty chunked frame is longer than 8 bytes. Non-empty chunked bodies come up only in `framing_mixed`, which has a 24-byte buffer. Every read size from 1 up to the free space is tried. The mixed run uses two one-byte messages and a 24-byte buffer, so that both frames fit in one read.
- **Compiler:** one keyed list with one data leaf. A document holds one or two entries (either in one inner container or spread over two), under target running or candidate. Each entry is either deleted or not, and its data leaf either removed or not. That makes 72 documents. Two entries in different positions are the smallest case where `//name` can pick the wrong entry.
- **ServerSelection:** 4 servers with priorities {1,2,3} plus a malformed value. Four is the smallest heap where Pop sifts down past one level.
- **Symmetry:** used over sessions, paths, modules and servers. These are model values that no definition tells apart.

Fairness: only `Session` assumes any, `WF_vars(Next)`. A session goroutine
keeps running while it has buffered input, and SSH delivers what the client
sent. The other modules check safety only. `CHECK_DEADLOCK FALSE` is used
where the code really stops:
- a session that has returned (Session);
- every hello written, or the process stopped (Capabilities);
- `CreateClient` having returned (ServerSelection);
- `Scan` having returned false (Framing).

## 4. Proofs

`DatastoreLockProofs.tla` proves the following for all values of the constants,
under `ConstantsAssumption` and `NoneAssumption`:
- `TypeCorrect`: `Spec => []TypeOK`.
- `IInvariant`: `Spec => []IInv`.
- From these, `LockBypassTheorem` (`[]LockBypassOnlyByInFlightEdit`) and `DeniedRequestTheorem` (`[]DeniedRequestWritesNothing`).

`LockBypassOnlyByInFlightEdit` is not inductive by itself. When a session
moves from `editGet` to `editApply`, something must explain why a foreign lock
is acceptable. The strengthening `CheckPending` supplies this: a session in
`editGet` whose EXISTS saw no key either still sees no key, or a SETNX has
happened since. `NoDenialOutsideCheck` and `NoWriteBeforeCheck` carry
`DeniedRequestWritesNothing` across the same steps.

`IInv` is the conjunction of these three with `TypeOK` and the two properties.
The step lemma `IInvStep` has one case per action. The case for unlock is
immediate, because unlock changes no shared state. The case for `EditGet` uses
the fact that `LockValueIsUuid` is FALSE.

`SessionProofs.tla` proves the following for every set of client scripts,
under `ScriptsAssumption` (every script is a sequence of message kinds):
- `TypeCorrect`: `Spec => []TypeOK`.
- `AuthorizeBeforeExecuteTheorem`: `Spec => []AuthorizeBeforeExecute`.
- `NoUseAfterReleaseTheorem`: `Spec => []NoUseAfterRelease`.

`NoUseAfterRelease` is not inductive by itself. A step appends a record whose
`authorized` field depends on the current `auth`, so the invariant must
connect the log to `auth`. Two conjuncts supply this:
- `ReleaseClearsAuth`: once the log holds an authorized TACACS+ close-session, `auth` is nil.
- `AuthBound`: `auth` is the login authenticator or nil, and nil only under TACACS+.

The lemmas about one message rest on the dispatch in `handleRequest`:
- `HandleCases` lists the arms an AAA-gated RPC can take.
- `HandleGate` says each arm executes only after Authorize.
- `HandleNil` says a nil authenticator panics before Authorize.
- `HandleClose` says an authorized close-session had a live principal.

`ProcessStep` then has one step per conjunct of the invariant. The other
actions leave `auth` and the log unchanged (`OtherSteps`).

The CASE arms of `Handle` are disjoint and end in `OTHER` (the gated handlers
past their precheck), so they mean the same as the code's `switch` whichever
arm is chosen. This form also lets the SMT backend read the definition.

The following are not proved and stay with TLC:
- Liveness (`SessionTerminates`), since the prover does not handle ENABLED and fairness.
- The refinement of server selection. Its heap operators `SiftDown` and `InitFrom` are RECURSIVE, and recursion puts a module beyond the SMT backend. Rewritten as recursive functions, they would still need induction over the heap to say which server a Pop returns, and the provers cannot instantiate the library's induction theorems.
- The Framing invariants `TokensMatchFrames` and `TooLongOnlyForOversizedFrame`. The wire is the `FlattenSeq` of any number of frames, and the chunk header is the recursive function `Decimal`. What they compute for every input needs induction over sequences and numbers, which is out of the provers' reach here. Even the bounds of one `SplitAt` result (its advance lies within the buffer, which `bufio.Scanner` requires) rest on `strings.Index`, modelled as the `Min` of a set of positions. That this `Min` exists is the least-number principle, whose library form (`SmallestNatural`) takes an operator parameter.

## 5. Not modelled

- **Chunk decoding:** bodies split into several chunks. `SplitAt` does not decode chunks at all, so the model sends each message as one chunk.
- **The rest of the compiler:** `ParseGetRequest`, `ParseRPCRequest`, the get path builders and `getInnerText`'s value typing. Also the reordering `sort.Slice` may do on more than 12 units.
- **Response re-shaping, schema files, PAM's SSH dial, copy-config's shell-out and upload, key generation:** these are I/O or text transformation with no concurrent state. Their outcomes appear as free choices where a modelled handler depends on them.

## 6. Plan

The modelled components come from the plan below; the remaining items are in order.
1. DatastoreLock, its proofs (done).
2. Session and Capabilities (done).
3. ServerSelection with its abstract spec (done).
4. Framing: `SplitAt` driven by the scanner, with a round-trip property for both delimiter styles and mixed reads (done).
5. The compiler's key lookup and passes, as pure operators checked against a reference definition (done).
6. Proofs for Session: `AuthorizeBeforeExecute` and `NoUseAfterRelease` from an inductive invariant linking `auth` to the log (done).
7. Capabilities with the unsynchronised append as a load and a store: the module cache loses modules (done, `caps_cache`). A property worth checking on a fixed cache, such as a mutex around the loop, would be that hellos agree.
8. DatastoreLock with the unset uuid: the holder can never unlock (done, `lock_unlock_own`).
9. A passing run on the session ids of `capabilitesXML` (`handler.go:58`).
