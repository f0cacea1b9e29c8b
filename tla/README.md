# TLA+ models of libshv's value/message/connection layer

This directory holds TLA+ modules, TLC configurations and this README for the
parts of libshv present in `src/`. `PROJECT.json` lists the components, the runs,
the mutants, the map from each definition to the source lines it models, the
findings and the hazards.

## 1. Inventory

The source tree is an excerpt of 15 files. The excerpt contains the
implementation of some components and only the headers or tests of others.

| Component | Source in `src/` | State it keeps | Operations |
|---|---|---|---|
| AbstractRpcConnection | `libshvchainpack/src/chainpack/abstractrpcconnection.cpp` | the process-wide `static unsigned n` of `next_rqid()`, and `s_defaultRpcTimeout` | `sendNotify`, `sendResponse`, `sendError`, `callMethod`, `callMethodSync`, `callShvMethodSync`, `setDefaultRpcTimeout`. The transport supplies `sendMessage` and `sendMessageSync`. |
| RpcMessage / RpcRequest / RpcSignal / RpcResponse / RpcError | `libshvchainpack/src/chainpack/rpcmessage.h` (header only) | the message's `RpcValue` and its meta data: tags RequestId=8, ShvPath, Method, CallerIds, ProtocolType, RevCallerIds, AccessGrant, TunnelCtl, UserId; keys Params=1, Result, Error | classification (`isRequest`/`isResponse`/`isSignal`), tag accessors, the caller-id stack (`pushCallerId`, `popCallerId`, `peekCallerId`), `makeResponse`, and RpcError validity and codes |
| RpcValue copy-on-write and MetaData | tests only: `libshvchainpack/tests/test_rpcvalue.cpp` | handles that share a reference-counted representation | copying a handle, `set`, `setMetaValue`, `takeMeta`, `refCnt`. The tests fix the reference counts after each step. |
| Decimal and DateTime | tests only | mantissa and exponent; calendar parts | `toInt` saturation, and the round trip between parts and ISO strings |
| ShvTypeInfo, ShvTypeDescr, ShvFieldDescr | `libshvcore/src/utils/shvtypeinfo.{h,cpp}` | maps: type name → type descriptor, device path → device type, node path → property descriptor, extra tags | bitfield get and set, `find_longest_prefix`, the path lookups, `findSystemPath`, descriptor `toRpcValue`/`fromRpcValue`, `applyTypeDescription`, `fromNodesTree` |
| UserLogin | `libshvchainpack/src/chainpack/accessgrant.cpp` | user, password, login type | `toRpcValueMap`, `fromRpcValue`, `loginTypeFromString` (through `str_eq`) |
| DlgLogInspector | `libshvvisu/src/logview/dlgloginspector.cpp` | per-path `ShortTime` accumulators | `downloadLog` (a response callback with a timeout) and `parseLog` (16-bit millisecond counters widened to epoch time) |
| Broker handle and nodes, ACL rules, serial-port mock, histogram example | headers, tests and GUI | none that matters here | declarations, test I/O and GUI only |

**How the components interact.** Application code builds a request, and
`AbstractRpcConnection` stamps it with an id from the process-wide counter. The
transport collaborator sends the request. The transport also matches incoming
responses to blocked synchronous waiters by request id. The application matches
responses to `callMethod` ids in its own dispatch table. On a response, the
connection's code checks `isResponse()`. Brokers push and pop caller ids on the
meta data to route replies back over several hops. Type info, ACL rules and
login data are stored as `RpcValue` maps and converted to and from them.

**What is hard.**
- Interleavings of callers. The id counter is a non-atomic static that every
  connection in the process shares.
- Time-outs racing late answers.
- Answers that are lost, reordered, or are not responses.
- Reference-count sharing between value handles.
- Integer width at boundaries. The id is returned as `int`. Bitfield masks
  shift by the full word width. The log's 16-bit millisecond counters wrap.
- Round trips through `RpcValue` that lose fields.

**What makes each component correct.**
- Connection:
  - Every call gets the answer to its own request and no other.
  - A sync call always returns.
  - A late answer is never delivered.
  - `callMethod` returns the id that was sent.
- Messages:
  - Exactly one of request, response and signal holds for a message.
  - The caller-id stack is LIFO, so a reply retraces the request's hops.
- Values: no handle ever sees another handle's mutation, and the reference
  counts equal the number of sharing handles.
- Type info:
  - Setting a bitfield and reading it back gives the value masked to the field.
  - Lookups return the longest matching path prefix.
  - Descriptor round trips preserve the type and sample type.
- UserLogin: a round trip preserves the login.

## 2. Plan

Status, most important behaviour first:

1. `RpcConnection` (done): the call contract with the id counter, sync and
   async calls, the transport's waiter table and timer, and a peer that
   answers, errs, sends a non-response or drops the request. `sendResponse`
   and `sendError` are not modelled (see section 4).
2. `Bitfield` (done): `bitRange`, `bitfieldValue`, `setBitfieldValue`,
   `field`, `fieldValue` at word width W.
3. `TypeInfo` (done): `fromNodesTree`, `find_longest_prefix`,
   `nodeDescriptionForDevice`, `nodeDescriptionForPath`.
4. `TypeStore` (done): the `ShvTypeInfo` setters, the type descriptor's
   type and sample type with their string forms, `mergeTags`, the version 3
   `toRpcValue`/`fromRpcValue`, `forEachNode`, `typeDescriptionForPath`,
   `extraTags`, and loading a node tree through `fromRpcValue`. `applyTypeDescription` of a
   BitField word, with the enum translation, is in `Bitfield` (done).
5. `UserLogin` (done): `toRpcValueMap`, `fromRpcValue`,
   `loginTypeFromString`, `str_eq`, and the broker's answer
   `UserLoginResult::toRpcValue`.
6. `LogShortTime` (done): the `ShortTime` accumulators of `parseLog`.
   `LogInspector` (done): the constructor's initial state, `downloadLog`
   with its response callback and timeout, and `showInfo`, composed with
   the parse.
7. Caller-id routing and the copy-on-write `RpcValue` were considered and
   left out. Their code (`rpcmessage.cpp`, `rpcvalue.cpp`) is not in `src/`,
   so a model of them would restate the spec rather than check this
   repository (section 4).

New properties go into the existing passing runs where the instance
already exercises what they are about.

## 3. Modules and runs

### RpcConnection (`RpcConnection.tla`, `MC_RpcConnection.tla`)

Each caller is an execution context of the process. Its control point `pc`
follows the code:
- `idle`
- `alloc`: `next_rqid()` is entered
- `inc`: `n` has been loaded
- `wait`: blocked in `sendMessageSync`
- `woken`: `sendMessageSync` has returned

The process-wide counter is `n`, kept `% 2^IdBits`. Its `++n` is split into
`LoadRqId` and the store at the start of `CallMethod` or `CallShvMethodSync`.
Which of these applies depends on `ConcurrentCallers`:
- `TRUE`: the callers are threads and nothing orders the two steps.
- `FALSE`: the callers share one event loop, so no other context runs
  between the two steps.

`FinishSync` is lines 62–67 of `callShvMethodSync`: a reply that is not a
response raises "Invalid response!".

`sendMessageSync`, the transport's receive path and the peer are not in `src/`.
They are modelled from spec §4.5 and §5:
- A table `pending` of blocked waiters, keyed by id.
- A timer action `SyncTimeout` that unregisters the waiter and gives it a
  `MethodCallTimeout` response.
- Dispatch by id to a sync waiter, then to the application's table of
  `callMethod` ids. Anything else is dropped as stale.

Messages are records of the meta tags that matter. A ghost field `call`
names the call each message belongs to. The properties use it and no action
reads it.

| Run | cfg | Expect | What it shows |
|---|---|---|---|
| conn_eventloop | `RpcConnection_eventloop.cfg` | pass | Two callers, two calls each, 4-bit ids, symmetry over callers. Every sync and async call receives the answer to its own request. This holds despite timeouts, lost answers, non-response answers and answers in any order (`SyncCallGetsOwnResponse`, `AsyncCallGetsOwnResponse`). |
| conn_live | `RpcConnection_live.cfg` | pass | One call each. The default timeout may change at any time. Every blocked sync call returns (`SyncCallTerminates`). |
| conn_threads | `RpcConnection_threads.cfg` | violation | Callers on threads: two calls load the same `n` and get the same id. One caller's answer then wakes the other caller's wait. |

**Bounds.** Two callers with two calls each give four ids, so ids stay below
the wrap at 16. That covers all of the following:
- a sync call and an async call outstanding together
- a timeout followed by the same caller's next call while the late answer is
  still in flight, which is the case the waiter cleanup must handle
- answers in any order

In the passing runs the 4-bit width keeps the `int` conversion non-negative.
`callMethod` returning a negative `int` for an id in the upper half of the
counter (after 2^31 calls) is recorded as a hazard; `ToInt` shows it directly.

**Fairness.** Weak fairness is assumed on each caller's own steps and on the
timer of its blocked call. The caller's code runs to completion once
scheduled, and `sendMessageSync` arms a timer for every call. No fairness is
assumed for the peer or for dispatch: an answer may never come.

`SetDefaultRpcTimeout` is always enabled, so TLC never reports a deadlock. The
progress that matters is stated by `SyncCallTerminates`.

### Bitfield (`Bitfield.tla`, `Register.tla`, `MC_Bitfield.tla`)

`Fields` is a BitField descriptor's "fields" list; a field's value is a
list `[b1, b2]` or one bit number. `BitRange` is `ShvFieldDescr::bitRange()`
(an inverted list is narrowed to `b1`), `BitfieldValue` and
`SetBitfieldValue` translate the mask arithmetic of lines 153–178 on a
`W`-bit word. A shift by the full width is undefined in C++; `Shl`/`Shr`
return the set of the two outcomes builds produce (count taken `% W`, or
all bits shifted out). The state is the device's word, the value last
written to each field (ghost) and the field just written. `SetField` is
application code's `word = fld.setBitfieldValue(word, uval)`.

A field may name a type of its own (`Types`, the type map of
`ShvTypeInfo`). `TypeDescr` is `typeDescriptionForName`, `ApplyScalar`
the Enum/Bool/UInt/Int/Invalid cases of `applyTypeDescription` (an enum
value is the name of the first entry whose value equals it, else
`"UNKNOWN_"` with the number), and `ApplyBitField` its BitField case: a map
from each field name to its translated `bitfieldValue`, a later field of
the same name overwriting an earlier one.

`Register.tla` is the abstract specification of what a BitField type
promises: a record of named fields, each showing `Shown(name, v)` for the
value `v` last written to it, starting from `Shown(name, 0)`; a write
changes only its field. Its variable `lastWrite` records the write asked
for, `<<name, v>>`. `Bitfield` instantiates it with the field names,
`ShownAfter` (the value cut to the field width, as the field's type shows
it), `Displayed` (the device word seen through `ApplyBitField`) and
`LastWrite` (the field and value of the last `SetField`), and checks
`RegisterRefinement == Reg!Spec` as a property. Because `lastWrite` is
mapped, every `SetField` step must be the abstract `Write` of the very
field and value it was given. A lost write, or a write that shows some
other valid value (a wrong enum name), is not a stutter or another
`Write`: it violates the property.

| Run | cfg | Expect | What it shows |
|---|---|---|---|
| bits_low | `Bitfield_low.cfg` | pass | A two-bit Enum-typed field (entries 0, 1 and 3, so 2 is unknown), an untyped one-bit field and an inverted `[3,2]` UInt-typed list in a 5-bit word, values 0..5 (wider than the fields). The word seen through `applyTypeDescription` refines `Register` (`RegisterRefinement`): every write changes exactly its field, to its last write cut to its width and translated by its type; and a write changes no bit outside its field (`SetKeepsOtherBits`). |
| bits_top | `Bitfield_top.cfg` | violation | A field `[3,4]` that includes the top bit: `bitfieldValue` shifts by the full width, and with the count taken `% W` the mask is 0, so the field reads 0. |

Five bits are enough: the shift by `W` happens exactly for fields ending
at bit `W-1`, and values up to 5 exceed every two-bit field. There is
nothing to wait for, so deadlock is not checked.

### TypeInfo (`TypeInfo.tla`, `MC_TypeInfo.tla`)

Paths are sequences of segments. A node tree maps node paths to a kind:
untagged, descriptor, descriptor with an unknown tag, or a device type.
`Helper`/`Children` are `fromNodesTree_helper` (children in `std::map`
order), `NodeDescrFromTags` is `ShvLogNodeDescr::fromRpcValue`, and
`FindLongestPrefix`, `NodeDescriptionForDevice`, `NodeDescriptionForPath`
are the lookups. `fromNodesTree` is a constructor, so `Init` picks a tree
and builds the type info from it, and `Next` leaves both unchanged.

| Run | cfg | Expect | What it shows |
|---|---|---|---|
| typeinfo_lookup | `TypeInfo_lookup.cfg` | pass | All trees over six places of depth two with one device type, where devices are not the root and sit below untagged nodes, and devices of one type have the same nodes: every tagged node's path finds that node's own descriptor (`ReadBackNodeDescription`). |
| typeinfo_described | `TypeInfo_described.cfg` | violation | A device below a node with its own descriptor, or a device at the root: lookups of the device's nodes stop at the ancestor's key (line 620 looks up node keys before devices), or find nothing (line 545: `find_longest_prefix` never looks up the empty prefix the root device is stored under). TLC reports the first of these it meets; each alone violates the property. |

The extra tags kept in the node descriptor (line 520) are recorded as a
hazard without a run.

### TypeStore (`TypeStore.tla`, `MC_TypeStore.tla`)

The `ShvTypeInfo` object after construction: its four maps, changed by
`SetTypeDescription`, `SetDevicePath`, `SetNodeDescription` and
`SetExtraTags` (the path-map setters reuse `TypeInfo`'s operators through
`INSTANCE`), `LoadTypesFile` (`fromRpcValue` of a version 3 file of
another origin, whose every type entry is stored as it parses, an
Invalid one included), and `Reload`, which is `fromRpcValue(toRpcValue())` of the
version 3 form. An `RpcValue` is a record of its kind and int or string
payload; a type descriptor keeps the `type` and `sampleType` entries of its
data map and its `tags`. Descriptors come from the `ShvTypeDescr(Type,
SampleType)` constructor or from `ShvLogTypeDescr::fromRpcValue` of file
entries that spell types and sample types in the forms the code accepts
("D", "discrete", "2", "", "x", a missing key, an int, a sample type inside
`tags`). `ForEachNode` is the set of (path, descriptor) pairs
`forEachNode()` calls its callback with. `LoadNodesTree` is
`fromRpcValue` of a value without version 3 meta data, which calls
`fromNodesTree` (`TypeInfo`'s `FromNodesTree` through the instance); the
trees carry no `typeInfo` meta value, so the types map is empty after it.
Node descriptors are records of their tags: the ones application code
builds carry a `typeName`, which `TypeDescriptionForPath`
(`typeDescriptionForPath`) resolves through `m_types`.

| Run | cfg | Expect | What it shows |
|---|---|---|---|
| typestore_reload | `TypeStore_reload.cfg` | pass | Two type names, one device, node paths with and without a device type, and two node trees (device `d` below the root, with an unknown tag, a described root or a described sibling). Type-info files whose type strings do not all parse ("enum" reads as Invalid). A save/reload changes no `Type` or `SampleType` of a name, no node lookup, `typeDescriptionForPath` or `extraTags` of a path, and not the nodes `forEachNode` visits (`ReloadPreservesAnswers`). |

Two hazards of this object are recorded without a property:
- `setTypeDescription` erases a name whose descriptor is Invalid, but
  `fromRpcValue` stores such descriptors (`shvtypeinfo.cpp:727`). A stored
  Invalid descriptor answers `typeDescriptionForName` with the same type
  as a missing name, and nothing in `src/` tells the two apart.
- `forEachNode` disagrees with `nodeDescriptionForPath` for a device at
  the root or below a node key: the two cases `typeinfo_described` shows
  on the lookup side. `toRpcValue` always writes
version 3, so `Reload` takes the version 3 branch of `fromRpcValue`, and
`LoadNodesTree` the other. Deadlock is not
an issue: the setters are always enabled.

### UserLogin (`UserLogin.tla`, `MC_UserLogin.tla`)

Strings whose characters matter (the login type) are tuples of
one-character strings; `StrEq` is `str_eq`, `LoginTypeFromString` tries the
names in the code's order. A libshv client sends `toRpcValueMap()`
(`ClientLogin`), another client sends `user`/`password`/`type` with the
type in any case (`ForeignClientLogin`, from the spec: that client is not in
`src/`), and the broker reads the map with `fromRpcValue()`. The broker then
answers with a `UserLoginResult` (`BrokerAnswersLogin`), whose map
`LoginResultToRpcValue` (`toRpcValue()`) holds `clientId` only for an
accepted password and a positive id, and never the `loginError`. The
run reaches both empty answers, for a rejected login and for an
accepted one without an id. They cannot be told apart; this is recorded
as a hazard (`accessgrant.cpp:111`). No code in `src/` reads the map, so
no property says which reading is right.

| Run | cfg | Expect | What it shows |
|---|---|---|---|
| login_type | `UserLogin_type.cfg` | pass | Twelve spellings (each case, cut short, one character too many, unknown): the broker's login type is the name the string equals case-insensitively, SHA1 when missing, Invalid otherwise (`LoginTypeParsed`, against the reference `NamedType`). The broker's answer is taken for a rejected and an accepted password, with client id 0 and 7. |
| login_roundtrip | `UserLogin_roundtrip.cfg` | violation | A PLAIN login sent with `toRpcValueMap` arrives as SHA1: the writer uses the key `loginType`, the reader `type`. |

### LogShortTime (`LogShortTime.tla`, `MC_LogShortTime.tla`, `LogInspector.tla`, `MC_LogInspector.tla`)

`ParseRow` is one iteration of `parseLog`'s loop: the path is resolved
(directly, or through the `pathsDict` index: `ParseIndexedRow`), a path
with short times advances its `ShortTime` (anchored at the row's timestamp
when `msec_sum == 0`, then `addShortTime` with the `uint16_t` difference),
the Anca hook rows of the "data" path advance a second accumulator, and the
sample is appended. Devices write `counter = (timestamp + offset) mod
2^ShortBits`; ghost variables keep each path's first, previous and last
sample.

`LogInspector` composes this parse (as `Parse == INSTANCE LogShortTime`)
with `downloadLog`. `DownloadLog` takes the next request id, shows
"Downloading", starts an `RpcResponseCallBack` for the id and sends the
request. The peer answers a request with a result or an error, or drops
it (`PeerAnswer`, `PeerDrop`). `ReceiveResponse` hands an answer to the
callback of its id if that callback still waits and discards it
otherwise; `TimeOut` runs the callback with an invalid response. Either
ends the callback object. `Init` is the dialog as its constructor leaves
it: the info label hidden and an empty graph model. `ShowInfo` is
`showInfo()`: an empty message hides the label; text and colour are left
out. `CallBack` is the lambda: an error label, a
timeout label, or, for a result, `showInfo()` and the start of
`parseLog` (`ParseStart`: new accumulators, an empty graph), whose rows
`ParseRow` then reads until `EndParse`. Everything runs on the GUI
thread's event loop, so nothing else happens while the rows are read
(`Idle`). `RpcResponseCallBack` is not in `src/`. It is modelled from
the spec's contract for calls with a timeout: the callback runs once, and
a response after the timeout is discarded.

Two overlapping downloads can leave the graph with the older log
(hazard at `dlgloginspector.cpp:158`). The model reaches this state, but
nothing says which answer should win, so no property states it.

| Run | cfg | Expect | What it shows |
|---|---|---|---|
| log_relative | `LogInspector_relative.cfg` | pass | Two overlapping downloads, each answered with a result or an error, dropped or timed out, in any order; each parsed log has a 3-bit counter and up to three rows with gaps 1, 5 and 9. Samples less than a period apart are spaced as their timestamps across the wrap (`RelativeTimesPreserved`), the graph holds only a result that arrived before its request's timeout (`ShownLogIsLiveResult`), and under `FairSpec` the info label always leaves "Downloading ..." (`DownloadSettles`), also when the peer drops the request. |
| log_first | `LogShortTime_first.cfg` | violation | The first sample of a path with short times lands at its timestamp plus the raw counter (line 221: `last_msec` is still 0). |

Three bits give a period of 8; gaps of 1, 5 and 9 are below, near and
beyond it, and three rows already cross the wrap (the signed-difference
mutant of `addShortTime` fails at this bound). Two downloads are the least
that overlap; every order of their answers and timeouts is explored. The
log is finite and the downloads are bounded, so the run stops and
deadlock is not checked.

`FairSpec` assumes weak fairness of `ParseRow`, `EndParse` and each
request's `TimeOut`. `parseLog()` is a loop that runs to its end without
waiting. A callback's timer is a Qt timer on the GUI thread's event loop,
which fires it once no handler is running. The peer, the network and the
delivery of answers get no fairness, so `DownloadSettles` rests on the
timeout alone.

### Findings

| Run | Where | What |
|---|---|---|
| conn_threads | `abstractrpcconnection.cpp:34` | `next_rqid()` is a non-atomic `++n` on a static; threads can get the same id and one call receives another's response. |
| bits_top | `shvtypeinfo.cpp:156` | A field ending at bit 63 shifts by 64 (undefined); on x86-64 it always reads 0. |
| typeinfo_described | `shvtypeinfo.cpp:620` | A device below a described node resolves to the ancestor's descriptor. |
| typeinfo_described | `shvtypeinfo.cpp:545` | The nodes of a device at the root are never found. |
| login_roundtrip | `accessgrant.cpp:75` | `toRpcValueMap` writes `loginType`, `fromRpcValue` reads `type`: the type is lost. |
| log_first | `dlgloginspector.cpp:221` | Every sample of a path with short times is shifted by its first raw counter value. |

## 4. Not modelled

- The codecs: no code in `src/`, and the byte grammar is external.
- Broker subscriptions and ACL matching: headers only, and out of the spec's
  scope.
- The GUI.
- The serial-port test scaffolding.
- `applyTypeDescription`'s Decimal, Double, DateTime, String, List and Map
  cases: pure data conversions no property tells apart.
- `forEachNodeDescription`: its walk, `ShvPath::forEachDirAndSubdirs`, is
  not in `src/`, and nothing calls it. `findSystemPath`:
  `m_systemPathsRoots` has no writer in `src/`.
- `AbstractRpcConnection::sendResponse` and `sendError`: nothing in `src/`
  calls them. Which of the peer's requests get answered, and how a peer's
  request id reaches their `unsigned` parameter, is decided by application
  code that is not here.
- The caller-id stack and multi-hop reply routing: implemented in
  `rpcmessage.cpp`, which is not in `src/`.
- `DlgLogInspector`'s settings (`QSettings` I/O), `getLogParams` (the
  request's parameters, which the peer's answers do not depend on in the
  model), and the table and graph widgets.
- `shvtypeinfo.h` is a different revision from `shvtypeinfo.cpp` (its maps
  have other names); the models follow the `.cpp`. `nodeTypeRef`
  substitution and method descriptors are abstracted away.
- `RpcValue`, `Decimal` and `DateTime` themselves: only their tests are in
  `src/`, so there is no code to translate.
