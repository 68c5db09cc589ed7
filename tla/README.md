# TLA+ models of OpenSGX's spice protocol code generator

This directory holds TLA+ models of the parts of the repository whose behaviour
a model checker can explore. It also holds the TLC configurations that check
them.

Most of the Python in `src/` is the spice protocol code generator
(`src/qemu/spice-0.12.4/spice-common/`). It reads a protocol description and
emits C code. The emitted demarshallers run on untrusted network buffers, so
that is the behaviour that matters most. The models describe **the C code the
generator emits**, translated from the Python that emits it. Each definition
names the generator function it comes from in `PROJECT.json` ("map").

## Inventory

### Components, their state and their operations

| Component | Source | State | Operations |
|---|---|---|---|
| Type model | `python_modules/ptypes.py` | the type registry (`_types_by_name`, `_types`); per type its attributes, resolved members, sizes (`FixedSize` per minor version) | `register`, `resolve`, `Member.resolve` (attribute propagation), size queries (`is_fixed_nw_size`, `get_fixed_nw_size`, `get_nw_offset`, `is_extra_size`, `contains_extra_size`), `ChannelType.resolve` (message ids), `ProtocolType.resolve` |
| Protocol grammar | `python_modules/spice_parser.py` | none beyond the AST | `parse` builds types, then resolves each one and registers it (lines 157-159) |
| Generated parser | `python_modules/demarshal.py` | in the emitted C: the buffer `message_start..message_end`, `minor`, the per-member `__nw_size`, `__mem_size`, `__extra_size` and `__nelements` variables, `nw_size`, `mem_size`, the arena `data`, the cursors `in` and `end`, and the `PointerInfo ptr_info[]` table | phase 1 validation per member, the fit check, `malloc`, phase 2 parse per member, then draining the pointer table (`write_ptr_info_check`). Per channel there is a dispatch on message id (`write_channel_parser`), and per protocol a dispatch on channel (`write_get_channel_parser`). |
| Generated marshaller | `python_modules/marshal.py` | in the emitted C: the `SpiceMarshaller` stream, `@bytes_count` placeholders, and sub-marshallers for pointers | one marshal step per member (`write_member_marshaller`), switch padding, pointer sub-marshallers, back-patching the byte count |
| Code writer | `python_modules/codegen.py` | output text, indentation, generated-symbol sets | `error_check` (emits `goto error`); the rest is text layout |
| Command line | `spice_codegen.py` | options | parses the file (stopping if parse fails), then writes what the options select: the enums header (`write_enums`, `-e`), the parsers, the marshallers |
| Traffic tester | `Tor/chutney/lib/chutney/Traffic.py` | `TestSuite` counters (`not_done`, `successes`, `failures`); peers by fd (a Listener, Sources with a handshake state, Sinks with `inbuf`); `timeout`; `pending_close` | `TrafficTester.run`: a `select` loop with accept, `on_readable`, `on_writable`, `remove` and the timeout tick |
| Chutney node control | `Tor/chutney/lib/chutney/TorNet.py` | on disk: each node's `pid` file, `lock` file and `torrc`; the processes holding pids | `LocalNodeController` (`getPid`, `isRunning`, `check`, `start`, `stop`, `hup`, `cleanup_lockfile`) under `Network.configure`, `start`, `stop`, `restart`, `status`, `hup` and `verify`, one command-line verb per invocation |
| Tor network templating | `TorNet.py`, `Templating.py` | a chain of `Environ` dictionaries (own `_dict`, `_get_KEY` getters, `_parent`); the include directory's files | `Environ` lookup relative to `my`, `IncluderDict` includes, `Template.format` (substitute until the text stops changing); TorNet formats every torrc through `"$${include:$torrc}"` |
| gdb scripts, `get_inst.py` | `src/gdb`, `src/user` | none | print SGX structures from memory |

### Interactions

- `spice_parser` builds `ptypes` objects. Their size queries decide everything
  `demarshal` and `marshal` emit.
- The emitted parser and the emitted marshaller are two halves of one wire
  format. A message marshalled by one must be accepted by the other
  (round trip).
- Several callers may run the emitted parser on one buffer. The parser gets a
  non-const `uint8_t *` and writes to it (`write_write_primitive`). The spec
  says the buffer is immutable and decoding may be repeated.
- The traffic tester's sources and sinks interact through sockets, and one
  `select` loop schedules all of them.
- `chutney verify` runs the traffic tester through the client nodes' socks
  ports. The other verbs control the tor processes, which live on between
  invocations; each invocation knows them only through their pid files.
- `configure` formats every node's torrc with `Template.format` over the
  node's `Environ` chain. A torrc that fails to format makes it raise after
  it has deleted every pid, lock and torrc file.

### Hard behaviours

- Validation and parse are two passes over the same buffer. They must agree
  on every size, offset and switch case.
- Sizes are computed in `uint32_t`/`size_t` from counts read off the wire, so
  they can overflow.
- Minor-version members change offsets at run time.
- Pointer targets are placed at 4-aligned positions in one arena. The arena is
  sized from the `+ 3` pads.
- The buffer is written back during validation.
- Message ids come from a counter that explicit values move.
- In the select loop a timeout races peers that stay readable at EOF.
- Node control checks a pid and then signals it, while tors exit, crash
  and leave stale pid files, and the system reuses pids.

The full list, with the line where each one bites, is the `hazards` array of
`PROJECT.json`.

## Modules

### `Demarshal.tla`: the emitted message parser (`write_msg_parser`)

**Constants.** The message is a CONSTANT `Msg`: a sequence of member records
that carry the attributes `ptypes.py` gives them (the module header documents
their format). The other constants are:

- `Decoders`: parser invocations that run on the same buffer.
- `Wires`: the buffers a caller may pass.
- `Minors`: the caller's minor versions.
- `UIntMod`: the `uint32_t` modulus.
- `NULL` and `Uninit`: model values.

**Size operators.** These come from `ptypes.py`:

- `SwitchIsFixed`, `IsFixedNw`, `FixedNw` (`FixedSize` at the caller's minor)
- `FixedOffset` and `NwOffset` (`get_nw_offset`)
- `CaseOf` (first match of `get_check`)
- `ArrayNw` (the `uint32_t` product that wraps)

**State.** Each decoder has:

- `pc`: the section of the generated function it is in.
- `idx`: the member or table entry it is at.
- `vnw`, `vmem`, `vcnt` and `vcase`: the phase 1 variables.
- `nwSize` and `memSize`.
- `inp` and `end`: the cursors.
- `ptrs`: the `PointerInfo` table.
- `pcase`: the case phase 2 took.
- `out`: the decoded structure by slot.
- `oob`: whether any read passed `message_end`.

`wire` is shared by all decoders and is mutable.

**Actions.** There is one action per block the generator emits, taken one
member at a time:

| Phase | Action | What it does |
|---|---|---|
| Validation | `SkipMember` | a member with no emitted block |
| | `ValidatePointer` | |
| | `ValidateArray` | includes the write-back of a `@bytes` count |
| | `ValidateSwitch` | |
| | `FitCheck` | `start + nw_size > message_end` |
| | `Alloc` | `malloc`, which may fail |
| Parse | `ParsePrim` | includes the `@minor` zero-fill, `@zero` and `@bytes_count` |
| | `ParsePointer` | `@nocopy` aliases the buffer; any other pointer is queued |
| | `ParseArray` | |
| | `ParseSwitch` | includes the `@fixedsize` `in_save` |
| | `EndParse` | |
| Drain | `DrainPointer` | offset 0 gives NULL; otherwise `SPICE_ALIGN(end, 4)` and parse the target |
| | `Finish` | |

Every `error_check` is `Reject`, which returns NULL. `Terminated` lets all
decoders rest once they have returned.

**Properties.**

| Property | Statement |
|---|---|
| `ArenaBound` | `end` never passes `mem_size` (the code asserts `end <= data + mem_size`). |
| `NoOutOfBoundsRead` | No consume and no pointer-target read passes `message_end`. |
| `NocopyWithinMessage` | A returned `@nocopy` pointer aliases a byte inside the buffer. |
| `ParseMatchesValidation` | Phase 2 consumes exactly the `nw_size` phase 1 certified. |
| `SwitchAgreement` | The two phases take the same case of every variable switch. |
| `OutputDefined` | A returned message has no slot left as `malloc` returned it. |
| `DecodesAgree` | Two decodes of one buffer give the same result. |

### `MCDemarshal.tla`: the messages and buffers checked

Each message is written out in `spice.proto` syntax in a comment. Each buffer
set enumerates every combination of the header values that steer the parser
into its branches, with these choices:

- pointer offsets 0, at the body, inside it, and at or past its end;
- counts 0 to 2;
- discriminants inside and outside the enum;
- byte lengths even and odd;
- bodies of every length up to a bound;
- prefixes that cut the header short.

| Run | Expect | What it shows |
|---|---|---|
| `decode_core` | pass | With pointers to a `uint16` array, a `@nocopy` byte array and a `@nonnull` struct, plus a constant `@end` array, no buffer makes the parser overrun its arena or the buffer. A `@nocopy` pointer never points past the buffer. (1950 states) |
| `decode_minor_switch` | pass | With a `@minor(2)` member at minor 1 and 2, a variable switch with a default case, and a `@fixedsize` switch, the two phases agree on size and case, and every slot is written. (2617 states) |
| `redecode_bytes` | violation | Two decodes of the same buffer disagree. The first decode rewrites the length from 2 bytes to 1 element, so the second decode sees an odd byte length and fails. |
| `count_overflow` | violation | The run shrinks `uint32_t` to 4 bits (`OvfUIntMod = 16`). A count of 8 times the element size 2 wraps to 0, so a 1-byte buffer passes the fit check and phase 2 reads 16 bytes past it. The arena is not the problem: its `mem_size` is the `size_t` product `sizeof(T) * nelements`, which does not wrap. |
| `enum_switch_fixed` | violation | A switch with a case for each enum label is sized as fixed. A value outside the enum consumes nothing, so `in` ends short of `nw_size`. The same trace returns the message with the union unset. That is the `else` branch at `demarshal.py:182`, where the spec says the message must fail. |

Each property of each passing run has a mutant in `PROJECT.json`. A mutant
replaces a mapped definition with a plausible bug, and TLC then finds that
property violated. The mutants are:

- dropping the `v >= message_end` check;
- dropping the `v + nw > message_end` check;
- dropping the alignment `+ 3`;
- ignoring `@minor` when sizing;
- consuming an absent `@minor` member;
- skipping the zero-fill;
- skipping the write-back;
- advancing the member loop by two.

### `ChannelCatalog.tla` and `ChannelDispatch.tla`: message ids and dispatch

`ChannelCatalog` is the abstract specification, written from the spec's
numbering rule. Messages of a channel, after those of its base, and the
channels of a protocol are numbered from 1. An explicit id is used as given
and moves the counter past it. A lookup of (channel id, message type) answers
a message with that id in a compiled channel with that channel id, or NULL
when there is none. Colliding ids are an open question in the spec, so the
abstract lookup may answer any of the colliding messages.

`ChannelDispatch` follows the generator step by step:

| Action | Code |
|---|---|
| `StartChannel` | `ChannelType.resolve` up to the member loop: copy the base's message lists, reset both counters to 1 |
| `ResolveMember` | one iteration of the member loop: a `server:`/`client:` marker, a message with a truthy `m.value` (the counter moves past it) or without one (it takes the counter) |
| `EndChannel` | the end of the loop; the next type in declaration order (`spice_parser.parse`) |
| `ResolveChannel` | one iteration of `ProtocolType.resolve` |
| `WriteChannelParser` | one iteration of `write_protocol_parser`: `max_channel`, the `parsers` dict (a later channel with the same id replaces the earlier one), and `write_channel_parser`'s id dict (`IdsOf`, last wins), ranges (`Ranges`) and `funcsN[]` arrays |
| `WriteTableSlot` | one slot of `write_get_channel_parser`'s `channels[]` initialiser, kept as tokens: the entry, `#ifdef` before an `@ifdef` channel's entry, and `#else { NULL, 0 } #endif` whenever the variable `channel` holds an `@ifdef` channel |
| `EndTable` | the end of that loop |
| `WriteChannelMarshallers` | one channel of `write_protocol_marshaller` (the marshallers file, `--generate-marshallers`): the channel's `#ifdef`, then `write_message_marshaller` for each message of the side being sent, and the `functions` entry each message records (`FunctionSym`) |
| `WriteMarshallerTable` | the private table: one assignment per entry of `functions`, inside an `#ifdef` unless the entry is `True` |
| `Lookup` | the compiled `spice_parse_msg`: the preprocessor (`PP`) over the tokens under the build's defined symbols, `channels[channel]` when `channel < max_channel + 1`, then the first range holding the type |

`defined` (the symbols the C build defines) is chosen in `Init` among the
`@ifdef` symbols of channels and messages (`Syms`), so every build is checked.
The marshallers file is kept as tokens too: `Def(f)` for a function body,
`Use(f)` for an assignment in the table, and the `#ifdef`/`#endif` around
them. `write_message_marshaller` emits a message's `#ifdef` before it returns
for a function already generated (marshal.py:342), so a message that two
channels share opens an `#ifdef` the second time that nothing closes. `Lookup` is enabled only when the table compiles. The
`max_messages` column of the table is left out: `spice_parse_msg` passes NULL
for it.

| Property | Statement |
|---|---|
| `TableCompiles` | Once generated, the `channels[]` initialiser preprocesses (every `#else`/`#endif` has its `#ifdef`) and has `max_channel + 1` entries. |
| `MarshallersCompile` | Once generated, the marshallers file preprocesses under every build, and every function the table assigns is defined in the text that survives the preprocessor. |
| `CatalogSpec` | `ChannelCatalog!Spec`, by `INSTANCE` with `defined` mapped to its channel symbols and `answer` as is: every lookup answers what the numbering rule allows. |

| Run | Expect | What it shows |
|---|---|---|
| `channel_dispatch` | pass | Run under `FrontSpec` of `MCChannelDispatch`: `TypeRegistry` (below) resolves every file of up to three definitions first, and the channel model runs only once that parse has returned. The protocol: a base channel with an `@ifdef(USE_ATTACH)` client message; a derived channel with explicit ids 101 and an implicit 102; an `@ifdef` derived channel with an implicit channel id. Under every build the parser table and the marshallers file compile, the enums header agrees with the ids (`Enums`, below), and every lookup over channels 0..3 and types at and past each range's ends matches the catalogue. (223432 states, about 60 s) |
| `table_gap` | violation | Channel ids 2 (`@ifdef`) and 4 leave slot 3 empty right after the `@ifdef` slot. The stale `channel` makes slot 3 emit `#else`/`#endif` with no `#ifdef`. |

The mutants: the table loop running one slot past `max_channel`, dropping the
`#endif` after an `@ifdef` slot, an explicit id not moving the counter, and
`FunctionSym` ignoring a message's own `@ifdef` (`MarshallersCompile`).

`MarshallersCompile` holds for this protocol, and it is the check that
catches the two marshaller hazards on other inputs. Put the `@ifdef` message in
a channel that a plain channel also lists, after an `@ifdef` channel, or list
an `@ifdef` channel before a plain channel that shares its messages (the
protocol of `table_gap`). Then the file references a function that the build
without the symbol does not define, or it leaves an `#ifdef` open. Both
results are recorded with the hazards in `PROJECT.json`.

### `TypeRegistry.tla`: resolve and register in `spice_parser.parse`

`TypeRegistry` models the loop `for t in types: t.resolve(); t.register()`
of `spice_parser.parse`, together with the process-wide registry of
`ptypes.py`. `prog` is the list the grammar returns, chosen in `TRInit` among
every file of up to `MaxDefs` definitions over the names `Names`. A
definition is an enum, a typedef of a name or of the integer type, or a
one-member struct. The member is a reference, the integer type, or an inline
`struct N { ... }` around either. A pointer or array around a name resolves
its target the same way, so it is folded into the reference.

The resolution is a set of RECURSIVE operators over an accumulator (the
registry and the exception raised so far):

| Operator or action | Code |
|---|---|
| `TypeRefResolve` | `TypeRef.resolve`: an unregistered name raises "Unknown type" |
| `TypeRegister` | `Type.register`: skip a registered object, raise on a name already taken, else append |
| `MemberResolve`, `ContainerResolve` | `Member.resolve` registers its resolved type; `ContainerType.resolve` resolves each member in order |
| `AliasResolve` | `TypeAlias.resolve`: resolves the aliased type and registers nothing |
| `ResolveDef`, `RegisterDef` | the two calls of the loop body |
| `Return`, `Ended` | `return protocol`, or the exception that ends the generator |

| Property | Statement |
|---|---|
| `AcceptedWellFormed` | A parse that returns was given a file that references only types it defines and defines no name twice, and it registered each named type exactly once (spec section 3). |
| `FailsOnlyIllFormed` | The parse raises only for a file that is not well formed. Spec 4.1 says "declare first, define later" is supported. |

`MCChannelDispatch` composes the two modules in `FrontSpec`: the registry's
steps first, then the channel model once the parse has returned. That is
the order `spice_codegen.py` runs them (parse, exit on failure, generate).

| Run | Expect | What it shows |
|---|---|---|
| `channel_dispatch` | pass | Checks `TRTypeOK` and `AcceptedWellFormed` over every file of up to three definitions (above). |
| `forward_ref` | violation | `struct A { A *a; }`, a struct that names itself or a type defined later, is rejected with Unknown type because `resolve` runs before `register`. |

The mutants: `TypeRef.resolve` without its check (`AcceptedWellFormed`), and
the status taken from the accumulator without an exception (`TRTypeOK`).

### `Enums.tla`: enum numbering and the enums header

`Enums` holds pure operators, with C's own enum numbering (`CEnum`) as the
reference:

| Operator | Code |
|---|---|
| `EnumStep`, `EnumTypeNew` | `EnumType.__init__`: an explicit value as given, otherwise the previous value plus one; a value given twice fails the assert |
| `DefineStep`, `CDefine` | `EnumType.c_define`: the values sorted, `= i` only where `i` is not one past the previous line, then `NAME_ENUM_END` |

| Property | Statement |
|---|---|
| `EnumHeaderAgrees` | Once parse has returned, for every enum body of up to three labels: `EnumType` rejects it exactly when two labels get one value (`SpecOrdinal` is the spec's numbering). For a body it accepts, `c_define`'s C enum defines, for each value, that value's label with that value, and the end marker one past the largest. |

`EnumsAgree` is a constant formula that TLC evaluates once.
`EnumHeaderAgrees` guards it with the parse having returned, since the
header is written only after that. The bodies use labels `{L1, L2}` and
values `{0, 1, 3}`, with up to three labels. That covers gaps, a value
below an earlier one, collisions of an implicit value with an explicit one,
and a label given twice. The property is checked in `channel_dispatch`.
Its mutant starts `c_define`'s `current_default` at 1.

`write_channel_enums` and `write_enums` (`spice_codegen.py -e`) are not
modelled. Their counter writes `= v` whenever `v` is not the next value, so
the header they write gives every id as it is, whatever the ids are.

A label given twice passes `EnumType`, and `c_define` then writes two
constants of one name, so the header does not compile. The spec's enum is
an ordinal-to-label map and does not rule this out. This is recorded as a
hazard.

### `Marshal.tla` and `RoundTrip.tla`: the emitted marshaller, and the round trip

`Marshal` describes the C function `write_message_marshaller` emits for one
message. It uses the member records of `Demarshal`; a pointer also carries
`marshall` (`@marshall`). The in-memory message `val` maps each slot to its
value, with slots named as `Demarshal` names them.

| Action | Code |
|---|---|
| `Init` | the body is emitted only if some member has a fixed wire size (marshal.py:363) |
| `MarshalPrim` | `@zero` adds a 0, then, because of the plain `if` at line 313, either the `@bytes_count` placeholder or `msg->member` |
| `MarshalArray` | the elements (`get_array_size` gives the count), then for `bytes(len, n)` the back-patch of `len__ref` with the bytes written |
| `MarshalPointer` | `spice_marshaller_get_ptr_submarshaller`; with `@marshall` the ptr function fills it now (skipped for NULL without `@nonnull`), otherwise it goes to the caller through `*name_out` |
| `MarshalSwitch` | the first case whose check holds; `@fixedsize` pads with `reserve_space` (the whole size if no case holds), whose bytes are left as they were |
| `CallerFill` | the caller fills a handed-out sub-marshaller, in any order |
| `Flush` | the runtime linearises: each pointer becomes its target's offset (0 if empty), and the sub-marshallers follow the message in order |

The `SpiceMarshaller` runtime (`add_uintN`, `set_uintN`, sub-marshallers,
flush) is C that is not in this repository. `Encode`, `Patch`, `CallerFill`
and `Flush` follow the spec's wire contract and are marked `spec_modelled`.

`RoundTrip` composes `Marshal` with `Demarshal` (both by `INSTANCE`). They
share `wire`: the parser starts once the marshaller has flushed.
`RoundTripOK` says the parser never rejects the bytes; it may return NULL only
when `malloc` fails, after the fit check. It also says the decoded slots equal
the marshalled ones.

| Run | Expect | What it shows |
|---|---|---|
| `round_trip` | pass | 48 RT messages. They cover every kind value, `bytes(len, n)` arrays of 0 to 2 `uint16`, a `@marshall` array pointer (NULL with count 0 and 2, or 1 and 2 bytes), a caller-filled `@nonnull` struct pointer, and a `@fixedsize` switch with nondeterministic padding. All of them round-trip; the `bytes(len, n)` case holds only because phase 1 writes the element count back over `len`, and a model without that write-back fails this run. (2128 states) |
| `zero_double_write` | violation | `uint8 pad @zero; uint8 x;` is written as three bytes, so `x` decodes as the junk field. |

The mutant back-patches the element count instead of the byte length.

### `TrafficTester.tla`: chutney's traffic tester (`Traffic.py`)

`TrafficTester.run` is one thread around `select`. Each iteration does four
things: it builds the read set (the listener and every peer) and the write set
(the sources that `want_to_write`); it handles every readable fd; it handles
every writable source that is still registered; and when nothing is ready it
decrements `timeout`. The model keeps this control exactly. Data are byte
counts: `DataLen` data bytes, `SocksLen` SOCKS command bytes and `HandLen`
proxy reply bytes (8 in the code). `bad[s]` marks a source whose buffer differs
from the data the sinks expect. The network is a set of environment actions,
and none of them is fair.

| Action | Code |
|---|---|
| `Select` | `select.select(rset, wset, [], 1)` returning something ready. `Readable` is the listener with a pending stream, sources with reply bytes, at EOF or with a refused connect pending, and sinks with data or at EOF. `Writable` is `want_to_write` plus a completed connect. |
| `Tick` | nothing ready: `self.timeout -= 1; continue` |
| `Exit` | the loop condition fails; `Result` is `all_done() and failure_count() == 0` |
| `Accept` | `Listener.accept` |
| `SinkRead` | `Sink.verify`: `recv` bounded by the bytes still missing (0 at EOF). At full length it gives -1 or 0, and the sink is counted and removed. On a torn-down stream `recv` may raise `ECONNRESET` instead, which propagates out of `run`. |
| `SourceRead` | `Source.on_readable`: the SOCKS reply read in pieces; status 0x5a makes the source `CONNECTED` with the data in `outbuf`, any other status counts a failure; `recv` on a torn-down stream may raise `ECONNRESET`, which propagates out of `run` |
| `SourceWrite` | `Source.on_writable`: connect completion, `send` of `n >= 1` bytes, `ECONNREFUSED` (failure and remove), any other `socket.error` (propagates out of `run`), and removal without a verdict at 0 |
| `EndDispatch` | the end of both `for` loops; writable sources removed by the read loop are skipped |
| `ConnectResult`, `ProxyReply`, `Close` | the network: connect outcome, proxy reply (on success the proxy opens the stream to the listener), a stream torn down |

| Property | Statement |
|---|---|
| `TypeOK` | The TestSuite's counters stay in range: `not_done` never drops below 0 and counts plus verdicts equal the sources, so no test gets two verdicts. |
| `ResultSound` | `run` returns True only if every source's stream reached a sink that verified it. |
| `TerminatesIfNoClose` | If no stream is torn down, `run` returns or raises. |
| `Terminates` | `run` returns or raises (the docstring: "Time out after self.timeout seconds"). |

| Run | Expect | What it shows |
|---|---|---|
| `traffic` | pass | Module `MCChutney`. One direct and one proxied source. The run covers refused connects, failed and split proxy replies, partial sends, corrupt data and torn-down streams. `TypeOK`, `ResultSound` and `TerminatesIfNoClose` (as `VerifyTerminatesIfNoClose`) hold; the same run checks `NodeControl` and `Templating` below. (831260 states, about 90 s) |
| `traffic_eof_hang` | violation | A stream is torn down before all its data arrive (which source it is, and whether the other was refused, varies between traces). The sink at EOF is readable on every `select`, so `Tick` is never enabled and `run` loops forever. |

Mutants: removing nothing on a refused send (so the next `select` counts a
second failure) breaks `TypeOK`. Counting a finished write as a success breaks
`ResultSound`. A tick that does not decrement breaks `TerminatesIfNoClose`.

### `NodeControl.tla` and `MCChutney.tla`: chutney's node control (`TorNet.py`)

A chutney command line (`chutney VERB network`) runs one `Network` method
and exits. What persists from one invocation to the next is the file system
and the processes, so the model's state is each node's `pid` file (a pid or
`None`), its `lock` file (the pid of the tor that created and locks it, or
`None`), whether its `torrc` exists, and `owner`: what holds each pid (no
process, the tor of a node, or a `Foreign` process). `verb`, `stage`, `i`,
`round`, `polls`, `target` and `ok` are the running method's control. tor
and the rest of the machine are the environment, with no fairness: a tor
exits cleanly (removing its pid file) or crashes (leaving it and the lock
file), and other programs start on free pids and end.

| Action | Code |
|---|---|
| `Invoke` | `runConfigFile`: the verb the user gave; `restart` is `stop` then `start` |
| `Configure` | `Network.configure`: `rm -rf ./net/nodes/*` (every pid, lock and torrc file), then `_checkConfig`, which formats every torrc and may raise (no torrc written, result `raised`), then the builders, which write every torrc; running tors are left alone. Without the tor binary it always raises: `_createTorrcFile`'s `print(...) % tor` raises `TypeError` before its `sys.exit(0)` |
| `StartNode`, `Launch` | `LocalNodeController.start` for the next node: already running, or `Popen`; the launch fails if tor finds its lock file held or for reasons of its own (a non-zero `returncode`). A missing binary raises `TypeError` (`print(...) % tor_path` under `print_function`), and a failed fork re-raises. Without a torrc, `waitOnLaunch`'s `open` of it raises `IOError`. |
| `StartEnd` | `Network.start`: the list inside `all([...])` has started every node; `restart` returns None |
| `StopCheck`, `Kill` | `if c.isRunning(): c.stop(sig)`. `stop` reads the pid and calls `isRunning` again, returning quietly for a node gone since the first check; its `os.kill(pid, sig)` raises when the process exited after that (ESRCH, uncaught) |
| `StopWait`, `StopPoll`, `StopRoundEnd`, `StopReturn` | the poll loop: when no node is running, `cleanup_lockfile` of every node and return; after `MaxPolls` polls the next round; after the SIGKILL round, return |
| `Status` | `Network.status`: `n_ok == len(self._nodes)` |
| `HupCheck`, `HupEnd` | `Network.hup` and `LocalNodeController.hup`, sharing `Kill` with SIGHUP |
| `TorExit`, `ForeignStart`, `ForeignExit` | the environment |

`Deliver` is what a signal does: SIGKILL ends any process, a tor counts
SIGINTs (it exits later, by `TorExit`) and reloads on SIGHUP, and a foreign
process may die of either.

`MCChutney` puts this beside `TrafficTester` in the `traffic` run.
`command` is `verify` (a behaviour of `TrafficTester`) or `control` (one of
`NodeControl`). The two share no state the model keeps, so a behaviour is
one of either, and the part a behaviour does not run keeps one initial
state.

| Property | Statement |
|---|---|
| `NCTypeOK` | Every variable has its type; in particular stop's polls never exceed `MaxPolls`. |
| `StopEnds` | `stop` returns or raises, even when a tor ignores every SIGINT and nothing else ever moves. |
| `KillAfterTwoInts` | A tor of the network gets SIGKILL only after it had two SIGINTs from chutney. |

Mutants: one poll too many (`range(16)`) breaks `NCTypeOK`. Polling with
no bound until the nodes are down breaks `StopEnds`. SIGKILL from the second
round on breaks `KillAfterTwoInts`.

The run also reaches three behaviours of this code that no passing property
can forbid, because the code does them. They are hazards in `PROJECT.json`:

- `os.kill` raising ESRCH for a tor that exited after its check, which
  aborts `stop` or `hup` with the later nodes never signalled;
- a stale pid file naming a pid some other process now has, which `status`
  counts as running and `stop` signals, SIGKILL included;
- `configure` while nodes run, which orphans them, and lets `start` launch
  a second tor on the same data directory.

### `Templating.tla`: chutney's templates (`Templating.py`)

A text is a sequence of one-character strings over `$`, `{`, `}` and the
identifier characters `IdChars`. Those are the characters the placeholder
syntax tells apart. The key prefix `include:` is written `i:`. The module is
a set of operators with constants for the environment chain; results are
records `Ok(text)`, `KeyErr(key)` or `ValueErr`, the exception the Python
code raises.

| Operator | Code |
|---|---|
| `EnvGetItem` | `Environ._getitem`: own `_dict`, then the `_get_KEY(my)` getter; a `KeyError` inside the getter becomes `KeyError(key)` |
| `Lookup` | `_DictWrapper.lookup`: `_getitem`, and on a `KeyError` the parent with the same `my`, its failure re-raised as `KeyError(key)` |
| `MyGet` | `my[key]`: `lookup(key, my)`; for the `IncluderDict`, include keys first |
| `GetterValue` | a getter such as `TorEnviron._get_nick`: the values it reads from `my`, joined |
| `IncludeGetItem`, `Includer` | `IncluderDict._getitem` over the include directory, and the wrapper `Template.format` builds |
| `IdLen`, `Placeholder`, `Substitute` | `string.Template.substitute` with `_BetterTemplate.idpattern`: `$$`, `$name` (longest identifier), `${name}`, and an invalid `$` raising `ValueError`, scanned left to right so the first error raised wins |
| `Iterate`, `Format` | `Template.format`: substitute until the text stops changing; `ValueError` once `nIterations` exceeds `MAX_ITERATIONS` |
| `TorrcTemplate` | `LocalNodeBuilder._getTorrcTemplate`: `"$${include:$torrc}"` |

`MCChutney` instantiates it as `Env` with the chain TorNet builds:
`Environ` over `DEFAULTS`, `_BASE_ENVIRON`, a template node's `TorEnviron`
(`tag`, `torrc`) and a `getN` child's (`nodenum` from `setNodenum`), with
`_get_nick` on every `TorEnviron`. There is one node per `nodenum` and `tag`
value of `NodeValues`. There is one include directory per torrc text of
`TorrcTexts`, holding it as the file `f`.

| Property | Statement |
|---|---|
| `TorrcCostsTwoPasses` | For every node and torrc text, formatting `"$${include:$torrc}"` gives exactly what iterating over the file's text gives when two of the `MAX_ITERATIONS` passes are already spent: the same text, the same `KeyError`, the same `ValueError`. |

The wrapper relies on the iteration. The first pass turns `$$` into `$` and
`$torrc` into the file name, and only the second includes the file. So the
property fails if the escape is expanded differently, the loop stops after
one pass, or the include misses the file. Mutant: the file name sliced one
character too late in `IncluderDict._getitem`. The property is stated with
the two spent passes because the run reaches files that format on their own
and fail through the wrapper (a chain of two references with
`MAX_ITERATIONS` at 3): the wrapper's two passes count against the limit.

The module leaves a few things unchecked, because no passing property can
state them and the run list has no room for another violation run:

- The docstring says `$$` expands to a single `$`. The iteration
  substitutes again, so a `$` left in the text becomes a placeholder, or
  an invalid one that raises `ValueError`.
- A variable whose value is itself (`a = "$a"`) is returned unexpanded,
  because the text no longer changes.

### Bounds and why they are enough

- **One decoder per run, except `redecode_bytes`.** Invocations share only
  the buffer, and only the `@bytes` write-back modifies it. Two decoders are
  used only where that write-back exists.
- **Buffers of at most 19 bytes.** Every check in the parser compares an
  offset plus a size with `message_end`. The offsets and counts are chosen so
  that each comparison is below, equal to and above the boundary for some
  buffer. Body lengths run over every value from 0 to the bound.
- **`UIntMod`.** TLC's integers cannot hold 2^32. In the passing runs no
  product reaches 2^16, so wrapping at 65536 behaves as wrapping at 2^32
  would. `count_overflow` scales the wrap down to 2^4, with a one-byte count
  up to 8. That stands for a `uint32` count of 2^31 or more.
- **Three channel types and two channels** for `ChannelDispatch`. They cover
  inheritance, explicit and implicit message and channel ids, an `@ifdef`
  channel in both builds, an empty table slot (0), and ids past each range.
  The lookup inputs include each range's first id, its end and beyond.
- **Files of up to three definitions over two names** for `TypeRegistry`.
  Two names allow a reference to another type, to a later one and to itself,
  and a duplicate. Three definitions let a struct reference a typedef that
  references a third type, and let an inline struct collide with a
  top-level name on either side. Nested inline structs are one level deep:
  a deeper one registers by the same `Member.resolve`. `forward_ref` uses two
  definitions, the fewest for a forward reference.
- **Round trip values.** Arrays of 0 to 2 elements reach every count the
  checks compare. Element values 5 and 300 need one and both bytes of a
  `uint16`. Two pad byte values show that the parser ignores padding. One
  decoder and one minor version are used: the generated marshaller takes no
  minor.
- **Two sources, one direct and one proxied**, for `TrafficTester`. Each
  peer of the code is independent apart from the shared loop and counters.
  Two sources are the fewest for which a verdict on one stream can end the
  run early for the other. Two data bytes and two reply bytes allow a partial
  `recv` and `send`. A timeout of 2 gives a tick before and after progress.
- **Two nodes, three pids, two polls per round**, for `NodeControl`. Two
  nodes let one node's exit or ESRCH happen while the loop is at the other.
  Three pids leave room for both tors and a foreign process, so a crashed
  tor's pid can be reused while the other tor runs, and a launch can find no
  free pid. Two polls give a poll that fails and one after it; the code's 15
  polls only repeat the same check.
- **Templates** for `Templating`. Torrc texts are every text of up to three
  characters over `$ { } a b`, plus `$ab` (the getter) and `${i:f}` (the
  file including itself). Node values are six texts: empty, a literal, a
  reference to the other key, a lone `$`, and `}`. These give two-key
  cycles, chains of references, escapes, and invalid and unclosed
  placeholders. `MAX_ITERATIONS` is 3 rather than 32. The loop does the
  same at any limit, and at 3 a chain of two references reaches it.
  Values that grow on each pass are left out, because TLC's evaluation
  stack cannot follow 32 passes of a growing text.
- **Pointer width 4, as in spice.** Struct `sizeof` and the message `sizeof`
  are those of a 64-bit host. Only their sums against the `+ 3` pads matter.

### Fairness

The code generator's modules assume no fairness. The parser is a
straight-line function, so all of its properties are safety properties.
`TrafficTester` assumes weak fairness of `LoopStep`, the loop's own steps.
`run` is a single thread whose `select` waits at most one second, so while it
has not returned it keeps taking steps. The network's actions get no fairness:
a connect may stay pending and a proxy may never answer.
`NodeControl` assumes weak fairness of `Chutney`, the running verb's steps:
chutney is one process whose `time.sleep(1)` returns. The user (`Invoke`),
tor and the other processes get none, so a tor may never exit.
`Terminated` gives the final states a
step, so deadlock checking stays on and still catches a decoder that gets
stuck before it returns.

## Not modelled, and why

**Demarshaller features missing from the messages above.** These are:

- `@chunk`, `@to_ptr`, `@as_ptr` and `ptr_array`;
- image-size and remaining-length arrays;
- nested structs;
- pointers inside pointer targets;
- `@virtual`;
- whole-message `@nocopy`;
- flag-typed (bit-test) switches.

They add more of the same per-member blocks, and several are on the plan.

**Parts of the type model.** The modules leave these out:

- `FlagsType`: the same numbering code as `EnumType`, and a `c_define`
  that writes every value explicitly;
- `FixedSize` arithmetic per minor version;
- attribute propagation onto shared named types.

A typedef of an inline struct (`typedef T struct S {...}`) is left out of
`TypeRegistry`'s files. `TypeAlias.resolve` never registers the inline
struct, so a later reference to `S` fails, and this is recorded as a hazard
in `PROJECT.json`.

**Nested `@minor` sizes.** `Member.get_fixed_nw_size` drops a member's
`@minor` when its type's size is already a `FixedSize`, which happens for a
struct with its own `@minor` member (ptypes.py:558). The message's size
then disagrees with the parser, which skips the whole member. `Demarshal`'s
messages put `@minor` only on primitives, so this is recorded as a hazard
and not checked.

**A NULL pointer's count.** The emitted parser checks the array count of a
pointer target against the buffer even when the offset is 0
(`write_validate_pointer_item`). Spec section 5 says a zero offset decodes
to null. `decode_core` covers the bounds side of this code. The
disagreement is recorded as a hazard.

**Processes of other users.** `isRunning` re-raises any `os.kill(pid, 0)`
error other than ESRCH (TorNet.py:517). A foreign process of another user
on a reused pid gives EPERM, and every verb that checks that node raises.
`NodeControl`'s foreign processes are all taken to answer the signal 0, so
that path is left out.

**Not state machines.** These parts have no behaviour a model checker adds to:

- the protocol grammar;
- the code writer's text layout;
- the command line;
- the node builders' key generation (`tor-gencert`), the option filtering of
  `_createTorrcFile` (a `tor --list-torrc-options` subprocess) and the other
  `TorEnviron` getters (port arithmetic and path joins). `Configure` keeps
  only their effect, every torrc written or the format raising. `Environ.keys`
  and `Template.freevars` are not modelled either: TorNet's `_getFreeVars`
  has no caller;
- the gdb scripts and `get_inst.py`.

## Plan

Most important first.

1. **Done.** `Demarshal`, `ChannelDispatch` refined to `ChannelCatalog`,
   `Marshal` and `RoundTrip`, `TrafficTester`, `TypeRegistry`, the
   marshallers file with its function table, `Enums`, chutney's
   `NodeControl`, and `Templating`.
2. **Size algorithms.** `FixedSize` arithmetic and the size operators, as
   RECURSIVE operators checked against a reference over bounded inputs.
3. **More demarshaller features** from the list above, starting with nested
   structs and pointers inside pointer targets.
