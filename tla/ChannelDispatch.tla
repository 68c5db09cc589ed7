-------------------------- MODULE ChannelDispatch --------------------------
(***************************************************************************)
(* How the generator numbers messages and channels and builds the dispatch *)
(* of the generated protocol parser, and the lookups the generated C code  *)
(* then answers.                                                           *)
(*                                                                         *)
(*  - ChannelType.resolve, for each channel type in declaration order      *)
(*    (spice_parser.parse resolves every type in order), one step per      *)
(*    member: "server:"/"client:" switch sides, a message gets its id;     *)
(*  - ProtocolType.resolve, one step per channel instantiation;            *)
(*  - write_protocol_parser, one step per instantiation: its channel       *)
(*    parser (write_channel_parser: the id -> message dict, the ranges of  *)
(*    consecutive ids and their function arrays) and the parsers dict;     *)
(*  - write_get_channel_parser, one step per slot of the channels[] table, *)
(*    the text emitted as tokens (entries and #ifdef/#else/#endif);        *)
(*  - Lookup: spice_parse_msg / spice_parse_reply in the compiled C, under *)
(*    the set of @ifdef symbols the build defines.                         *)
(***************************************************************************)
EXTENDS Integers, Sequences, FiniteSets, SequencesExt, TLC

CONSTANTS Decl, Proto, IsServer, IfdefChans, ChanRange, TypeRange, NoId, NoBase, NULL

Side == IF IsServer THEN "server" ELSE "client"
Sides == {"server", "client"}

\* Every ChannelMember object: <<declaring channel type, message name>>
Msgs == UNION {{<<Decl[i].name, Decl[i].members[j].name>> :
                  j \in {k \in DOMAIN Decl[i].members : Decl[i].members[k].kind = "msg"}} :
               i \in DOMAIN Decl}

DeclValue(key) ==
  LET d == Decl[CHOOSE i \in DOMAIN Decl : Decl[i].name = key[1]]
  IN  d.members[CHOOSE k \in DOMAIN d.members :
                  d.members[k].kind = "msg" /\ d.members[k].name = key[2]].value

IndexOfChan(c) == CHOOSE i \in DOMAIN Decl : Decl[i].name = c

\* The @ifdef symbol of a message type (NULL: none)
MsgIfdef(key) ==
  LET d == Decl[IndexOfChan(key[1])]
  IN  d.members[CHOOSE k \in DOMAIN d.members :
                  d.members[k].kind = "msg" /\ d.members[k].name = key[2]].ifdef

\* The symbols a build may define: one per @ifdef channel, and those of
\* @ifdef messages
Syms == IfdefChans \cup ({MsgIfdef(m) : m \in Msgs} \ {NULL})

VARIABLES
  stage,      \* "types", "protocol", "parsers", "table", "run"
  ci, mi,     \* channel type being resolved, its member (0: not begun)
  server,     \* the "server" flag of ChannelType.resolve
  count,      \* server_count and client_count
  value,      \* ChannelMember.value (NoId until assigned)
  msgs,       \* server_messages / client_messages of each channel type
  pi,         \* protocol member being resolved or generated
  pcount,     \* the counter of ProtocolType.resolve
  chanValue,  \* ProtocolMember.value
  maxChannel, \* max_channel of write_protocol_parser
  parsers,    \* the parsers dict: channel id -> channel type
  gen,        \* the generated channel parser of each channel type
  ti,         \* i of the loop of write_get_channel_parser
  chanVar,    \* its variable "channel"
  tbl,        \* the tokens of the channels[] initialiser emitted so far
  mtext,      \* the tokens of the generated marshallers file so far
  mgen,       \* writer.is_generated("marshaller", f): the functions written
  functions,  \* write_protocol_marshaller's dict: f -> @ifdef symbol or TRUE
  defined,    \* the @ifdef symbols the C build defines
  answer      \* the last lookup and its result

vars == <<stage, ci, mi, server, count, value, msgs, pi, pcount, chanValue,
          maxChannel, parsers, gen, ti, chanVar, tbl, mtext, mgen, functions,
          defined, answer>>
resolveVars == <<ci, mi, server, count, value, msgs>>
protoVars == <<pi, pcount, chanValue>>
marshVars == <<mtext, mgen, functions>>
genVars == <<maxChannel, parsers, gen, ti, chanVar, tbl, marshVars>>

Init ==
  /\ stage = "types" /\ ci = 1 /\ mi = 0 /\ server = TRUE
  /\ count = [s \in Sides |-> 1]
  /\ value = [m \in Msgs |-> DeclValue(m)]
  /\ msgs = [c \in {Decl[i].name : i \in DOMAIN Decl} |-> [s \in Sides |-> <<>>]]
  /\ pi = 1 /\ pcount = 1 /\ chanValue = [p \in DOMAIN Proto |-> Proto[p].value]
  /\ maxChannel = 0 /\ parsers = <<>> /\ gen = [c \in DOMAIN msgs |-> NULL]
  /\ ti = 0 /\ chanVar = NULL /\ tbl = <<>>
  /\ mtext = <<>> /\ mgen = {} /\ functions = <<>>
  /\ defined \in SUBSET Syms
  /\ answer = NULL

(***************************************************************************)
(* Resolution (ptypes.py).                                                 *)
(***************************************************************************)

\* Python truthiness of "if m.value:": neither None nor 0
Truthy(v) == v # NoId /\ v # 0

\* "count = m.value + 1" after an explicit id
AfterSame(v) == v
After(v) == v + 1

\* The start of ChannelType.resolve: a derived channel copies its base's
\* message lists; both counters restart at 1
StartChannel ==
  LET d == Decl[ci] IN
  /\ stage = "types" /\ ci \in DOMAIN Decl /\ mi = 0
  /\ msgs' = [msgs EXCEPT ![d.name] = IF d.base = NoBase THEN [s \in Sides |-> <<>>]
                                      ELSE msgs[d.base]]
  /\ count' = [s \in Sides |-> 1]
  /\ server' = TRUE
  /\ mi' = 1
  /\ UNCHANGED <<stage, ci, value, protoVars, genVars, defined, answer>>

\* One iteration of "for m in self.members"
ResolveMember ==
  LET d == Decl[ci]  m == d.members[mi]  key == <<d.name, m.name>>
      s == IF server THEN "server" ELSE "client"
  IN  /\ stage = "types" /\ ci \in DOMAIN Decl /\ mi \in DOMAIN d.members
      /\ mi' = mi + 1
      /\ \/ m.kind = "marker"
            /\ server' = (m.side = "server")
            /\ UNCHANGED <<count, value, msgs>>
         \/ m.kind = "msg" /\ Truthy(value[key])
            /\ count' = [count EXCEPT ![s] = After(value[key])]
            /\ msgs' = [msgs EXCEPT ![d.name][s] = Append(@, key)]
            /\ UNCHANGED <<server, value>>
         \/ m.kind = "msg" /\ ~Truthy(value[key])
            /\ value' = [value EXCEPT ![key] = count[s]]
            /\ count' = [count EXCEPT ![s] = @ + 1]
            /\ msgs' = [msgs EXCEPT ![d.name][s] = Append(@, key)]
            /\ UNCHANGED server
      /\ UNCHANGED <<stage, ci, protoVars, genVars, defined, answer>>

EndChannel ==
  /\ stage = "types" /\ ci \in DOMAIN Decl /\ mi = Len(Decl[ci].members) + 1
  /\ ci' = ci + 1 /\ mi' = 0
  /\ stage' = IF ci = Len(Decl) THEN "protocol" ELSE "types"
  /\ UNCHANGED <<server, count, value, msgs, protoVars, genVars, defined, answer>>

\* One iteration of ProtocolType.resolve
ResolveChannel ==
  LET v == chanValue[pi] IN
  /\ stage = "protocol" /\ pi \in DOMAIN Proto
  /\ \/ Truthy(v) /\ pcount' = After(v) /\ UNCHANGED chanValue
     \/ ~Truthy(v) /\ chanValue' = [chanValue EXCEPT ![pi] = pcount] /\ pcount' = pcount + 1
  /\ pi' = IF pi = Len(Proto) THEN 1 ELSE pi + 1
  /\ stage' = IF pi = Len(Proto) THEN "parsers" ELSE "protocol"
  /\ UNCHANGED <<resolveVars, genVars, defined, answer>>

(***************************************************************************)
(* Generation (demarshal.py).                                              *)
(***************************************************************************)

\* "for m in messages: ids[m.value] = m": a later message with the same id
\* replaces an earlier one
IdsOf(list) ==
  [v \in {value[list[k]] : k \in DOMAIN list} |->
     list[Max({k \in DOMAIN list : value[list[k]] = v})]]

\* "while ids2.has_key(end): end = end + 1"
RECURSIVE RunEnd(_, _)
RunEnd(S, e) == IF e \in S THEN RunEnd(S, e + 1) ELSE e

\* The ranges (start, end) of consecutive ids, smallest first
RECURSIVE Ranges(_)
Ranges(S) ==
  IF S = {} THEN <<>>
  ELSE LET st == Min(S)  en == RunEnd(S, st)
       IN  <<<<st, en>>>> \o Ranges(S \ (st .. en - 1))

\* write_channel_parser: the funcsN[] array of every range and the chain
\* of "message_type >= start && message_type < end" tests
ChannelParser(list) ==
  LET ids == IdsOf(list)  rs == Ranges(DOMAIN ids) IN
  [ranges |-> rs,
   funcs |-> [d \in DOMAIN rs |-> [k \in 1 .. rs[d][2] - rs[d][1] |-> ids[rs[d][1] + k - 1]]]]

\* One iteration of write_protocol_parser
WriteChannelParser ==
  LET c == Proto[pi].chan  v == chanValue[pi] IN
  /\ stage = "parsers" /\ pi \in DOMAIN Proto
  /\ maxChannel' = Max({maxChannel, v})
  /\ parsers' = (v :> c) @@ parsers
  /\ gen' = [gen EXCEPT ![c] = ChannelParser(msgs[c][Side])]
  /\ pi' = IF pi = Len(Proto) THEN 1 ELSE pi + 1
  /\ stage' = IF pi = Len(Proto) THEN "table" ELSE "parsers"
  /\ UNCHANGED <<resolveVars, pcount, chanValue, ti, chanVar, tbl, marshVars, defined, answer>>

Entry(c) == [t |-> "entry", chan |-> c]
IfdefTok(c) == [t |-> "if", sym |-> c]
ElseTok == [t |-> "else"]
EndifTok == [t |-> "endif"]

\* The text of slot i: "#ifdef" before the entry of an @ifdef channel and,
\* whenever the variable channel (ch, set by this or an earlier slot) has
\* @ifdef, "#else { NULL, 0 } #endif" after it
SlotTokensNoEndif(i, ch) ==
  (IF i \in DOMAIN parsers /\ parsers[i] \in IfdefChans THEN <<IfdefTok(parsers[i])>> ELSE <<>>)
    \o <<Entry(IF i \in DOMAIN parsers THEN parsers[i] ELSE NULL)>>
    \o (IF ch # NULL /\ ch \in IfdefChans THEN <<ElseTok, Entry(NULL)>> ELSE <<>>)
SlotTokens(i, ch) ==
  (IF i \in DOMAIN parsers /\ parsers[i] \in IfdefChans THEN <<IfdefTok(parsers[i])>> ELSE <<>>)
    \o <<Entry(IF i \in DOMAIN parsers THEN parsers[i] ELSE NULL)>>
    \o (IF ch # NULL /\ ch \in IfdefChans THEN <<ElseTok, Entry(NULL), EndifTok>> ELSE <<>>)

\* "for i in range(0, max_channel + 1)"
SlotsLeftInclusive(i) == i <= maxChannel + 1
SlotsLeft(i) == i <= maxChannel

\* One iteration of the loop of write_get_channel_parser
WriteTableSlot ==
  LET ch == IF ti \in DOMAIN parsers THEN parsers[ti] ELSE chanVar IN
  /\ stage = "table" /\ SlotsLeft(ti)
  /\ chanVar' = ch
  /\ tbl' = tbl \o SlotTokens(ti, ch)
  /\ ti' = ti + 1
  /\ UNCHANGED <<stage, resolveVars, protoVars, maxChannel, parsers, gen, marshVars, defined, answer>>

EndTable ==
  /\ stage = "table" /\ ~SlotsLeft(ti)
  /\ stage' = "marshallers"
  /\ UNCHANGED <<resolveVars, protoVars, genVars, defined, answer>>

(***************************************************************************)
(* The marshallers file (marshal.py): write_protocol_marshaller with       *)
(* private marshallers, for the side the flag selects.                     *)
(***************************************************************************)
MarshSide == IF IsServer THEN "client" ELSE "server"

Def(f) == [t |-> "def", f |-> f]
Use(f) == [t |-> "use", f |-> f]

\* write_message_marshaller: the message's #ifdef, then, unless the
\* function (named after the message type) was written already, its
\* definition and the #endif
MessageMarshaller(acc, key) ==
  LET sym == MsgIfdef(key)
      open == IF sym # NULL THEN <<IfdefTok(sym)>> ELSE <<>>
      close == IF sym # NULL THEN <<EndifTok>> ELSE <<>>
  IN  IF key \in acc.gen THEN [acc EXCEPT !.text = @ \o open]
      ELSE [acc EXCEPT !.text = @ \o open \o <<Def(key)>> \o close, !.gen = @ \cup {key}]

\* (mutant: the "elif message.has_attr('ifdef')" branch dropped)
FunctionSymNoMsg(fs, c, key) ==
  IF c \in IfdefChans /\ key \notin DOMAIN fs THEN c ELSE NULL

\* The value functions[f] gets after f is written from channel c: the
\* channel's symbol or the message's if f is new, else True (NULL here)
FunctionSym(fs, c, key) ==
  CASE c \in IfdefChans /\ key \notin DOMAIN fs            -> c
    [] MsgIfdef(key) # NULL /\ key \notin DOMAIN fs         -> MsgIfdef(key)
    [] OTHER                                                -> NULL

\* One channel of the loop of write_protocol_marshaller: its #ifdef, every
\* message of the side with the functions entry, its #endif
WriteChannelMarshallers ==
  LET c == Proto[pi].chan
      guard(t) == IF c \in IfdefChans THEN t ELSE <<>>
      step(acc, key) == LET r == MessageMarshaller(acc, key)
                        IN  [r EXCEPT !.fs = (key :> FunctionSym(@, c, key)) @@ @]
      r == FoldLeft(step, [text |-> mtext \o guard(<<IfdefTok(c)>>), gen |-> mgen, fs |-> functions],
                    msgs[c][MarshSide])
  IN  /\ stage = "marshallers" /\ pi \in DOMAIN Proto
      /\ mtext' = r.text \o guard(<<EndifTok>>)
      /\ mgen' = r.gen /\ functions' = r.fs
      /\ pi' = IF pi = Len(Proto) THEN 1 ELSE pi + 1
      /\ stage' = IF pi = Len(Proto) THEN "mtable" ELSE "marshallers"
      /\ UNCHANGED <<resolveVars, pcount, chanValue, maxChannel, parsers, gen, ti, chanVar, tbl, defined, answer>>

\* spice_message_marshallers_get: "marshallers.x = f" for every f (in
\* sorted order), inside #ifdef of its symbol unless it is True
WriteMarshallerTable ==
  LET assign(t, f) == t \o IF functions[f] = NULL THEN <<Use(f)>>
                            ELSE <<IfdefTok(functions[f]), Use(f), EndifTok>>
  IN  /\ stage = "mtable"
      /\ mtext' = FoldLeft(assign, mtext, SetToSeq(DOMAIN functions))
      /\ stage' = "run"
      /\ UNCHANGED <<resolveVars, protoVars, maxChannel, parsers, gen, ti, chanVar, tbl, mgen, functions, defined, answer>>

(***************************************************************************)
(* The compiled C (the preprocessor, then the generated lookups).          *)
(***************************************************************************)

\* The preprocessor over the emitted tokens under the symbols "defined":
\* the entries it keeps, and ok = FALSE for an #else or #endif without an
\* open #if, a second #else, or an #if never closed
RECURSIVE PP(_, _, _, _)
PP(t, k, stack, kept) ==
  IF k > Len(t) THEN [ok |-> stack = <<>>, entries |-> kept]
  ELSE LET tok == t[k]  fail == [ok |-> FALSE, entries |-> kept] IN
  CASE tok.t = "if" ->
         PP(t, k + 1, Append(stack, [on |-> tok.sym \in defined, seenElse |-> FALSE]), kept)
    [] tok.t = "else" ->
         IF stack = <<>> \/ stack[Len(stack)].seenElse THEN fail
         ELSE PP(t, k + 1, [stack EXCEPT ![Len(stack)] = [on |-> ~@.on, seenElse |-> TRUE]], kept)
    [] tok.t = "endif" ->
         IF stack = <<>> THEN fail ELSE PP(t, k + 1, SubSeq(stack, 1, Len(stack) - 1), kept)
    [] OTHER ->
         PP(t, k + 1, stack,
            IF \A j \in DOMAIN stack : stack[j].on THEN Append(kept, tok) ELSE kept)

Preprocessed == PP(tbl, 1, <<>>, <<>>)

\* The build succeeds: the directives balance and channels[] gets exactly
\* the max_channel + 1 initialisers its declared size asks for
Compiles == Preprocessed.ok /\ Len(Preprocessed.entries) = maxChannel + 1

\* spice_get_*_channel_parser: "if (channel < max_channel + 1) return
\* channels[channel].func", else NULL
ChannelFunc(ch) == IF ch < maxChannel + 1 THEN Preprocessed.entries[ch + 1].chan ELSE NULL

\* parse_<channel>_msg: the first range with start <= type < end calls
\* funcsN[type - start], else NULL
MsgFunc(c, mt) ==
  LET rs == gen[c].ranges
      hit == {d \in DOMAIN rs : rs[d][1] <= mt /\ mt < rs[d][2]}
  IN  IF hit = {} THEN NULL ELSE gen[c].funcs[Min(hit)][mt - rs[Min(hit)][1] + 1]

\* spice_parse_msg / spice_parse_reply for a caller's (channel, type)
Lookup ==
  /\ stage = "run" /\ Compiles
  /\ \E ch \in ChanRange, mt \in TypeRange :
       LET c == ChannelFunc(ch) IN
       answer' = [ch |-> ch, mt |-> mt, msg |-> IF c = NULL THEN NULL ELSE MsgFunc(c, mt)]
  /\ UNCHANGED <<stage, resolveVars, protoVars, genVars, defined>>

Next ==
  \/ StartChannel \/ ResolveMember \/ EndChannel
  \/ ResolveChannel \/ WriteChannelParser
  \/ WriteTableSlot \/ EndTable
  \/ WriteChannelMarshallers \/ WriteMarshallerTable
  \/ Lookup

Spec == Init /\ [][Next]_vars

(***************************************************************************)
(* Properties.                                                             *)
(***************************************************************************)

TypeOK ==
  /\ stage \in {"types", "protocol", "parsers", "table", "marshallers", "mtable", "run"}
  /\ ci \in 1 .. Len(Decl) + 1 /\ server \in BOOLEAN
  /\ \A m \in Msgs : value[m] = NoId \/ value[m] \in Nat
  /\ pi \in DOMAIN Proto
  /\ maxChannel \in Nat /\ DOMAIN parsers \subseteq 0 .. maxChannel
  /\ ti \in 0 .. maxChannel + 1
  /\ chanVar \in {NULL} \cup DOMAIN msgs

\* write_get_channel_parser emits a channels[] initialiser that compiles
\* under every choice of @ifdef symbols: each "#else { NULL, 0 }" it writes
\* after a slot follows an "#ifdef" of that same slot, and the table has
\* max_channel + 1 entries
TableCompiles == stage = "run" => Compiles

\* The marshallers file write_protocol_marshaller emits compiles under every
\* choice of @ifdef symbols: its #ifdef/#endif balance, and every function
\* spice_message_marshallers_get assigns is defined in the same build
MarshallersCompile ==
  stage = "run" =>
    LET r == PP(mtext, 1, <<>>, <<>>) IN
    /\ r.ok
    /\ \A k \in DOMAIN r.entries : r.entries[k].t = "use" => Def(r.entries[k].f) \in ToSet(r.entries)

Abs == INSTANCE ChannelCatalog WITH defined <- defined \cap IfdefChans

\* Every answer of the generated spice_parse_msg / spice_parse_reply, after
\* the resolve passes numbered the messages and channels and the generator
\* built the ranges and the channel table, is one the numbering rule of the
\* protocol description allows: the message of that id in a compiled
\* channel of that id, or NULL when there is none
CatalogSpec == Abs!Spec

=============================================================================
