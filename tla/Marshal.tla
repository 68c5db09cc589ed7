------------------------------ MODULE Marshal ------------------------------
(***************************************************************************)
(* The message marshaller that marshal.py generates for one message        *)
(* (write_message_marshaller): one step per member of the message          *)
(* (write_member_marshaller and the write_*_marshaller functions it        *)
(* calls), appending to a SpiceMarshaller stream; then the caller fills    *)
(* the sub-marshallers it was handed for pointers without @marshall; then *)
(* the stream is linearised into the message that goes on the wire.       *)
(*                                                                         *)
(* The message is described as in Demarshal (the same member records); a   *)
(* pointer member also carries marshall (the @marshall attribute).  The    *)
(* in-memory message val maps each slot (as Demarshal names them) to its   *)
(* value: an integer, a sequence of integers for an array, and NULL or     *)
(* [val |-> content] for a pointer.                                        *)
(*                                                                         *)
(* The SpiceMarshaller runtime (add_uintN, reserve_space, sub-marshallers, *)
(* flush) is C outside this repository; its operators follow the spec:     *)
(* little-endian integers, a pointer is the offset of its target from the *)
(* start of the message and 0 for an empty sub-marshaller.                 *)
(***************************************************************************)
EXTENDS Integers, Sequences, SequencesExt

CONSTANTS
  Msg,      \* the members of the message, in declaration order
  Values,   \* the in-memory messages a caller may pass
  PadBytes, \* the byte values reserve_space may leave in the stream
  Junk,     \* values a struct field nothing initialises may hold
  NULL

MIdx == 1 .. Len(Msg)
MIndexOf(nm) == CHOOSE i \in MIdx : Msg[i].name = nm

\* ptypes.py is_fixed_nw_size of a member (Switch.is_fixed_nw_size: equal
\* widths and a default case or a case per label of the enum, or @fixedsize)
MemberFixed(m) ==
  CASE m.kind \in {"prim", "ptr"} -> TRUE
    [] m.kind = "array"           -> m.size.sk = "const"
    [] m.kind = "switch"          ->
         \/ m.fixedsize
         \/ /\ \A a, b \in DOMAIN m.cases : m.cases[a].w = m.cases[b].w
            /\ \/ \E c \in DOMAIN m.cases : m.cases[c].dflt
               \/ Len(m.cases) = Msg[MIndexOf(m.var)].nvals

\* Switch.get_fixed_nw_size: the widest case
SwitchSize(m) == Max({m.cases[c].w : c \in DOMAIN m.cases})

\* SwitchCase.get_check, first match wins along the if / else if chain
MCaseOf(m, v) ==
  LET hits == {c \in DOMAIN m.cases : m.cases[c].dflt \/ v \in m.cases[c].vals}
  IN  IF hits = {} THEN 0 ELSE Min(hits)

\* spice_marshaller_add_uintN: w little-endian bytes
Encode(v, w) == [k \in 1 .. w |-> (v \div (256 ^ (k - 1))) % 256]

\* spice_marshaller_set_uintN: overwrite w bytes at position p
Patch(s, p, w, v) ==
  [k \in DOMAIN s |-> IF k - 1 \in p .. p + w - 1 THEN Encode(v, w)[k - p] ELSE s[k]]

\* The elements of an array, one add_uintN each
Elements(seq, n, elem) == FlattenSeq([k \in 1 .. n |-> Encode(seq[k], elem)])

\* What the ptr function (write_marshal_ptr_function) writes into the
\* sub-marshaller for pointer member m of val; nothing for a NULL pointer
\* without @nonnull ("if (ptr != NULL)")
Target(m, v) ==
  LET t == m.target IN
  IF v[m.name] = NULL /\ ~m.nonnull THEN <<>>
  ELSE IF t.tk = "array" THEN Elements(v[m.name].val, v[t.field], t.elem)
  ELSE FlattenSeq([k \in DOMAIN t.fields |-> Encode(v[m.name].val[k], t.fields[k])])

VARIABLES
  val,   \* the in-memory message passed as msg
  mi,    \* the member being marshalled
  main,  \* the bytes of the marshaller m
  refs,  \* the <member>__ref placeholders of @bytes_count members: name -> position
  subs,  \* the sub-marshallers, in creation order: [at, data, filled, slot]
  mpc,   \* "body", "caller" (the function returned), "flushed"
  wire   \* the linearised message

mvars == <<val, mi, main, refs, subs, mpc, wire>>

\* write_message_marshaller: every *<name>_out = NULL, and a body only
\* "if any(x.is_fixed_nw_size() for x in message.members)"
Init ==
  /\ val \in Values
  /\ mi = 1 /\ main = <<>> /\ refs = <<>> /\ subs = <<>> /\ wire = <<>>
  /\ mpc = IF \E i \in MIdx : MemberFixed(Msg[i]) THEN "body" ELSE "caller"

NextMember == mi' = mi + 1

Body(kind) == mpc = "body" /\ mi \in MIdx /\ Msg[mi].kind = kind

(***************************************************************************)
(* The member steps (write_member_marshaller).                             *)
(***************************************************************************)

\* A primitive: "if member.has_attr('zero'): add 0", then, with no elif,
\* either the @bytes_count placeholder (add 0, its position kept in
\* <name>__ref) or "add(m, msg->name)".  A @zero member has no slot the
\* parser fills; the struct field the marshaller reads holds anything.
MarshalPrim ==
  LET m == Msg[mi]  zero == IF m.zero THEN Encode(0, m.w) ELSE <<>> IN
  /\ Body("prim") /\ NextMember
  /\ \/ m.bcount # ""
        /\ main' = main \o zero \o Encode(0, m.w)
        /\ refs' = (m.name :> Len(main) + Len(zero)) @@ refs
     \/ m.bcount = "" /\ UNCHANGED refs
        /\ \E own \in IF m.zero THEN Junk ELSE {val[m.name]} :
             main' = main \o zero \o Encode(own, m.w)
  /\ UNCHANGED <<val, subs, mpc, wire>>

\* get_array_size: the constant, or the in-memory member holding the count
\* (for bytes(len, n) the member n)
ArrayCount(m) ==
  CASE m.size.sk = "const" -> m.size.n
    [] m.size.sk = "ident" -> val[m.size.field]
    [] m.size.sk = "bytes" -> val[m.size.count]

BackPatch(s, m, n, data) ==
  Patch(s, refs[m.size.nbytes], Msg[MIndexOf(m.size.nbytes)].w, Len(data))

\* write_array_marshaller: the elements, then for bytes(...) the back-patch
MarshalArray ==
  LET m == Msg[mi]  n == ArrayCount(m)
      data == Elements(val[m.name], n, m.elem)
  IN  /\ Body("array") /\ NextMember
      /\ main' = IF m.size.sk = "bytes" THEN BackPatch(main \o data, m, n, data)
                 ELSE main \o data
      /\ UNCHANGED <<val, refs, subs, mpc, wire>>

\* write_pointer_marshaller: spice_marshaller_get_ptr_submarshaller reserves
\* the pointer in m; with @marshall the ptr function fills the
\* sub-marshaller now, otherwise it is handed to the caller in *<name>_out
MarshalPointer ==
  LET m == Msg[mi] IN
  /\ Body("ptr") /\ NextMember
  /\ main' = main \o Encode(0, m.w)
  /\ subs' = Append(subs, [at |-> Len(main), w |-> m.w, slot |-> m.name,
                           data |-> IF m.marshall THEN Target(m, val) ELSE <<>>,
                           filled |-> m.marshall])
  /\ UNCHANGED <<val, refs, mpc, wire>>

\* write_switch_marshaller: the first case whose check holds writes its
\* member; with @fixedsize, reserve_space pads to the switch's size (the
\* whole size when no case holds).  Reserved bytes are left as they are.
MarshalSwitch ==
  LET m == Msg[mi]  c == MCaseOf(m, val[m.var])
      w == IF c = 0 THEN 0 ELSE m.cases[c].w
      pad == IF m.fixedsize THEN SwitchSize(m) - w ELSE 0
  IN  /\ Body("switch") /\ NextMember
      /\ \E p \in [1 .. pad -> PadBytes] :
           main' = main \o (IF c = 0 THEN <<>> ELSE Encode(val[m.name], w)) \o p
      /\ UNCHANGED <<val, refs, subs, mpc, wire>>

EndBody ==
  /\ mpc = "body" /\ mi = Len(Msg) + 1
  /\ mpc' = "caller"
  /\ UNCHANGED <<val, mi, main, refs, subs, wire>>

(***************************************************************************)
(* The caller and the runtime.                                             *)
(***************************************************************************)

\* The caller marshals the target of a pointer it was handed a
\* sub-marshaller for, in any order
CallerFill(k) ==
  /\ mpc = "caller" /\ k \in DOMAIN subs /\ ~subs[k].filled
  /\ subs' = [subs EXCEPT ![k].data = Target(Msg[MIndexOf(subs[k].slot)], val),
                          ![k].filled = TRUE]
  /\ UNCHANGED <<val, mi, main, refs, mpc, wire>>

\* Where sub-marshaller k starts: after m and the sub-marshallers before it
SubStart(k) == Len(main) + MapThenSumSet(LAMBDA j : Len(subs[j].data), 1 .. k - 1)

\* spice_marshaller_flush: each reserved pointer gets its target's offset
\* (0 for an empty sub-marshaller); the sub-marshallers follow m in order
RECURSIVE PatchPointers(_, _)
PatchPointers(s, k) ==
  IF k = 0 THEN s
  ELSE PatchPointers(Patch(s, subs[k].at, subs[k].w,
                           IF subs[k].data = <<>> THEN 0 ELSE SubStart(k)), k - 1)

Flush ==
  /\ mpc = "caller" /\ \A k \in DOMAIN subs : subs[k].filled
  /\ wire' = PatchPointers(main, Len(subs)) \o FlattenSeq([k \in DOMAIN subs |-> subs[k].data])
  /\ mpc' = "flushed"
  /\ UNCHANGED <<val, mi, main, refs, subs>>

MNext ==
  \/ MarshalPrim \/ MarshalArray \/ MarshalPointer \/ MarshalSwitch \/ EndBody
  \/ \E k \in DOMAIN subs : CallerFill(k)
  \/ Flush

=============================================================================
