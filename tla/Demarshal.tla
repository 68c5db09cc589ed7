----------------------------- MODULE Demarshal -----------------------------
(***************************************************************************)
(* The message parser that demarshal.py generates for one message          *)
(* (write_msg_parser): phase 1 validates the wire buffer member by member  *)
(* and computes nw_size and mem_size, the arena is allocated once, phase 2 *)
(* parses member by member into the arena and queues every pointer in the  *)
(* PointerInfo table, which is then drained (write_ptr_info_check).        *)
(*                                                                         *)
(* The message is a CONSTANT: Msg is the sequence of its members, each a   *)
(* record whose fields are the attributes ptypes.py gives it.  Several     *)
(* invocations of the parser (Decoders) may run on the same buffer, which  *)
(* the generated code receives as a non-const uint8_t *.                   *)
(*                                                                         *)
(* Member records:                                                         *)
(*  [kind |-> "prim", name, w, minor, zero, bcount, nvals]                 *)
(*      an integer of w bytes; minor > 0 is @minor(minor); zero is @zero;  *)
(*      bcount # "" is @bytes_count(bcount); nvals the labels of its enum  *)
(*  [kind |-> "ptr", name, w, nonnull, nocopy, target]                     *)
(*      target = [tk |-> "array", elem, field] (elem-byte integers, the    *)
(*      count in member field) or [tk |-> "struct", fields, sizeof]        *)
(*  [kind |-> "array", name, elem, size]  an @end array of elem-byte       *)
(*      integers; size = [sk |-> "const", n], [sk |-> "ident", field] or   *)
(*      [sk |-> "bytes", nbytes, count]                                    *)
(*  [kind |-> "switch", name, var, cases, fixedsize]  cases is a sequence  *)
(*      of [vals, dflt, w]: the labels of the case, whether it is default, *)
(*      and the width of its integer member                                *)
(***************************************************************************)
EXTENDS Integers, Sequences, FiniteSets, FiniteSetsExt

CONSTANTS
  Msg,        \* the members of the message, in declaration order
  MsgSizeof,  \* sizeof() of the message's C structure
  Decoders,   \* invocations of the parser running on the same buffer
  Wires,      \* the buffers a caller may pass (sequences of byte values)
  Minors,     \* the minor protocol versions a caller may pass
  UIntMod,    \* modulus of the generated uint32_t arithmetic (2^32)
  NULL,       \* a pointer slot set to NULL
  Uninit      \* arena bytes malloc() returned and nothing has written

Idx == 1 .. Len(Msg)
IndexOf(nm) == CHOOSE i \in Idx : Msg[i].name = nm

ASSUME \A i \in Idx : Msg[i].kind \in {"prim", "ptr", "array", "switch"}
\* write_msg_parser needs mem_size: a message that is a single variable
\* array is generated only with @nocopy, which this module leaves out.
ASSUME Len(Msg) # 1 \/ Msg[1].kind # "array" \/ Msg[1].size.sk = "const"

(***************************************************************************)
(* Sizes, from ptypes.py.                                                  *)
(***************************************************************************)

\* Switch.is_fixed_nw_size: all cases the same size and a default case,
\* or as many cases as the discriminant's enum has labels.
SwitchIsFixed(m) ==
  \/ m.fixedsize
  \/ /\ \A a, b \in DOMAIN m.cases : m.cases[a].w = m.cases[b].w
     /\ \/ \E c \in DOMAIN m.cases : m.cases[c].dflt
        \/ Len(m.cases) = Msg[IndexOf(m.var)].nvals

\* Member.is_fixed_nw_size
IsFixedNw(m) ==
  CASE m.kind \in {"prim", "ptr"} -> TRUE
    [] m.kind = "array"           -> m.size.sk = "const"
    [] m.kind = "switch"          -> SwitchIsFixed(m)

FixedNwNoMinor(m, mi) ==
  CASE m.kind = "prim"   -> m.w
    [] m.kind = "ptr"    -> m.w
    [] m.kind = "array"  -> m.elem * m.size.n
    [] m.kind = "switch" -> Max({m.cases[c].w : c \in DOMAIN m.cases})

\* Member.get_fixed_nw_size, with a @minor member's FixedSize evaluated
\* at the caller's minor version as the emitted "(minor >= N)?w:0" does.
FixedNw(m, mi) ==
  CASE m.kind = "prim"   -> IF m.minor > 0 /\ mi < m.minor THEN 0 ELSE m.w
    [] m.kind = "ptr"    -> m.w
    [] m.kind = "array"  -> m.elem * m.size.n
    [] m.kind = "switch" -> Max({m.cases[c].w : c \in DOMAIN m.cases})

\* Member.is_extra_size (every array here is @end) and contains_extra_size
IsExtraSize(m) == m.kind = "array"
ContainsExtra(m) == m.kind = "ptr"

\* write_validate_container emits a block for a member only if it wants
\* one of its sizes; want_mem_size is TRUE for the messages modelled.
Validated(m) == ~IsFixedNw(m) \/ IsExtraSize(m) \/ ContainsExtra(m)

\* get_fixed_nw_offset: the fixed members before member i
FixedOffset(i, mi) ==
  MapThenSumSet(LAMBDA k : IF IsFixedNw(Msg[k]) THEN FixedNw(Msg[k], mi) ELSE 0,
                1 .. i - 1)

\* get_nw_offset: fixed part plus the m__nw_size of earlier variable members
NwOffset(i, mi, vnw) ==
  FixedOffset(i, mi)
    + MapThenSumSet(LAMBDA k : IF IsFixedNw(Msg[k]) THEN 0 ELSE vnw[k], 1 .. i - 1)

\* "(element_size) * nelements" and "sizeof * nelements": nelements is a
\* uint32_t, so the product wraps; a one-byte element is assigned as is.
ArrayNw(elem, n) == IF elem = 1 THEN n ELSE (elem * n) % UIntMod

\* The first case whose check (SwitchCase.get_check) holds for v, 0 if none
CaseOf(m, v) ==
  LET hits == {c \in DOMAIN m.cases : m.cases[c].dflt \/ v \in m.cases[c].vals}
  IN  IF hits = {} THEN 0 ELSE Min(hits)

(***************************************************************************)
(* Little-endian integers in the buffer (read_uintN / write_uintN).  A     *)
(* byte past the buffer is memory the code should never read; it reads as *)
(* 0 and the read is flagged by NoOutOfBoundsRead.                         *)
(***************************************************************************)
ByteAt(buf, p) == IF p + 1 \in DOMAIN buf THEN buf[p + 1] ELSE 0

RECURSIVE ReadLE(_, _, _)
ReadLE(buf, p, w) == IF w = 0 THEN 0 ELSE ByteAt(buf, p) + 256 * ReadLE(buf, p + 1, w - 1)

WriteLE(buf, p, w, v) ==
  [k \in DOMAIN buf |-> IF k - 1 \in p .. p + w - 1
                          THEN (v \div (256 ^ (k - 1 - p))) % 256
                          ELSE buf[k]]

\* SPICE_ALIGN(end, 4); malloc() returns memory aligned to at least 4
Align4(x) == ((x + 3) \div 4) * 4

\* Slots of the C structure that the parser fills (a @zero member and a
\* @bytes_count member have none; the latter fills its bcount slot).
Slots ==
  {Msg[i].name : i \in {k \in Idx : Msg[k].kind # "prim"}}
    \cup {Msg[i].name : i \in {k \in Idx : Msg[k].kind = "prim" /\ ~Msg[k].zero /\ Msg[k].bcount = ""}}
    \cup {Msg[i].bcount : i \in {k \in Idx : Msg[k].kind = "prim" /\ Msg[k].bcount # ""}}


(***************************************************************************)
(* State.  wire is the caller's buffer, message_start is offset 0 and      *)
(* message_end is Len(wire).  Per decoder: pc is where the generated       *)
(* function is, idx the member (or PointerInfo entry) it is at, vnw, vmem, *)
(* vcnt and vcase the m__nw_size, m__mem_size/m__extra_size and            *)
(* m__nelements variables and the case phase 1 took; nwSize and memSize    *)
(* the totals; inp and end the parse cursors (end relative to data); ptrs  *)
(* the PointerInfo table; pcase the case phase 2 took; out the decoded     *)
(* structure by slot; oob whether a read went past message_end.           *)
(***************************************************************************)
VARIABLES wire, minor, pc, idx, vnw, vmem, vcnt, vcase, nwSize, memSize,
          inp, end, ptrs, pcase, out, oob

vars == <<wire, minor, pc, idx, vnw, vmem, vcnt, vcase, nwSize, memSize,
          inp, end, ptrs, pcase, out, oob>>
valVars == <<vnw, vmem, vcnt, vcase, nwSize, memSize>>
parseVars == <<inp, end, ptrs, pcase, out, oob>>

Zeros == [i \in Idx |-> 0]

Init ==
  /\ wire \in Wires
  /\ minor \in Minors
  /\ pc = [d \in Decoders |-> "validate"]
  /\ idx = [d \in Decoders |-> 1]
  /\ vnw = [d \in Decoders |-> Zeros]
  /\ vmem = [d \in Decoders |-> Zeros]
  /\ vcnt = [d \in Decoders |-> Zeros]
  /\ vcase = [d \in Decoders |-> Zeros]
  /\ nwSize = [d \in Decoders |-> 0]
  /\ memSize = [d \in Decoders |-> 0]
  /\ inp = [d \in Decoders |-> 0]
  /\ end = [d \in Decoders |-> 0]
  /\ ptrs = [d \in Decoders |-> <<>>]
  /\ pcase = [d \in Decoders |-> Zeros]
  /\ out = [d \in Decoders |-> [s \in Slots |-> Uninit]]
  /\ oob = [d \in Decoders |-> FALSE]

(***************************************************************************)
(* Phase 1: validation (write_validate_container and the write_validate_*  *)
(* functions it calls).                                                    *)
(***************************************************************************)

\* write_read_primitive of the member named f: its offset, the bounds
\* check emitted before the read, and the value read
FieldPos(d, f) == NwOffset(IndexOf(f), minor, vnw[d])
FieldFits(d, f) == FieldPos(d, f) + Msg[IndexOf(f)].w <= Len(wire)
FieldVal(d, f) == ReadLE(wire, FieldPos(d, f), Msg[IndexOf(f)].w)

\* "goto error" while data is still NULL: the parser returns NULL
Reject(d) ==
  /\ pc' = [pc EXCEPT ![d] = "failed"]
  /\ UNCHANGED <<wire, minor, idx, valVars, parseVars>>

\* The sizes one member block computed; the next member is validated next
Record(d, r) ==
  LET i == idx[d] IN
  /\ vnw' = [vnw EXCEPT ![d][i] = r.nw]
  /\ vmem' = [vmem EXCEPT ![d][i] = r.mem]
  /\ vcnt' = [vcnt EXCEPT ![d][i] = r.cnt]
  /\ vcase' = [vcase EXCEPT ![d][i] = r.cse]
  /\ idx' = [idx EXCEPT ![d] = i + 1]
  /\ UNCHANGED <<minor, pc, nwSize, memSize, parseVars>>

\* A fixed member with no extra size: write_validate_container emits nothing
SkipMember(d) ==
  /\ pc[d] = "validate" /\ idx[d] \in Idx /\ ~Validated(Msg[idx[d]])
  /\ idx' = [idx EXCEPT ![d] = @ + 1]
  /\ UNCHANGED <<wire, minor, pc, valVars, parseVars>>

\* The extent checks of a pointer target: "message_start + v >= message_end"
\* and "message_start + v + nw > message_end" (start >= message_end and
\* start + nw > message_end in validate_<struct>)
TargetFitsNoEnd(v, nw) == v < Len(wire)
TargetFitsNoStart(v, nw) == v + nw <= Len(wire)
TargetFits(v, nw) == v < Len(wire) /\ v + nw <= Len(wire)

\* extra_size of a pointer: the target's size "+ /* for alignment */ 3"
ExtraSizeUnpadded(mem) == mem
ExtraSize(mem) == mem + 3

\* write_validate_pointer_item with want_extra_size: read the offset, check
\* @nonnull, then validate the target where the offset points
PointerCheck(d, i) ==
  LET m == Msg[i]  t == m.target
      pos == NwOffset(i, minor, vnw[d])
      v == ReadLE(wire, pos, m.w)
      headOk == pos + m.w <= Len(wire) /\ ~(m.nonnull /\ v = 0)
  IN  IF t.tk = "array"
      THEN LET n == FieldVal(d, t.field) IN
           [ok  |-> /\ headOk /\ FieldFits(d, t.field)
                    /\ TargetFits(v, ArrayNw(t.elem, n)),
            nw  |-> 0, cnt |-> n, cse |-> 0,
            \* the target's mem_size is a uint32_t: the size_t product
            \* "sizeof(T) * nelements" is truncated to it
            mem |-> IF m.nocopy THEN 0 ELSE ExtraSize(ArrayNw(t.elem, n))]
      ELSE LET tnw == MapThenSumSet(LAMBDA k : t.fields[k], DOMAIN t.fields) IN
           \* validate_<struct>: offset 0 returns 0, else start < message_end
           \* and the struct fits
           [ok  |-> headOk /\ (v = 0 \/ TargetFits(v, tnw)),
            nw  |-> 0, cnt |-> 0, cse |-> 0,
            mem |-> ExtraSize(IF v = 0 THEN 0 ELSE t.sizeof)]

ValidatePointer(d) ==
  LET r == PointerCheck(d, idx[d]) IN
  /\ pc[d] = "validate" /\ idx[d] \in Idx /\ Msg[idx[d]].kind = "ptr"
  /\ \/ r.ok /\ Record(d, r) /\ UNCHANGED wire
     \/ ~r.ok /\ Reject(d)

\* write_validate_array_item for an @end array, with want_mem_size
ArrayCheck(d, i) ==
  LET m == Msg[i]  s == m.size IN
  CASE s.sk = "const" ->
         [ok |-> TRUE, nw |-> 0, cnt |-> s.n, cse |-> 0, mem |-> m.elem * s.n]
    [] s.sk = "ident" ->
         LET n == FieldVal(d, s.field) IN
         \* "sizeof(T) * nelements" is a size_t product into the size_t
         \* m__mem_size: unlike nw_size, it does not wrap
         [ok |-> FieldFits(d, s.field), nw |-> ArrayNw(m.elem, n), cnt |-> n,
          cse |-> 0, mem |-> m.elem * n]
    [] s.sk = "bytes" ->
         \* the while loop counts elements until start2 reaches start2_end
         LET nb == FieldVal(d, s.nbytes)
             real == (nb + m.elem - 1) \div m.elem
         IN  [ok |-> FieldFits(d, s.nbytes) /\ real * m.elem = nb,
              nw |-> nb, cnt |-> real, cse |-> 0, mem |-> m.elem * real]

ArrayWriteBack(d, i, r) ==
  LET s == Msg[i].size IN
  IF s.sk = "bytes"
  THEN WriteLE(wire, FieldPos(d, s.nbytes), Msg[IndexOf(s.nbytes)].w, r.cnt)
  ELSE wire

ValidateArray(d) ==
  LET r == ArrayCheck(d, idx[d]) IN
  /\ pc[d] = "validate" /\ idx[d] \in Idx /\ Msg[idx[d]].kind = "array"
  /\ \/ r.ok /\ Record(d, r) /\ wire' = ArrayWriteBack(d, idx[d], r)
     \/ ~r.ok /\ Reject(d)

\* write_validate_switch_member: read the discriminant from the buffer and
\* take the size of the first case whose check holds (0 in the else)
SwitchCheck(d, i) ==
  LET m == Msg[i]  c == CaseOf(m, FieldVal(d, m.var)) IN
  [ok |-> FieldFits(d, m.var), nw |-> IF c = 0 THEN 0 ELSE m.cases[c].w,
   cnt |-> 0, cse |-> c, mem |-> 0]

ValidateSwitch(d) ==
  LET r == SwitchCheck(d, idx[d]) IN
  /\ pc[d] = "validate" /\ idx[d] \in Idx /\ Msg[idx[d]].kind = "switch"
  /\ Validated(Msg[idx[d]])
  /\ \/ r.ok /\ Record(d, r) /\ UNCHANGED wire
     \/ ~r.ok /\ Reject(d)

\* Size check before allocation: nw_size = fixed part plus every m__nw_size
\* must fit between message_start and message_end; mem_size is sizeof the
\* structure plus every m__mem_size and m__extra_size.
FitCheck(d) ==
  LET nw == NwOffset(Len(Msg) + 1, minor, vnw[d])
      mem == MsgSizeof + MapThenSumSet(LAMBDA k : vmem[d][k], Idx)
  IN  /\ pc[d] = "validate" /\ idx[d] = Len(Msg) + 1
      /\ \/ nw <= Len(wire) /\ pc' = [pc EXCEPT ![d] = "alloc"]
            /\ nwSize' = [nwSize EXCEPT ![d] = nw]
            /\ memSize' = [memSize EXCEPT ![d] = mem]
            /\ UNCHANGED <<wire, minor, idx, vnw, vmem, vcnt, vcase, parseVars>>
         \/ nw > Len(wire) /\ Reject(d)

\* data = malloc(mem_size); error_check(data == NULL).  in starts at
\* message_start and end just past the message structure.
Alloc(d) ==
  /\ pc[d] = "alloc"
  /\ \/ /\ pc' = [pc EXCEPT ![d] = "parse"]
        /\ idx' = [idx EXCEPT ![d] = 1]
        /\ inp' = [inp EXCEPT ![d] = 0]
        /\ end' = [end EXCEPT ![d] = MsgSizeof]
        /\ out' = [out EXCEPT ![d] = [s \in Slots |-> Uninit]]
        /\ UNCHANGED <<wire, minor, valVars, ptrs, pcase, oob>>
     \/ Reject(d)

(***************************************************************************)
(* Phase 2: parse (write_container_parser and write_member_parser).        *)
(***************************************************************************)

\* A consume_uintN of w bytes at in: whether it reads past message_end
Reads(d, lo, w) == oob' = [oob EXCEPT ![d] = @ \/ (w > 0 /\ lo + w > Len(wire))]

\* The loop over the members (or table entries) moves to the next one
Next1Skip(d) == idx' = [idx EXCEPT ![d] = @ + 2]
Next1(d) == idx' = [idx EXCEPT ![d] = @ + 1]

\* write_container_parser: "if (minor >= N)" around a @minor member
PresentAlways(m, mi) == TRUE
Present(m, mi) == ~(m.minor > 0 /\ mi < m.minor)

\* ... and its else branch: "= 0" for a primitive, nothing for @zero
ZeroFillSkipped(d, m) == out
ZeroFill(d, m) == IF m.zero THEN out ELSE [out EXCEPT ![d][m.name] = 0]

\* A primitive: zero-filled if its @minor is newer than the caller's, else
\* consumed; a @zero member only advances in, a @bytes_count member stores
\* into the member it names.
ParsePrim(d) ==
  LET m == Msg[idx[d]]  v == ReadLE(wire, inp[d], m.w)
      slot == IF m.bcount # "" THEN m.bcount ELSE m.name
  IN  /\ pc[d] = "parse" /\ idx[d] \in Idx /\ m.kind = "prim"
      /\ Next1(d)
      /\ \/ ~Present(m, minor)
            /\ out' = ZeroFill(d, m)
            /\ UNCHANGED <<inp, oob>>
         \/ Present(m, minor)
            /\ inp' = [inp EXCEPT ![d] = @ + m.w]
            /\ Reads(d, inp[d], m.w)
            /\ out' = IF m.zero THEN out ELSE [out EXCEPT ![d][slot] = v]
      /\ UNCHANGED <<wire, minor, pc, valVars, end, ptrs, pcase>>

\* read_array_len: at the top level the nelements phase 1 computed (for
\* bytes(...) the count it wrote back) is reused, not recalculated
ReadArrayLen(d, i) == vcnt[d][i]

\* A pointer: @nocopy stores message_start + offset, any other is queued in
\* the PointerInfo table with its parse function and element count.
ParsePointer(d) ==
  LET i == idx[d]  m == Msg[i]  v == ReadLE(wire, inp[d], m.w) IN
  /\ pc[d] = "parse" /\ i \in Idx /\ m.kind = "ptr"
  /\ Next1(d)
  /\ inp' = [inp EXCEPT ![d] = @ + m.w]
  /\ Reads(d, inp[d], m.w)
  /\ \/ m.nocopy /\ out' = [out EXCEPT ![d][m.name] = [alias |-> v]]
        /\ UNCHANGED ptrs
     \/ ~m.nocopy /\ UNCHANGED out
        /\ ptrs' = [ptrs EXCEPT ![d] = Append(@, [off |-> v, slot |-> m.name,
                                                   n |-> ReadArrayLen(d, i), t |-> m.target])]
  /\ UNCHANGED <<wire, minor, pc, valVars, end, pcase>>

\* The n elements of elem bytes at p
Elems(p, n, elem) == [k \in 1 .. n |-> ReadLE(wire, p + (k - 1) * elem, elem)]

\* An @end array: nelements elements copied from in to end
ParseArray(d) ==
  LET i == idx[d]  m == Msg[i]  n == ReadArrayLen(d, i) IN
  /\ pc[d] = "parse" /\ i \in Idx /\ m.kind = "array"
  /\ Next1(d)
  /\ out' = [out EXCEPT ![d][m.name] = Elems(inp[d], n, m.elem)]
  /\ inp' = [inp EXCEPT ![d] = @ + n * m.elem]
  /\ end' = [end EXCEPT ![d] = @ + n * m.elem]
  /\ Reads(d, inp[d], n * m.elem)
  /\ UNCHANGED <<wire, minor, pc, valVars, ptrs, pcase>>

\* write_switch_parser: the first case whose check holds on the parsed
\* discriminant; with none nothing is consumed; @fixedsize then sets
\* in = in_save + the largest case.
ParseSwitch(d) ==
  LET i == idx[d]  m == Msg[i]  c == CaseOf(m, out[d][m.var])
      w == IF c = 0 THEN 0 ELSE m.cases[c].w
  IN  /\ pc[d] = "parse" /\ i \in Idx /\ m.kind = "switch"
      /\ Next1(d)
      /\ pcase' = [pcase EXCEPT ![d][i] = c]
      /\ out' = IF c = 0 THEN out
                ELSE [out EXCEPT ![d][m.name] = ReadLE(wire, inp[d], w)]
      /\ Reads(d, inp[d], w)
      /\ inp' = [inp EXCEPT ![d] = @ + (IF m.fixedsize THEN FixedNw(m, minor) ELSE w)]
      /\ UNCHANGED <<wire, minor, pc, valVars, end, ptrs>>

EndParse(d) ==
  /\ pc[d] = "parse" /\ idx[d] = Len(Msg) + 1
  /\ pc' = [pc EXCEPT ![d] = "drain"]
  /\ idx' = [idx EXCEPT ![d] = 1]
  /\ UNCHANGED <<wire, minor, valVars, parseVars>>

(***************************************************************************)
(* Draining the PointerInfo table (write_ptr_info_check): offset 0 sets    *)
(* the slot to NULL; otherwise end is aligned to 4, the slot points there  *)
(* and the parse function of the target fills it from message_start+off.   *)
(***************************************************************************)

\* Offset of field k of a struct target, and the bytes it occupies
FieldOff(t, k) == MapThenSumSet(LAMBDA j : t.fields[j], 1 .. k - 1)
TargetNw(t, n) == IF t.tk = "array" THEN n * t.elem ELSE FieldOff(t, Len(t.fields) + 1)
TargetMem(t, n) == IF t.tk = "array" THEN n * t.elem ELSE t.sizeof
TargetContent(t, p, n) ==
  IF t.tk = "array" THEN Elems(p, n, t.elem)
  ELSE [k \in DOMAIN t.fields |-> ReadLE(wire, p + FieldOff(t, k), t.fields[k])]

DrainPointer(d) ==
  LET e == ptrs[d][idx[d]]  a == Align4(end[d]) IN
  /\ pc[d] = "drain" /\ idx[d] \in DOMAIN ptrs[d]
  /\ Next1(d)
  /\ \/ e.off = 0 /\ out' = [out EXCEPT ![d][e.slot] = NULL]
        /\ UNCHANGED <<end, oob>>
     \/ e.off # 0
        /\ out' = [out EXCEPT ![d][e.slot] = [at |-> a, val |-> TargetContent(e.t, e.off, e.n)]]
        /\ end' = [end EXCEPT ![d] = a + TargetMem(e.t, e.n)]
        /\ Reads(d, e.off, TargetNw(e.t, e.n))
  /\ UNCHANGED <<wire, minor, pc, valVars, inp, ptrs, pcase>>

Finish(d) ==
  /\ pc[d] = "drain" /\ idx[d] = Len(ptrs[d]) + 1
  /\ pc' = [pc EXCEPT ![d] = "done"]
  /\ UNCHANGED <<wire, minor, idx, valVars, parseVars>>

\* Every invocation has returned (a message or NULL)
Terminated ==
  /\ \A d \in Decoders : pc[d] \in {"done", "failed"}
  /\ UNCHANGED vars

Next ==
  \/ Terminated
  \/ \E d \in Decoders :
    \/ SkipMember(d) \/ ValidatePointer(d) \/ ValidateArray(d) \/ ValidateSwitch(d)
    \/ FitCheck(d) \/ Alloc(d)
    \/ ParsePrim(d) \/ ParsePointer(d) \/ ParseArray(d) \/ ParseSwitch(d) \/ EndParse(d)
    \/ DrainPointer(d) \/ Finish(d)

Spec == Init /\ [][Next]_vars

(***************************************************************************)
(* Properties.                                                             *)
(***************************************************************************)

TypeOK ==
  /\ wire \in Seq(0 .. 255) /\ minor \in Minors
  /\ pc \in [Decoders -> {"validate", "alloc", "parse", "drain", "done", "failed"}]
  /\ \A d \in Decoders :
       idx[d] \in 1 .. (IF pc[d] = "drain" THEN Len(ptrs[d]) ELSE Len(Msg)) + 1
  /\ vnw \in [Decoders -> [Idx -> Nat]] /\ vmem \in [Decoders -> [Idx -> Nat]]
  /\ vcnt \in [Decoders -> [Idx -> Nat]] /\ vcase \in [Decoders -> [Idx -> Nat]]
  /\ pcase \in [Decoders -> [Idx -> Nat]]
  /\ nwSize \in [Decoders -> Nat] /\ memSize \in [Decoders -> Nat]
  /\ inp \in [Decoders -> Nat] /\ end \in [Decoders -> Nat]
  /\ \A d \in Decoders : DOMAIN out[d] = Slots
  /\ oob \in [Decoders -> BOOLEAN]

Parsing(d) == pc[d] \in {"parse", "drain", "done"}
Parsed(d) == pc[d] \in {"drain", "done"}

\* The arena is never overrun: after every member written at end and every
\* pointer target placed at the 4-aligned end, end stays within the
\* mem_size phase 1 computed (assert(end <= data + mem_size) in
\* write_msg_parser; the "+ 3" of write_validate_pointer_item pays for the
\* alignment of each target).
ArenaBound == \A d \in Decoders : Parsing(d) => end[d] <= memSize[d]

\* No read of phase 2 or of the pointer drain goes past message_end: every
\* consume at in and every read at message_start + offset was covered by a
\* check of phase 1.
NoOutOfBoundsRead == \A d \in Decoders : ~oob[d]

\* Phase 2 consumes exactly the nw_size phase 1 certified to fit
\* (assert(in <= message_end) in write_msg_parser is the weaker form).
ParseMatchesValidation == \A d \in Decoders : Parsed(d) => inp[d] = nwSize[d]

\* Both phases select the same case of every switch they both decide on
\* (write_validate_switch_member reads the discriminant from the buffer,
\* write_switch_parser re-reads the parsed value).
SwitchAgreement ==
  \A d \in Decoders : Parsed(d) =>
    \A i \in Idx : Msg[i].kind = "switch" /\ Validated(Msg[i]) => vcase[d][i] = pcase[d][i]

\* A returned message has no slot left as malloc() returned it: every
\* member, including a @minor member absent at the caller's version and
\* every pointer (NULL or set), has been written.
OutputDefined ==
  \A d \in Decoders : pc[d] = "done" =>
    \A s \in Slots : out[d][s] # Uninit

\* A @nocopy pointer that is returned aliases a byte inside the buffer.
NocopyWithinMessage ==
  \A d \in Decoders : pc[d] = "done" =>
    \A i \in Idx : Msg[i].kind = "ptr" /\ Msg[i].nocopy =>
      out[d][Msg[i].name].alias < Len(wire)

\* Decoding the same buffer twice yields the same structure, and a caller
\* that decodes it again sees the same outcome (success or NULL).
DecodesAgree ==
  \A d, e \in Decoders :
    pc[d] \in {"done", "failed"} /\ pc[e] \in {"done", "failed"} =>
      /\ pc[d] = pc[e]
      /\ pc[d] = "done" => out[d] = out[e]

=============================================================================
