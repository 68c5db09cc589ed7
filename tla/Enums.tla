------------------------------- MODULE Enums -------------------------------
(***************************************************************************)
(* The numbering of enums and the C enums the generator writes for them.   *)
(*                                                                         *)
(*  - EnumType.__init__ (ptypes.py) numbers the labels of "enumN Name {    *)
(*    label [= INT], ... }": an explicit value is taken as given, a label  *)
(*    without one takes the previous value plus one, and a value given     *)
(*    twice fails the assert;                                              *)
(*  - EnumType.c_define writes "typedef enum" with the values sorted,      *)
(*    writing "= v" only where C's own numbering would not give v.         *)
(*                                                                         *)
(* A written enum is a sequence of lines, each with the value it writes,  *)
(* NoValue where it has no "= v".  CEnum is what a C compiler makes of it. *)
(***************************************************************************)
EXTENDS Integers, Sequences, SequencesExt

CONSTANTS
  EnumLabels,     \* the labels of the enum bodies checked
  EnumOrdinals,   \* the explicit values they may be given
  MaxEnumLabels,  \* the most labels in one body
  NoValue         \* a label with no "= INT"

\* "label [= INT]": pyparsing's Group, one or two tokens
Entries == [label : EnumLabels, value : EnumOrdinals \cup {NoValue}]

\* enumBody: a delimitedList, so at least one label
EnumBodies == UNION {[1 .. n -> Entries] : n \in 1 .. MaxEnumLabels}

(***************************************************************************)
(* EnumType.__init__.  names: value -> label, values: label -> value; ok   *)
(* turns FALSE when "assert not names.has_key(value)" fails.               *)
(***************************************************************************)
EnumStep(acc, e) ==
  LET v == IF e.value = NoValue THEN acc.last + 1 ELSE e.value IN
  IF ~acc.ok \/ v \in DOMAIN acc.names THEN [acc EXCEPT !.ok = FALSE]
  ELSE [last   |-> v,
        names  |-> (v :> e.label) @@ acc.names,
        values |-> (e.label :> v) @@ acc.values,
        ok     |-> TRUE]

EnumTypeNew(body) ==
  FoldLeft(EnumStep, [last |-> -1, names |-> <<>>, values |-> <<>>, ok |-> TRUE], body)

(***************************************************************************)
(* EnumType.c_define: the values sorted, "= i" unless i is current_default *)
(* (one past the previous line), then the NAME_ENUM_END line.              *)
(***************************************************************************)
DefineStep(acc, i, names) ==
  [lines |-> Append(acc.lines, [label |-> names[i],
                                value |-> IF i # acc.cd THEN i ELSE NoValue]),
   cd    |-> i + 1]

\* (mutant: current_default starting at 1)
CDefineFromOne(t) ==
  LET r == FoldLeft(LAMBDA acc, i : DefineStep(acc, i, t.names),
                    [lines |-> <<>>, cd |-> 1], SetToSortSeq(DOMAIN t.names, <))
  IN  Append(r.lines, [label |-> "ENUM_END", value |-> NoValue])

CDefine(t) ==
  LET r == FoldLeft(LAMBDA acc, i : DefineStep(acc, i, t.names),
                    [lines |-> <<>>, cd |-> 0], SetToSortSeq(DOMAIN t.names, <))
  IN  Append(r.lines, [label |-> "ENUM_END", value |-> NoValue])

(***************************************************************************)
(* References: the C value of each line of an enum, and the spec's value   *)
(* of each label of an enum body.                                          *)
(***************************************************************************)
CEnum(lines) ==
  FoldLeft(LAMBDA acc, l : Append(acc, IF l.value # NoValue THEN l.value
                                       ELSE IF acc = <<>> THEN 0 ELSE Last(acc) + 1),
           <<>>, lines)

RECURSIVE SpecOrdinal(_, _)
SpecOrdinal(body, k) ==
  CASE body[k].value # NoValue -> body[k].value
    [] k = 1                   -> 0
    [] OTHER                   -> SpecOrdinal(body, k - 1) + 1

\* Over every enum body: EnumType rejects it exactly when two labels get
\* the same value; for one it accepts, its names map holds the value the
\* spec gives each label, and the C enum c_define writes defines, for each
\* value, the constant of that value's label with that value, and
\* NAME_ENUM_END one past the largest.
EnumsAgree ==
  \A body \in EnumBodies :
    LET t == EnumTypeNew(body)
        ord == [k \in DOMAIN body |-> SpecOrdinal(body, k)]
        h == CDefine(t)
        c == CEnum(h)
    IN  /\ t.ok = IsInjective(ord)
        /\ t.ok =>
             /\ \A k \in DOMAIN body : t.names[ord[k]] = body[k].label
             /\ {c[k] : k \in 1 .. Len(h) - 1} = Range(ord)
             /\ \A k \in 1 .. Len(h) - 1 : c[k] \in DOMAIN t.names /\ t.names[c[k]] = h[k].label
             /\ Last(c) = Max(Range(ord)) + 1

=============================================================================
