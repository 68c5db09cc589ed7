---------------------------- MODULE TypeRegistry ----------------------------
(***************************************************************************)
(* The resolve pass of spice_parser.parse: for every top-level definition, *)
(* in source order, t.resolve() and then t.register(), against the         *)
(* process-wide registry _types / _types_by_name of ptypes.py.             *)
(*                                                                         *)
(* A type is one of the objects the grammar builds (spice_parser.py):      *)
(*  - a TypeRef to a name (a typename; a pointer or array built around one *)
(*    by parseVariableDef is anonymous and resolves its target the same    *)
(*    way, so it is folded into the TypeRef);                              *)
(*  - the integer type Prim, a single object shared by every use;          *)
(*  - an inline "struct Name { ... }" member type, a fresh named object.   *)
(* A top-level definition is a struct (or message), a typedef or an enum.  *)
(* Nested inline structs are one level deep: their members are TypeRefs    *)
(* and integers.                                                           *)
(***************************************************************************)
EXTENDS Integers, Sequences, SequencesExt

CONSTANTS
  Names,     \* the user type names of the programs
  Prim,      \* the name of the integer type (e.g. "uint8")
  MaxDefs    \* the most top-level definitions of a program

VARIABLES
  prog,      \* the list "types" returned by bnf.parseFile
  di,        \* the index of the loop "for t in types"
  phase,     \* "resolve" or "register": the two calls of the loop body
  types,     \* _types: the registered names in registration order
  status     \* "running", "returned", or the exception that ended parse

trVars == <<prog, di, phase, types, status>>

Errors == {"UnknownType", "DuplicateType"}

(***************************************************************************)
(* The objects (spice_parser.py's grammar actions).                        *)
(***************************************************************************)
Ref(n) == [k |-> "ref", n |-> n, ms |-> <<>>]
PrimType == [k |-> "prim", n |-> Prim, ms |-> <<>>]
Inline(n, ms) == [k |-> "struct", n |-> n, ms |-> ms]

StructDef(n, ms) == [kind |-> "struct", name |-> n, members |-> ms]
AliasDef(n, t) == [kind |-> "alias", name |-> n, members |-> <<t>>]
EnumDef(n) == [kind |-> "enum", name |-> n, members |-> <<>>]

\* Member types: a reference, the integer type, or an inline named struct
\* with one member that is either
MemberTypes ==
  LET leaf == {Ref(n) : n \in Names} \cup {PrimType}
  IN  leaf \cup {Inline(n, <<t>>) : n \in Names, t \in leaf}

\* Enums, typedefs of a name or of the integer type, one-member structs
Defs ==
  {EnumDef(n) : n \in Names}
    \cup {StructDef(n, <<t>>) : n \in Names, t \in MemberTypes}
    \cup {AliasDef(n, t) : n \in Names, t \in {Ref(x) : x \in Names} \cup {PrimType}}

\* The definition lists bnf.parseFile can return, up to MaxDefs long
Programs == UNION {[1 .. len -> Defs] : len \in 1 .. MaxDefs}

(***************************************************************************)
(* Resolution.  acc is the registry and the exception raised so far; once  *)
(* an exception is raised every later call is skipped, as it unwinds.      *)
(***************************************************************************)
Raised(acc) == acc.err \in Errors

\* _types_by_name.has_key(name)
Known(acc, n) == n \in ToSet(acc.reg)

\* (mutant: TypeRef.resolve without the has_key check)
TypeRefResolveLax(acc, n) == acc

\* TypeRef.resolve: an unregistered name raises "Unknown type"
TypeRefResolve(acc, n) ==
  IF Raised(acc) \/ Known(acc, n) THEN acc ELSE [acc EXCEPT !.err = "UnknownType"]

\* The registred flag of the object register() is called on: a resolved
\* TypeRef is the registered object itself; Prim is one shared object; an
\* inline struct or a top-level definition is a fresh object.
Registred(acc, t) ==
  CASE t.k = "ref"  -> TRUE
    [] t.k = "prim" -> Known(acc, Prim)
    [] OTHER        -> FALSE

\* Type.register: skip a registered object, raise on a name already taken,
\* else append to _types and enter it in _types_by_name
TypeRegister(acc, t) ==
  CASE Raised(acc) \/ Registred(acc, t) -> acc
    [] Known(acc, t.n)                  -> [acc EXCEPT !.err = "DuplicateType"]
    [] OTHER                            -> [acc EXCEPT !.reg = Append(@, t.n)]

RECURSIVE TypeResolve(_, _), MemberResolve(_, _), ContainerResolve(_, _)

\* ContainerType.resolve: resolve every member in order
ContainerResolve(acc, t) == FoldLeft(MemberResolve, acc, t.ms)

\* t.resolve(): a TypeRef looks its name up, an integer is itself
TypeResolve(acc, t) ==
  CASE t.k = "ref"    -> TypeRefResolve(acc, t.n)
    [] t.k = "prim"   -> acc
    [] t.k = "struct" -> ContainerResolve(acc, t)

\* Member.resolve: resolve the member's type, then register what it resolved to
MemberResolve(acc, t) == TypeRegister(TypeResolve(acc, t), t)

\* TypeAlias.resolve: resolve the aliased type; it is not registered
AliasResolve(acc, t) == TypeResolve(acc, t)

\* t.resolve() of a top-level definition
DefResolve(acc, d) ==
  CASE d.kind = "struct" -> FoldLeft(MemberResolve, acc, d.members)
    [] d.kind = "alias"  -> AliasResolve(acc, d.members[1])
    [] d.kind = "enum"   -> acc

(***************************************************************************)
(* The loop of spice_parser.parse.                                         *)
(***************************************************************************)
Acc == [reg |-> types, err |-> "none"]

\* (mutant: the status taken from the accumulator even without an exception)
OutcomeErr(r) == r.err

\* The status after a step: the exception raised, if any
Outcome(r) == IF Raised(r) THEN r.err ELSE "running"

TRInit ==
  /\ prog \in Programs
  /\ di = 1 /\ phase = "resolve"
  /\ types = <<>>
  /\ status = "running"

\* t.resolve()
ResolveDef ==
  /\ status = "running" /\ phase = "resolve" /\ di <= Len(prog)
  /\ LET r == DefResolve(Acc, prog[di])
     IN  /\ types' = r.reg
         /\ status' = Outcome(r)
  /\ phase' = "register"
  /\ UNCHANGED <<prog, di>>

\* t.register() of the top-level object, then the next definition
RegisterDef ==
  /\ status = "running" /\ phase = "register"
  /\ LET r == TypeRegister(Acc, [k |-> "def", n |-> prog[di].name])
     IN  /\ types' = r.reg
         /\ status' = Outcome(r)
  /\ phase' = "resolve" /\ di' = di + 1
  /\ UNCHANGED prog

\* The loop ends: parse returns types[-1]
Return ==
  /\ status = "running" /\ phase = "resolve" /\ di > Len(prog)
  /\ status' = "returned"
  /\ UNCHANGED <<prog, di, phase, types>>

\* parse has returned, or its exception has ended the generator
Ended ==
  /\ status # "running"
  /\ UNCHANGED trVars

TRNext == ResolveDef \/ RegisterDef \/ Return \/ Ended

TRSpec == TRInit /\ [][TRNext]_trVars

(***************************************************************************)
(* What the program defines and references, per spec section 3: every      *)
(* named type (top-level or an inline struct) once; references by name.    *)
(***************************************************************************)
InlineNames(ts) == [k \in 1 .. Len(SelectSeq(ts, LAMBDA t : t.k = "struct")) |->
                      SelectSeq(ts, LAMBDA t : t.k = "struct")[k].n]

NamedDefs(p) == FoldLeft(LAMBDA acc, d : acc \o InlineNames(d.members) \o <<d.name>>, <<>>, p)

TypesOf(d) == ToSet(d.members) \cup UNION {ToSet(t.ms) : t \in ToSet(d.members)}

RefsOf(p) == {t.n : t \in UNION {{u \in TypesOf(d) : u.k = "ref"} : d \in ToSet(p)}}

WellFormed(p) == RefsOf(p) \subseteq ToSet(NamedDefs(p)) /\ IsInjective(NamedDefs(p))

(***************************************************************************)
(* Properties.                                                             *)
(***************************************************************************)
TRTypeOK ==
  /\ prog \in Programs
  /\ di \in 1 .. Len(prog) + 1
  /\ phase \in {"resolve", "register"}
  /\ types \in Seq(Names \cup {Prim})
  /\ status \in {"running", "returned"} \cup Errors

\* A parse that returns (spice_parser.parse reaching "return protocol") was
\* given a program that references only types it defines and defines no
\* name twice, and has registered each of its named types exactly once.
AcceptedWellFormed ==
  status = "returned" =>
    /\ WellFormed(prog)
    /\ IsInjective(types)
    /\ ToSet(types) \ {Prim} = ToSet(NamedDefs(prog))

\* The parse raises UnknownType or DuplicateType only for a program that is
\* not well formed: per spec 4.1, a reference to a type declared later in
\* the same file is resolved ("declare first, define later").
FailsOnlyIllFormed == status \in Errors => ~WellFormed(prog)

=============================================================================
