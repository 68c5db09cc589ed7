--------------------------- MODULE ChannelCatalog ---------------------------
(***************************************************************************)
(* What the dispatch of a generated protocol parser promises: a lookup of  *)
(* (channel id, message type) yields a message declared with that id in a  *)
(* channel instantiated with that channel id and compiled into the build,  *)
(* and "no such message" (NULL) when there is none.                        *)
(*                                                                         *)
(* Ids follow the rule of the protocol description: messages of a channel  *)
(* (after those of its base) and channels of the protocol are numbered     *)
(* from 1; an explicit id is used as given and moves the counter past it. *)
(***************************************************************************)
EXTENDS Integers, Sequences, FiniteSets, FiniteSetsExt, TLC

CONSTANTS
  Decl,        \* channel types in declaration order:
               \*   [name, base (a name or NoBase), ifdef, members]
               \* members: [kind |-> "marker", side] or [kind |-> "msg", name, value]
  Proto,       \* the protocol's channel instantiations: [chan, value]
  IsServer,    \* whether the server-side or the client-side parser is generated
  IfdefChans,  \* the channel types carrying @ifdef
  ChanRange,   \* channel ids a caller may pass
  TypeRange,   \* message types a caller may pass
  NoId,        \* a declaration without "= value"
  NoBase,      \* a channel without a base
  NULL

VARIABLES defined, answer

Side == IF IsServer THEN "server" ELSE "client"

DeclOf(c) == Decl[CHOOSE i \in DOMAIN Decl : Decl[i].name = c]

\* The side a member is declared under: the last "server:" or "client:"
\* before it, "server" if none
MemberSide(ms, k) ==
  LET marks == {j \in 1 .. k - 1 : ms[j].kind = "marker"}
  IN  IF marks = {} THEN "server" ELSE ms[Max(marks)].side

\* The ids the numbering rule gives a list of declarations
RECURSIVE SpecIds(_, _)
SpecIds(ds, cnt) ==
  IF ds = <<>> THEN <<>>
  ELSE LET id == IF Head(ds).value = NoId THEN cnt ELSE Head(ds).value
       IN  <<id>> \o SpecIds(Tail(ds), id + 1)

\* The messages a channel type declares itself on side s
OwnMsgs(c, s) ==
  LET ms == DeclOf(c).members
  IN  SelectSeq([k \in DOMAIN ms |-> [side |-> MemberSide(ms, k)] @@ ms[k]],
                LAMBDA m : m.kind = "msg" /\ m.side = s)

\* Its catalogue on side s: its base's, then its own, with their ids
RECURSIVE Catalogue(_, _)
Catalogue(c, s) ==
  LET own == OwnMsgs(c, s)  ids == SpecIds(own, 1) IN
  (IF DeclOf(c).base = NoBase THEN {} ELSE Catalogue(DeclOf(c).base, s))
    \cup {[msg |-> <<c, own[k].name>>, id |-> ids[k]] : k \in DOMAIN own}

ChanIds == SpecIds(Proto, 1)

Compiled(c) == c \notin IfdefChans \/ c \in defined

\* The messages with id mt of the compiled channels with channel id ch
Answers(ch, mt) ==
  LET chans == {Proto[q].chan : q \in {p \in DOMAIN Proto : ChanIds[p] = ch}}
      found == {e.msg : e \in {x \in UNION {Catalogue(c, Side) : c \in {c2 \in chans : Compiled(c2)}} :
                                 x.id = mt}}
  IN  IF found = {} THEN {NULL} ELSE found

Init ==
  /\ defined \in SUBSET IfdefChans
  /\ answer = NULL

Lookup ==
  /\ \E ch \in ChanRange, mt \in TypeRange :
       \E m \in Answers(ch, mt) : answer' = [ch |-> ch, mt |-> mt, msg |-> m]
  /\ UNCHANGED defined

Spec == Init /\ [][Lookup]_<<defined, answer>>

=============================================================================
