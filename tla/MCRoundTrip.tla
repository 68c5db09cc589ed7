---------------------------- MODULE MCRoundTrip ----------------------------
(***************************************************************************)
(* Messages and in-memory values for the round trip, written as spice.proto *)
(* would declare them.                                                     *)
(*                                                                         *)
(*   enum8 Kind { A, B, C };                                               *)
(*   struct Pt { uint8 x; uint16 y; };                                     *)
(*   message RT {                                                          *)
(*     Kind kind;                                                          *)
(*     uint16 len @bytes_count(n);                                         *)
(*     uint16 data[bytes(len, n)];                                         *)
(*     uint8 cnt;                                                          *)
(*     uint8 *p[cnt] @marshall;                                            *)
(*     Pt *q @nonnull;                                                     *)
(*     switch (kind) { case A: uint8 a; default: uint16 b; } u @fixedsize; *)
(*     switch (kind) { case A: uint8 x; case B: uint16 y;                  *)
(*                     default: uint32 z; } v;                             *)
(*   }                                                                     *)
(***************************************************************************)
EXTENDS RoundTrip

Prim(nm, w) == [kind |-> "prim", name |-> nm, w |-> w, minor |-> 0, zero |-> FALSE,
                bcount |-> "", nvals |-> 0]

MsgRT ==
  << [Prim("kind", 1) EXCEPT !.nvals = 3],
     [Prim("len", 2) EXCEPT !.bcount = "n"],
     [kind |-> "array", name |-> "data", elem |-> 2,
      size |-> [sk |-> "bytes", nbytes |-> "len", count |-> "n"]],
     Prim("cnt", 1),
     [kind |-> "ptr", name |-> "p", w |-> 4, nonnull |-> FALSE, nocopy |-> FALSE,
      marshall |-> TRUE, target |-> [tk |-> "array", elem |-> 1, field |-> "cnt"]],
     [kind |-> "ptr", name |-> "q", w |-> 4, nonnull |-> TRUE, nocopy |-> FALSE,
      marshall |-> FALSE, target |-> [tk |-> "struct", fields |-> <<1, 2>>, sizeof |-> 4]],
     [kind |-> "switch", name |-> "u", var |-> "kind", fixedsize |-> TRUE,
      cases |-> << [vals |-> {0}, dflt |-> FALSE, w |-> 1],
                   [vals |-> {}, dflt |-> TRUE, w |-> 2] >>],
     [kind |-> "switch", name |-> "v", var |-> "kind", fixedsize |-> FALSE,
      cases |-> << [vals |-> {0}, dflt |-> FALSE, w |-> 1],
                   [vals |-> {1}, dflt |-> FALSE, w |-> 2],
                   [vals |-> {}, dflt |-> TRUE, w |-> 4] >>] >>

MsgRTSizeof == 40

\* Every kind; arrays of 0 to 2 elements, some needing both bytes of a
\* uint16; a NULL p with and without a count, a non-NULL p of 1 or 2 bytes
ValuesRT ==
  { [kind |-> k, n |-> Len(d), data |-> d, cnt |-> c, p |-> pv,
     q |-> [val |-> <<3, 513>>], u |-> 9, v |-> 9] :
      k \in 0 .. 2,
      d \in {<<>>, <<5>>, <<300>>, <<5, 300>>},
      <<c, pv>> \in {<<0, NULL>>, <<2, NULL>>, <<1, [val |-> <<7>>]>>, <<2, [val |-> <<7, 8>>]>>} }

MCUIntMod == 65536

MsgSizeofSmall == 8

(***************************************************************************)
(* A @zero member.                                                         *)
(*   message Z { uint8 pad @zero; uint8 x; }                               *)
(***************************************************************************)
MsgZero == << [Prim("pad", 1) EXCEPT !.zero = TRUE], Prim("x", 1) >>

ValuesZero == { [x |-> v] : v \in {1, 2} }

=============================================================================
