---------------------------- MODULE MCDemarshal ----------------------------
(***************************************************************************)
(* Messages and buffers for checking Demarshal with TLC.  Each message is  *)
(* written as spice.proto would declare it; each buffer set enumerates     *)
(* every choice of the header fields over values that steer the parser     *)
(* into each of its branches, followed by bodies of every length up to a   *)
(* bound, and a few buffers cut short inside the header.                   *)
(***************************************************************************)
EXTENDS Demarshal

\* The w little-endian bytes of v
LE(v, w) == [k \in 1 .. w |-> (v \div (256 ^ (k - 1))) % 256]

\* A body of n bytes 5, 6, 7, ... (values no check of the parser tests)
Body(n) == [k \in 1 .. n |-> 4 + k]

\* Every prefix of buffer b shorter than b
Cuts(b) == {SubSeq(b, 1, j) : j \in 0 .. Len(b) - 1}

Prim(nm, w) == [kind |-> "prim", name |-> nm, w |-> w, minor |-> 0, zero |-> FALSE,
                bcount |-> "", nvals |-> 0]

\* 2^32 exceeds TLC's integers; no product the buffers below produce reaches
\* 2^16, so wrapping at 2^16 is wrapping at 2^32 for them
MCUIntMod == 65536

(***************************************************************************)
(* Pointers.                                                               *)
(*   message Core {                                                        *)
(*     uint8 n;                                                            *)
(*     uint16 *data[n];                                                    *)
(*     uint8 *raw[n] @nocopy;                                              *)
(*     Pt *pt @nonnull;           struct Pt { uint8 x; uint16 y; }         *)
(*     uint8 tail[2] @end;                                                 *)
(*   }                                                                     *)
(***************************************************************************)
MsgCore ==
  << Prim("n", 1),
     [kind |-> "ptr", name |-> "data", w |-> 4, nonnull |-> FALSE, nocopy |-> FALSE,
      target |-> [tk |-> "array", elem |-> 2, field |-> "n"]],
     [kind |-> "ptr", name |-> "raw", w |-> 4, nonnull |-> FALSE, nocopy |-> TRUE,
      target |-> [tk |-> "array", elem |-> 1, field |-> "n"]],
     [kind |-> "ptr", name |-> "pt", w |-> 4, nonnull |-> TRUE, nocopy |-> FALSE,
      target |-> [tk |-> "struct", fields |-> <<1, 2>>, sizeof |-> 4]],
     [kind |-> "array", name |-> "tail", elem |-> 1, size |-> [sk |-> "const", n |-> 2]] >>

\* sizeof(SpiceMsgCore) on a 64-bit host: n, three pointers, tail[2]
MsgCoreSizeof == 32

CoreHeader(n, od, orw, op) == <<n>> \o LE(od, 4) \o LE(orw, 4) \o LE(op, 4) \o <<1, 2>>

\* The fixed part is 15 bytes; offsets 0 (NULL), at the body, into it and
\* at or past its end
WiresCore ==
  { CoreHeader(n, od, orw, op) \o Body(len) :
      n \in 0 .. 2, od \in {0, 15, 17}, orw \in {15, 17, 19}, op \in {0, 15, 17},
      len \in 0 .. 4 }
  \cup Cuts(CoreHeader(1, 15, 15, 15))

(***************************************************************************)
(* Versions and switches.                                                  *)
(*   enum8 Kind { A, B, C };                                               *)
(*   message Ver {                                                         *)
(*     uint8 flags @minor(2);                                              *)
(*     Kind kind;                                                          *)
(*     switch (kind) { case A: uint8 a; case B: uint16 b;                  *)
(*                     default: uint32 c; } u;                             *)
(*     switch (kind) { case A: uint8 x; default: uint16 y; } v @fixedsize; *)
(*     uint8 last;                                                         *)
(*   }                                                                     *)
(***************************************************************************)
MsgVer ==
  << [Prim("flags", 1) EXCEPT !.minor = 2],
     [Prim("kind", 1) EXCEPT !.nvals = 3],
     [kind |-> "switch", name |-> "u", var |-> "kind", fixedsize |-> FALSE,
      cases |-> << [vals |-> {0}, dflt |-> FALSE, w |-> 1],
                   [vals |-> {1}, dflt |-> FALSE, w |-> 2],
                   [vals |-> {}, dflt |-> TRUE, w |-> 4] >>],
     [kind |-> "switch", name |-> "v", var |-> "kind", fixedsize |-> TRUE,
      cases |-> << [vals |-> {0}, dflt |-> FALSE, w |-> 1],
                   [vals |-> {}, dflt |-> TRUE, w |-> 2] >>],
     Prim("last", 1) >>

MsgVerSizeof == 16

\* The first two bytes are flags and kind at minor 2 and kind and the
\* switch at minor 1; 7 is a value no label of Kind has
WiresVer ==
  { <<a, b>> \o Body(len) : a \in {0, 1, 2, 7}, b \in {0, 1, 2, 7}, len \in 0 .. 7 }
  \cup Cuts(<<1, 1, 0, 0>>)

(***************************************************************************)
(* Byte-length arrays.                                                     *)
(*   message Bytes {                                                       *)
(*     uint8 flags;                                                        *)
(*     uint16 len @bytes_count(n);                                         *)
(*     uint16 data[bytes(len, n)] @end;                                    *)
(*   }                                                                     *)
(***************************************************************************)
MsgBytes ==
  << Prim("flags", 1),
     [Prim("len", 2) EXCEPT !.bcount = "n"],
     [kind |-> "array", name |-> "data", elem |-> 2,
      size |-> [sk |-> "bytes", nbytes |-> "len", count |-> "n"]] >>

MsgBytesSizeof == 8

\* Byte lengths even and odd, with bodies shorter and longer than them
WiresBytes ==
  { <<0>> \o LE(len, 2) \o Body(k) : len \in {0, 1, 2, 3, 4, 6}, k \in 0 .. 6 }
  \cup Cuts(<<0>> \o LE(2, 2))

(***************************************************************************)
(* A count read from the buffer, multiplied by the element size.           *)
(*   message Ovf { uint32 n; uint16 data[n] @end; }                        *)
(* The uint32_t product wraps at 2^32 once n reaches 2^31.  Scaled down:   *)
(* the count is one byte, the product wraps at 2^4 and n reaches 2^3.      *)
(***************************************************************************)
MsgOvf ==
  << Prim("n", 1),
     [kind |-> "array", name |-> "data", elem |-> 2, size |-> [sk |-> "ident", field |-> "n"]] >>

MsgOvfSizeof == 8

OvfUIntMod == 16

WiresOvf == { <<n>> \o Body(k) : n \in 0 .. 8, k \in 0 .. 4 }

(***************************************************************************)
(* A switch that ptypes.py counts as fixed because it has a case for each  *)
(* label of its enum.                                                      *)
(*   enum8 Two { P, Q };                                                   *)
(*   message Enum {                                                        *)
(*     Two kind;                                                           *)
(*     switch (kind) { case P: uint8 p; case Q: uint8 q; } s;              *)
(*     uint8 last;                                                         *)
(*   }                                                                     *)
(***************************************************************************)
MsgEnum ==
  << [Prim("kind", 1) EXCEPT !.nvals = 2],
     [kind |-> "switch", name |-> "s", var |-> "kind", fixedsize |-> FALSE,
      cases |-> << [vals |-> {0}, dflt |-> FALSE, w |-> 1],
                   [vals |-> {1}, dflt |-> FALSE, w |-> 1] >>],
     Prim("last", 1) >>

MsgEnumSizeof == 8

\* 5 is a value no label of Two has
WiresEnum == { <<k>> \o Body(len) : k \in {0, 1, 5}, len \in 0 .. 3 }

(***************************************************************************)
(* A variable switch with no default case.                                 *)
(*   message NoDefault {                                                   *)
(*     Kind kind;                                                          *)
(*     switch (kind) { case A: uint8 a; case B: uint16 b; } u;             *)
(*   }                                                                     *)
(***************************************************************************)
MsgNoDefault ==
  << [Prim("kind", 1) EXCEPT !.nvals = 3],
     [kind |-> "switch", name |-> "u", var |-> "kind", fixedsize |-> FALSE,
      cases |-> << [vals |-> {0}, dflt |-> FALSE, w |-> 1],
                   [vals |-> {1}, dflt |-> FALSE, w |-> 2] >>] >>

MsgNoDefaultSizeof == 8

WiresNoDefault == { <<k>> \o Body(len) : k \in {0, 1, 2}, len \in 0 .. 2 }

=============================================================================
