------------------------- MODULE MCChannelDispatch -------------------------
(***************************************************************************)
(* Protocols for checking ChannelDispatch with TLC, written as spice.proto *)
(* would declare them:                                                     *)
(*                                                                         *)
(*   channel BaseChannel {                                                 *)
(*    server: message notify; message ping;                                *)
(*    client: message ack; };                                              *)
(*   channel MainChannel : BaseChannel {                                   *)
(*    server: message init = 101; message mouse;                           *)
(*    client: message attach = 101 @ifdef(USE_ATTACH); };                  *)
(*   channel SmartcardChannel : BaseChannel {                              *)
(*    server: message data = 101;                                          *)
(*    client: message reader = 101; } @ifdef(USE_SMARTCARD);               *)
(*   protocol Spice { MainChannel main = 1; SmartcardChannel smartcard; }; *)
(*                                                                         *)
(* Derived channels restart their counters at 1 and place their own        *)
(* messages from 101, as spice.proto does.                                 *)
(***************************************************************************)
EXTENDS ChannelDispatch, TypeRegistry, Enums

Marker(s) == [kind |-> "marker", side |-> s]
Message(nm, v) == [kind |-> "msg", name |-> nm, value |-> v, ifdef |-> NULL]
IfdefMessage(nm, v, sym) == [Message(nm, v) EXCEPT !.ifdef = sym]

BaseDecl ==
  [name |-> "Base", base |-> NoBase,
   members |-> <<Marker("server"), Message("notify", NoId), Message("ping", NoId),
                 Marker("client"), Message("ack", NoId)>>]

MainDecl ==
  [name |-> "Main", base |-> "Base",
   members |-> <<Marker("server"), Message("init", 101), Message("mouse", NoId),
                 Marker("client"), IfdefMessage("attach", 101, "USE_ATTACH")>>]

SmartcardDecl ==
  [name |-> "Smartcard", base |-> "Base",
   members |-> <<Marker("server"), Message("data", 101),
                 Marker("client"), Message("reader", 101)>>]

MCDecl == <<BaseDecl, MainDecl, SmartcardDecl>>

MCProto == <<[chan |-> "Main", value |-> 1], [chan |-> "Smartcard", value |-> NoId]>>

MCIfdefChans == {"Smartcard"}

\* Channel ids around the table's bounds (0 is never assigned, 3 is past
\* max_channel); message types at both ends of each range and past them
MCChanRange == 0 .. 3
MCTypeRange == {0, 1, 2, 3, 100, 101, 102, 103}

(***************************************************************************)
(* A protocol whose table has a hole right after an @ifdef channel:        *)
(*   protocol Spice { SmartcardChannel smartcard = 2; MainChannel main = 4; } *)
(***************************************************************************)
GapProto == <<[chan |-> "Smartcard", value |-> 2], [chan |-> "Main", value |-> 4]>>

(***************************************************************************)
(* The front end: spice_codegen.py calls spice_parser.parse, which         *)
(* resolves and registers the type definitions (TypeRegistry) before the   *)
(* channels and the protocol that follow them in the file; generation      *)
(* starts only once parse has returned, and an exception ends the run.     *)
(***************************************************************************)
FrontInit == TRInit /\ Init

FrontNext ==
  \/ TRNext /\ UNCHANGED vars
  \/ status = "returned" /\ Next /\ UNCHANGED trVars

FrontSpec == FrontInit /\ [][FrontNext]_<<vars, trVars>>

(***************************************************************************)
(* The enums header (spice_codegen.py -e), written from the same resolved  *)
(* types as the parser.                                                    *)
(***************************************************************************)
\* Once parse has returned (an enum whose values collide has already
\* stopped it with EnumType's AssertionError), every enum type it built is
\* written by c_define as a C enum whose constants have the values the
\* spec gives their labels: the constants that switch cases compare a
\* discriminant with are the values the marshaller and the parser agree on.
EnumHeaderAgrees == status = "returned" => EnumsAgree

========================================================================
