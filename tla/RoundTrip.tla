----------------------------- MODULE RoundTrip -----------------------------
(***************************************************************************)
(* The generated marshaller and the generated parser of the same message,  *)
(* composed: a caller marshals an in-memory message (Marshal), the         *)
(* linearised bytes are the buffer a peer's parser decodes (Demarshal).    *)
(* The two share the variable wire.                                        *)
(***************************************************************************)
EXTENDS Integers, Sequences

CONSTANTS Msg, MsgSizeof, Values, PadBytes, Junk, Minors, UIntMod, NULL, Uninit, Dec

VARIABLES val, mi, main, refs, subs, mpc, wire,
          minor, pc, idx, vnw, vmem, vcnt, vcase, nwSize, memSize, inp, end, ptrs, pcase, out, oob

M == INSTANCE Marshal
D == INSTANCE Demarshal WITH Decoders <- {Dec}, Wires <- {<<>>}

marshalVars == <<val, mi, main, refs, subs, mpc>>

Init == M!Init /\ D!Init

\* The parser runs on the buffer once the marshaller has flushed it
Next ==
  \/ M!MNext /\ UNCHANGED <<minor, pc, idx, vnw, vmem, vcnt, vcase, nwSize, memSize,
                           inp, end, ptrs, pcase, out, oob>>
  \/ mpc = "flushed" /\ D!Next /\ UNCHANGED marshalVars

Spec == Init /\ [][Next]_<<marshalVars, D!vars>>

\* The slots holding pointers
PtrSlots == {Msg[i].name : i \in {k \in DOMAIN Msg : Msg[k].kind = "ptr"}}

\* A decoded slot holds what the in-memory message held: the same integer
\* or array, and for a pointer NULL for NULL and otherwise the same target
SameSlot(s) ==
  IF s \in PtrSlots
  THEN \/ out[Dec][s] = NULL /\ val[s] = NULL
       \/ out[Dec][s] # NULL /\ val[s] # NULL /\ out[Dec][s].val = val[s].val
  ELSE out[Dec][s] = val[s]

\* Round trip: the message write_message_marshaller's code writes, once
\* flushed, is accepted by the write_msg_parser code for the same message
\* at the caller's minor version, and decodes to the in-memory message that
\* was marshalled (@bytes_count back-patch, pointers placed in
\* sub-marshallers and @fixedsize padding included; the message checked has
\* no @minor member, and minor is 0).  The
\* parser may still return NULL when malloc fails, after its fit check has
\* set mem_size (memSize # 0); it never rejects the bytes themselves.
RoundTripOK ==
  /\ pc[Dec] = "failed" => memSize[Dec] # 0
  /\ pc[Dec] = "done" => \A s \in D!Slots : SameSlot(s)

=============================================================================
