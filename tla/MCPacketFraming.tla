---------------------------- MODULE MCPacketFraming ----------------------------
(* PacketFraming with packets of every type in which the three layouts agree, each with *)
(* its fields of variable size empty and not. *)
EXTENDS PacketFraming

E(kind) == [kind |-> kind, length |-> 0]

\* The values of a field of variable size.
Values(field) ==
    CASE field \in {"stack", "extra"} -> {0, 1}
      [] field = "M" -> {<<>>, <<E("integer")>>, <<E("short"), E("iii")>>,
                         <<E("byte"), E("unknown")>>}
      [] field = "slots" -> {<<>>, <<1>>, <<0, 1, 0>>}
      [] OTHER -> {0, 2}

\* The sequences of values of the variable fields of a format.
PartsOf(format) ==
    LET fields == SelectSeq(format, LAMBDA f : f \notin DOMAIN Width) IN
    {q \in [DOMAIN fields -> UNION {Values(fields[k]) : k \in DOMAIN fields}] :
        \A k \in DOMAIN fields : q[k] \in Values(fields[k])}

MCPackets ==
    UNION {UNION {{[chain |-> c, type |-> t, parts |-> q] : q \in PartsOf(Write[c][t])} :
               t \in DOMAIN Write[c] \ Apart[c]} : c \in {"Request", "Response"}}
==============================================================================
