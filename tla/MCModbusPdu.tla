---------------------------- MODULE MCModbusPdu ----------------------------
(***************************************************************************)
(* Bytes of three bits, tables of three entries. A quantity may exceed the *)
(* table before it exceeds the protocol's limit, as in the code for bits   *)
(* (128 < 1968), and five coils take two bytes.                            *)
(***************************************************************************)
EXTENDS ModbusPdu

\* Every request the master can build near the ends of tables and limits.
\* Registers are written with one value beside their address, so that the
\* tables take few values.
BuiltRequests ==
  {BuildRequest(f, a, v) : f \in Functions8 \ {WriteRegister},
                           a \in {0, 1, 2, 3, 63}, v \in {0, 1, 2, 3, 5, 6, 63}}
    \cup {BuildRequest(WriteRegister, a, 5) : a \in {0, 1, 2, 3, 63}}

\* Some of them with the last byte missing, one too many, or one changed
\* (the quantity, the byte count, or a byte of coils).
Cut(req) == [req EXCEPT !.body = SubSeq(@, 1, Len(@) - 1)]
Longer(req) == [req EXCEPT !.body = Append(@, 7)]
Changed(req, i, b) == [req EXCEPT !.body[i] = b]

ToAlter == {r \in BuiltRequests \ {NoPdu} :
              r.body[1] = 0 /\ r.body[2] = 1}
Alterable(r) == IF r.func = WriteRegister THEN {}
                ELSE IF r.func = WriteRegisters THEN 3 .. 5
                ELSE 3 .. Len(r.body)
Malformeds ==
  {Cut(r) : r \in ToAlter} \cup {Longer(r) : r \in ToAlter}
    \cup UNION {{Changed(r, i, b) : i \in Alterable(r), b \in {0, 3}} : r \in ToAlter}

MCRequests ==
  BuiltRequests \cup {r \in Malformeds : 1 + Len(r.body) <= MaxPdu}
    \cup {[func |-> f, body |-> <<>>] : f \in Functions8 \cup {0, 7, 131}}
=============================================================================
