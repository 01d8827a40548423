------------------------------- MODULE Eeprom -------------------------------
(***************************************************************************)
(* What the EEPROM functions of src/fx2lib/include/i2c.h promise: a call   *)
(* writes its bytes in order, or reads what is stored; it returns TRUE     *)
(* only when it did all of that, and it returns.  A write that failed may  *)
(* have stored some of its bytes, and the next one may still follow.       *)
(***************************************************************************)
EXTENDS Naturals, Sequences

CONSTANTS
  Sizes,    \* how many bytes the EEPROM may have
  Values,   \* the values of a byte
  Lengths   \* how many bytes a call is about

VARIABLES
  mem,      \* the bytes of the EEPROM, from address 0 on
  op,       \* the call
  status,   \* "calling", or what it returned: "true", "false"
  stored,   \* how many of its bytes a write has stored
  answer    \* what a read that succeeded returned

vars == <<mem, op, status, stored, answer>>

(* eeprom_write stores byte by byte; "page" is one i2c_write of an address *)
(* and all bytes, which are stored together (with one byte it is a write). *)
Addresses == UNION {0 .. size - 1 : size \in Sizes}
Writes(n) ==
  [kind : IF n = 1 THEN {"write"} ELSE {"write", "page"}, addr : Addresses,
   values : [1 .. n -> Values], len : {n}]
Reads == [kind : {"read"}, addr : Addresses, values : {<<>>}, len : Lengths]
Ops == Reads \cup UNION {Writes(n) : n \in Lengths}

Fits(o) == o.addr + o.len <= Len(mem)

(* Address a is byte a + 1 of the sequence. *)
Stored(m, from, values) ==
  [i \in 1 .. Len(m) |-> IF i \in from + 1 .. from + Len(values)
                         THEN values[i - from] ELSE m[i]]

Init ==
  /\ mem \in UNION {[1 .. size -> Values] : size \in Sizes}
  /\ op \in {o \in Ops : Fits(o)}
  /\ status = "true" /\ stored = 0 /\ answer = <<>>

Call(o) ==
  /\ status # "calling"
  /\ Fits(o)
  /\ op' = o
  /\ status' = "calling"
  /\ stored' = 0 /\ answer' = <<>>
  /\ UNCHANGED mem

Store ==
  /\ status # "true"
  /\ op.kind # "read" /\ stored < op.len
  /\ LET n == IF op.kind = "page" THEN op.len ELSE 1
         next == SubSeq(op.values, stored + 1, stored + n)
     IN  /\ mem' = Stored(mem, op.addr + stored, next)
         /\ stored' = stored + n
  /\ UNCHANGED <<op, status, answer>>

Return(result) ==
  /\ status = "calling"
  /\ status' = result
  /\ IF op.kind = "read" /\ result = "true"
     THEN answer' = SubSeq(mem, op.addr + 1, op.addr + op.len)
     ELSE UNCHANGED answer
  /\ op.kind # "read" /\ result = "true" => stored = op.len
  /\ UNCHANGED <<mem, op, stored>>

Next ==
  \/ \E o \in Ops : Call(o)
  \/ Store
  \/ \E result \in {"true", "false"} : Return(result)

(* What a call may do, and that it returns. *)
Promise == Init /\ [][Next]_vars

Spec == Promise /\ WF_vars(\E result \in {"true", "false"} : Return(result))
=============================================================================
