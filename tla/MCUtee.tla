------------------------------- MODULE MCUtee -------------------------------
(***************************************************************************)
(* The runtime library of a TA for model checking.  Its parts keep their   *)
(* state in different fields of Core and none of them calls another one,   *)
(* so a behaviour exercises one part and leaves the others as they start.  *)
(***************************************************************************)
EXTENDS UteeClient, UteeEnum, UteeTime, UteeHeap, UteeArith

VARIABLE part \* the part of this behaviour

vars == <<part, clientVars, enumVars, timeVars, heapVars, arithVars>>

Parts == {"client", "objects", "properties", "time", "heap", "arith"}

\* Operands around the limits of one to four limbs.
MCNumbers == {-255, -64, -15, -12, -5, -3, -1, 0, 1, 2, 3, 4, 7, 13, 15, 16, 63, 200, 255}

ArithIdle ==
  /\ x = Num(0, Tmp) /\ y = Num(0, Tmp) /\ dest = Num(0, Tmp)
  /\ did = NoOp /\ out = NoOp

Init ==
  /\ part \in Parts
  /\ ClientInit /\ (part = "client" \/ ~hook)
  /\ EnumInit /\ TimeInit /\ HeapInit
  /\ IF part = "arith" THEN ArithInit ELSE ArithIdle

Client == part = "client" /\ ClientNext /\ UNCHANGED <<part, enumVars, timeVars, heapVars, arithVars>>

ObjectEnumerators == part = "objects" /\ ObjEnumNext /\ UNCHANGED <<part, clientVars, timeVars, heapVars, arithVars>>

PropertyEnumerators == part = "properties" /\ PropEnumNext /\ UNCHANGED <<part, clientVars, timeVars, heapVars, arithVars>>

PersistentTime == part = "time" /\ TimeNext /\ UNCHANGED <<part, clientVars, enumVars, heapVars, arithVars>>

Memory == part = "heap" /\ HeapNext /\ UNCHANGED <<part, clientVars, enumVars, timeVars, arithVars>>

Arithmetic == part = "arith" /\ ArithNext /\ UNCHANGED <<part, clientVars, enumVars, timeVars, heapVars>>

Next == Client \/ ObjectEnumerators \/ PropertyEnumerators \/ PersistentTime \/ Memory \/ Arithmetic

Spec == Init /\ [][Next]_vars

\* The tables and counters of the runtime have their types.
TypeOK == ClientTypeOK /\ EnumTypeOK /\ part \in Parts
============================================================================
