----------------------------- MODULE KeysProofs -----------------------------
(***************************************************************************)
(* The key machine, for every keyboard, count width and digit limit: its   *)
(* counts stay in their types, one part at a time owns the next key, and   *)
(* nothing half-typed outlives the command it belongs to.  Then the same   *)
(* behind the decoder, for whatever is typed and pasted, and the pastes.   *)
(***************************************************************************)
EXTENDS Input, TLAPS

USE KeysAssumption

(* The four invariants need each other: who owns the next key says which   *)
(* fields are still at their defaults, and so that what enters insert mode *)
(* leaves it clean.                                                        *)
KeysInv == TypeOK /\ OneOwner /\ InsertIsClean /\ MotionCountCapped

(* A digit's value is a decimal digit, and only 0 has the value 0.         *)
LEMMA DigitValue ==
    ASSUME NEW k \in Digits
    PROVE  Value[k] \in Nat /\ Value[k] <= 9 /\ (Value[k] = 0 => k = "0")
<1>1. k \in {"0", "1", "2", "3", "4", "5", "6", "7", "8", "9"}
  BY DEF Digits, Value
<1>2. /\ Value["0"] = 0 /\ Value["1"] = 1 /\ Value["2"] = 2 /\ Value["3"] = 3
      /\ Value["4"] = 4 /\ Value["5"] = 5 /\ Value["6"] = 6 /\ Value["7"] = 7
      /\ Value["8"] = 8 /\ Value["9"] = 9
  BY DEF Value
<1> QED
  BY <1>1, <1>2

(* A wrapped count fits its type.                                          *)
LEMMA Wraps ==
    ASSUME NEW n \in Nat
    PROVE  n % CountMod \in 0..(CountMod - 1)
  OBVIOUS

(* A count that was consumed fits its type.                                *)
LEMMA ZeroFits == 0 \in 0..(CountMod - 1) /\ 0 < CountMod
  OBVIOUS

(* No operator is an operator with every field at its default.             *)
LEMMA NoOpPending ==
    /\ NoOp \in Pending
    /\ NoOp.phase = "Idle" /\ NoOp.op_count = 0 /\ NoOp.motion_count = 0
  BY DEF NoOp, Pending, OperatorKeys

(* Idle is the phase NoOp has.                                             *)
LEMMA NoOpIsIdle ==
    ASSUME NEW b
    PROVE  [NoOp EXCEPT !.phase = "Idle", !.named = b] = [NoOp EXCEPT !.named = b]
<1>1. [NoOp EXCEPT !.phase = "Idle"] = NoOp
  BY DEF NoOp
<1> QED
  BY <1>1

(* An operator with its key and count filled in is one.                    *)
LEMMA OpPending ==
    ASSUME NEW p \in Pending, NEW o \in OperatorKeys \cup CaseKeys, NEW n \in Nat
    PROVE  [p EXCEPT !.phase = "Op", !.own = o, !.op_count = n] \in Pending
  BY DEF Pending

(* The editor starts quiet.                                                *)
LEMMA InitKeys == Init => KeysInv
<1> SUFFICES ASSUME Init PROVE KeysInv
  OBVIOUS
<1>1. op = NoOp /\ NoOp \in Pending /\ op.op_count = 0 /\ op.motion_count = 0
  BY NoOpPending DEF Init
<1>2. TypeOK
  BY <1>1, ZeroFits DEF Init, TypeOK
<1>3. OneOwner
  BY <1>1 DEF Init, OneOwner, NoOp
<1>4. InsertIsClean
  BY DEF Init, InsertIsClean
<1>5. MotionCountCapped
  BY <1>1 DEF MotionCountCapped
<1> QED
  BY <1>2, <1>3, <1>4, <1>5 DEF KeysInv
-----------------------------------------------------------------------------
(* An idle operator holds at most a register's name.                       *)
LEMMA IdleOperator ==
    ASSUME KeysInv, op.phase = "Idle"
    PROVE  op = [NoOp EXCEPT !.named = op.named]
<1>1. op = [NoOp EXCEPT !.phase = "Idle", !.named = op.named]
  BY DEF KeysInv, OneOwner
<1> QED
  BY <1>1, NoOpIsIdle

(* A digit of the count prefix.                                            *)
LEMMA CountDigitStep ==
    ASSUME KeysInv, NEW k, CountDigit(k)
    PROVE  KeysInv'
<1>1. TypeOK'
  <2>1. count_prefix * 10 + Value[k] \in Nat
    BY DigitValue DEF KeysInv, TypeOK, CountDigit
  <2>2. count_prefix' \in 0..(CountMod - 1)
    BY <2>1, Wraps DEF CountDigit
  <2> QED
    BY <2>2 DEF KeysInv, TypeOK, CountDigit
<1>2. OneOwner'
  BY DEF KeysInv, OneOwner, CountDigit, Free
<1>3. InsertIsClean'
  BY DEF InsertIsClean, CountDigit
<1>4. MotionCountCapped'
  BY DEF KeysInv, MotionCountCapped, CountDigit
<1> QED
  BY <1>1, <1>2, <1>3, <1>4 DEF KeysInv

(* A command that is complete: what enters insert mode consumes the count. *)
LEMMA CompleteStep ==
    ASSUME KeysInv, NEW k, Complete(k)
    PROVE  KeysInv'
<1>1. TypeOK'
  BY DEF KeysInv, TypeOK, Complete
<1>2. OneOwner'
  BY DEF KeysInv, OneOwner, Complete
<1>3. InsertIsClean'
  <2>1. op = [NoOp EXCEPT !.named = op.named]
    BY IdleOperator DEF Complete, FreeKey, Free
  <2> QED
    BY <2>1 DEF InsertIsClean, Complete, FreeKey, Free, Quiet
<1>4. MotionCountCapped'
  BY DEF KeysInv, MotionCountCapped, Complete
<1> QED
  BY <1>1, <1>2, <1>3, <1>4 DEF KeysInv

(* A key that names no command.                                            *)
LEMMA UnmappedStep ==
    ASSUME KeysInv, NEW k, Unmapped(k)
    PROVE  KeysInv'
<1>1. TypeOK'
  BY DEF KeysInv, TypeOK, Unmapped
<1>2. OneOwner'
  BY DEF KeysInv, OneOwner, Unmapped
<1>3. InsertIsClean'
  BY DEF InsertIsClean, Unmapped, FreeKey
<1>4. MotionCountCapped'
  BY DEF KeysInv, MotionCountCapped, Unmapped
<1> QED
  BY <1>1, <1>2, <1>3, <1>4 DEF KeysInv

(* The first key of g, z and f.                                            *)
LEMMA ArmStep ==
    ASSUME KeysInv, NEW k, Arm(k)
    PROVE  KeysInv'
<1>1. TypeOK'
  BY DEF KeysInv, TypeOK, Arm
<1>2. OneOwner'
  BY DEF KeysInv, OneOwner, Arm, FreeKey, Free
<1>3. InsertIsClean'
  BY DEF InsertIsClean, Arm, FreeKey
<1>4. MotionCountCapped'
  BY DEF KeysInv, MotionCountCapped, Arm
<1> QED
  BY <1>1, <1>2, <1>3, <1>4 DEF KeysInv

(* An operator's key or the register prefix.                               *)
LEMMA ArmOperatorStep ==
    ASSUME KeysInv, NEW k, ArmOperator(k)
    PROVE  KeysInv'
<1>1. TypeOK'
  <2>1. CASE k = "\""
    BY <2>1 DEF KeysInv, TypeOK, ArmOperator, Pending
  <2>2. CASE k # "\""
    <3>1. k \in OperatorKeys
      BY <2>2 DEF ArmOperator, Kind
    <3>2. op' = [op EXCEPT !.phase = "Op", !.own = k, !.op_count = count_prefix]
      BY <2>2 DEF ArmOperator
    <3>3. count_prefix \in Nat /\ count_prefix < CountMod /\ op \in Pending
      BY DEF KeysInv, TypeOK
    <3>4. op' \in Pending
      BY <3>1, <3>2, <3>3, OpPending
    <3>5. op'.op_count = count_prefix
      BY <3>2, <3>3
    <3> QED
      BY <2>2, <3>3, <3>4, <3>5, ZeroFits DEF KeysInv, TypeOK, ArmOperator
  <2> QED
    BY <2>1, <2>2
<1>2. OneOwner'
  BY DEF KeysInv, OneOwner, ArmOperator, FreeKey, Free, NoOp
<1>3. InsertIsClean'
  BY DEF InsertIsClean, ArmOperator, FreeKey
<1>4. MotionCountCapped'
  BY DEF KeysInv, OneOwner, MotionCountCapped, ArmOperator, FreeKey, Free, NoOp
<1> QED
  BY <1>1, <1>2, <1>3, <1>4 DEF KeysInv

(* The key after g.                                                        *)
LEMMA GgSecondStep ==
    ASSUME KeysInv, NEW k, GgSecond(k)
    PROVE  KeysInv'
<1>1. TypeOK'
  <2>1. op' \in Pending /\ op'.op_count < CountMod
    <3>1. count_prefix \in Nat /\ count_prefix < CountMod
      BY DEF KeysInv, TypeOK
    <3>2. CASE k \in CaseKeys
      <4>1. op' = [NoOp EXCEPT !.phase = "Op", !.own = k, !.op_count = count_prefix]
        BY <3>2 DEF GgSecond
      <4>2. op' \in Pending
        BY <3>1, <3>2, <4>1, NoOpPending, OpPending
      <4>3. op'.op_count = count_prefix
        BY <4>1, NoOpPending
      <4> QED
        BY <3>1, <4>2, <4>3
    <3>3. CASE k \notin CaseKeys
      BY <3>3 DEF KeysInv, TypeOK, GgSecond
    <3> QED
      BY <3>2, <3>3
  <2> QED
    BY <2>1, ZeroFits DEF KeysInv, TypeOK, GgSecond
<1>2. OneOwner'
  BY NoOpPending DEF KeysInv, OneOwner, GgSecond, NoOp
<1>3. InsertIsClean'
  BY DEF InsertIsClean, GgSecond
<1>4. MotionCountCapped'
  BY NoOpPending DEF KeysInv, OneOwner, MotionCountCapped, GgSecond, NoOp
<1> QED
  BY <1>1, <1>2, <1>3, <1>4 DEF KeysInv

(* The key after z.                                                        *)
LEMMA ZSecondStep ==
    ASSUME KeysInv, NEW k, ZSecond(k)
    PROVE  KeysInv'
<1>1. TypeOK'
  BY ZeroFits DEF KeysInv, TypeOK, ZSecond
<1>2. OneOwner'
  BY DEF KeysInv, OneOwner, ZSecond
<1>3. InsertIsClean'
  BY DEF InsertIsClean, ZSecond
<1>4. MotionCountCapped'
  BY DEF KeysInv, MotionCountCapped, ZSecond
<1> QED
  BY <1>1, <1>2, <1>3, <1>4 DEF KeysInv

(* The key after f.                                                        *)
LEMMA FindSecondStep ==
    ASSUME KeysInv, NEW k, FindSecond(k)
    PROVE  KeysInv'
<1>1. TypeOK'
  BY ZeroFits DEF KeysInv, TypeOK, FindSecond
<1>2. OneOwner'
  BY DEF KeysInv, OneOwner, FindSecond
<1>3. InsertIsClean'
  BY DEF InsertIsClean, FindSecond
<1>4. MotionCountCapped'
  BY DEF KeysInv, MotionCountCapped, FindSecond
<1> QED
  BY <1>1, <1>2, <1>3, <1>4 DEF KeysInv

(* A digit of the motion count.                                            *)
LEMMA OperatorCountDigitStep ==
    ASSUME KeysInv, NEW k, OperatorCountDigit(k)
    PROVE  KeysInv'
<1>1. TypeOK'
  <2>1. CASE op.motion_count > DigitLimit
    BY <2>1, NoOpPending, ZeroFits DEF KeysInv, TypeOK, OperatorCountDigit
  <2>2. CASE ~(op.motion_count > DigitLimit)
    <3>1. op.motion_count * 10 + Value[k] \in Nat
      BY DigitValue DEF KeysInv, TypeOK, Pending, OperatorCountDigit, MotionDigit
    <3>2. op' = [op EXCEPT !.motion_count = op.motion_count * 10 + Value[k]]
      BY <2>2 DEF OperatorCountDigit
    <3>3. op' \in Pending /\ op'.op_count < CountMod
      BY <3>1, <3>2 DEF KeysInv, TypeOK, Pending
    <3> QED
      BY <2>2, <3>3 DEF KeysInv, TypeOK, OperatorCountDigit
  <2> QED
    BY <2>1, <2>2
<1>2. OneOwner'
  BY DigitValue, NoOpPending DEF KeysInv, TypeOK, OneOwner, OperatorCountDigit, MotionDigit, Pending
<1>3. InsertIsClean'
  BY DEF InsertIsClean, OperatorCountDigit, Owned
<1>4. MotionCountCapped'
  BY DigitValue, NoOpPending
     DEF KeysInv, TypeOK, MotionCountCapped, OperatorCountDigit, MotionDigit, Pending
<1> QED
  BY <1>1, <1>2, <1>3, <1>4 DEF KeysInv

(* The key after the register prefix.                                      *)
LEMMA RegisterNameStep ==
    ASSUME KeysInv, NEW k, RegisterName(k)
    PROVE  KeysInv'
<1>1. TypeOK'
  <2>1. op' \in Pending /\ op'.op_count < CountMod
    BY DEF KeysInv, TypeOK, Pending, RegisterName
  <2> QED
    BY <2>1, ZeroFits DEF KeysInv, TypeOK, RegisterName
<1>2. OneOwner'
  BY DEF KeysInv, OneOwner, RegisterName
<1>3. InsertIsClean'
  BY DEF InsertIsClean, RegisterName, OperatorKey, Owned
<1>4. MotionCountCapped'
  BY DEF KeysInv, MotionCountCapped, RegisterName
<1> QED
  BY <1>1, <1>2, <1>3, <1>4 DEF KeysInv

(* A prefix inside the operator.                                           *)
LEMMA PrefixStep ==
    ASSUME KeysInv, NEW k, Prefix(k)
    PROVE  KeysInv'
<1>1. TypeOK'
  BY DEF KeysInv, TypeOK, Prefix, Pending
<1>2. OneOwner'
  BY DEF KeysInv, TypeOK, OneOwner, Prefix, Pending
<1>3. InsertIsClean'
  BY DEF InsertIsClean, Prefix, OperatorKey, Owned
<1>4. MotionCountCapped'
  BY DEF KeysInv, TypeOK, MotionCountCapped, Prefix, Pending
<1> QED
  BY <1>1, <1>2, <1>3, <1>4 DEF KeysInv

(* The end of the operator.                                                *)
LEMMA FinishStep ==
    ASSUME KeysInv, NEW k, Finish(k)
    PROVE  KeysInv'
<1>1. TypeOK'
  BY NoOpPending DEF KeysInv, TypeOK, Finish
<1>2. OneOwner'
  BY NoOpPending DEF OneOwner, Finish, OperatorKey, Owned, NoOp
<1>3. InsertIsClean'
  BY NoOpPending DEF InsertIsClean, Finish, OperatorKey, Owned, Free, Quiet, NoOp
<1>4. MotionCountCapped'
  BY NoOpPending DEF MotionCountCapped, Finish
<1> QED
  BY <1>1, <1>2, <1>3, <1>4 DEF KeysInv

(* The keys of insert mode.                                                *)
LEMMA InsertModeKeyStep ==
    ASSUME KeysInv, NEW k, InsertModeKey(k)
    PROVE  KeysInv'
<1>1. TypeOK'
  BY DEF KeysInv, TypeOK, InsertIsClean, InsertModeKey, Quiet
<1>2. OneOwner'
  BY DEF KeysInv, OneOwner, InsertModeKey
<1>3. InsertIsClean'
  BY DEF KeysInv, InsertIsClean, InsertModeKey, Free, Quiet
<1>4. MotionCountCapped'
  BY DEF KeysInv, MotionCountCapped, InsertModeKey
<1> QED
  BY <1>1, <1>2, <1>3, <1>4 DEF KeysInv

(* Every key preserves the invariant.                                      *)
LEMMA PressStep ==
    ASSUME KeysInv, NEW k, Press(k)
    PROVE  KeysInv'
  BY CountDigitStep, CompleteStep, UnmappedStep, ArmStep, ArmOperatorStep, GgSecondStep,
     ZSecondStep, FindSecondStep, OperatorCountDigitStep, RegisterNameStep, PrefixStep,
     FinishStep, InsertModeKeyStep DEF Press

(* So does every step.                                                     *)
LEMMA NextKeys == KeysInv /\ [Next]_keyVars => KeysInv'
<1> SUFFICES ASSUME KeysInv, [Next]_keyVars PROVE KeysInv'
  OBVIOUS
<1>1. CASE Next
  BY <1>1, PressStep DEF Next
<1>2. CASE UNCHANGED keyVars
  BY <1>2 DEF keyVars, KeysInv, TypeOK, OneOwner, InsertIsClean, MotionCountCapped, Quiet, Free
<1> QED
  BY <1>1, <1>2

(* The invariant holds in every state the keys lead to.                    *)
THEOREM KeysInvariant == Spec => []KeysInv
<1> QED
  BY InitKeys, NextKeys, PTL DEF Spec

(* The counts stay in their types whatever is typed, the wrapped count     *)
(* prefix (reducer.cpp, CountDigit) and the operator's copy of it.         *)
THEOREM CountsFit == Spec => []TypeOK
<1>1. KeysInv => TypeOK
  BY DEF KeysInv
<1> QED
  BY <1>1, KeysInvariant, PTL

(* No two prefixes are ever armed together (command_for_key asks them in   *)
(* turn), and an armed operator has the count prefix.                      *)
THEOREM OnePrefixAtATime == Spec => []OneOwner
<1>1. KeysInv => OneOwner
  BY DEF KeysInv
<1> QED
  BY <1>1, KeysInvariant, PTL

(* Whatever leads to insert mode leaves nothing half-typed behind it.      *)
THEOREM InsertStartsClean == Spec => []InsertIsClean
<1>1. KeysInv => InsertIsClean
  BY DEF KeysInv
<1> QED
  BY <1>1, KeysInvariant, PTL

(* The cap of OperatorCountDigit bounds the motion count for every limit.  *)
THEOREM MotionCountIsCapped == Spec => []MotionCountCapped
<1>1. KeysInv => MotionCountCapped
  BY DEF KeysInv
<1> QED
  BY <1>1, KeysInvariant, PTL

-----------------------------------------------------------------------------
(* The commands after which something may still be due.                    *)
Unsettled == {"None", "CountDigit", "OperatorCountDigit", "GgArm", "ZArm", "FindArm",
              "OperatorKey", "CaseOp"}

(* A key whose command ran or was cancelled leaves the machine quiet.      *)
LEMMA PressSettles ==
    ASSUME KeysInv, NEW k, Press(k)
    PROVE  cmd' \in Unsettled \/ Quiet'
<1>1. CASE CountDigit(k) \/ Unmapped(k) \/ Arm(k) \/ ArmOperator(k)
  BY <1>1 DEF CountDigit, Unmapped, Arm, ArmOperator, FreeKey, Unsettled
<1>2. CASE OperatorCountDigit(k) \/ RegisterName(k) \/ Prefix(k) \/ Finish(k)
  BY <1>2 DEF OperatorCountDigit, RegisterName, Prefix, Finish, OperatorKey, Unsettled
<1>3. CASE Complete(k)
  BY <1>3, IdleOperator DEF Complete, FreeKey, Free, Quiet
<1>4. CASE GgSecond(k)
  <2>1. op.phase = "Idle" /\ ~z_pending /\ ~find_pending
    BY <1>4 DEF KeysInv, OneOwner, GgSecond
  <2> QED
    BY <1>4, <2>1, IdleOperator DEF GgSecond, Quiet, Free, Unsettled
<1>5. CASE ZSecond(k)
  <2>1. op.phase = "Idle" /\ ~find_pending
    BY <1>5 DEF KeysInv, OneOwner, ZSecond
  <2> QED
    BY <1>5, <2>1, IdleOperator DEF ZSecond, Quiet, Free
<1>6. CASE FindSecond(k)
  <2>1. op.phase = "Idle"
    BY <1>6 DEF KeysInv, OneOwner, FindSecond
  <2> QED
    BY <1>6, <2>1, IdleOperator DEF FindSecond, Quiet, Free
<1>7. CASE InsertModeKey(k)
  BY <1>7 DEF KeysInv, InsertIsClean, InsertModeKey, Quiet, Free
<1> QED
  BY <1>1, <1>2, <1>3, <1>4, <1>5, <1>6, <1>7 DEF Press

(* After a key the machine is at rest unless the key is a prefix, a count  *)
(* or part of an operator, or names no command (reducer.cpp, the consumed  *)
(* count).                                                                 *)
THEOREM KeysSettle == Spec => Settles
<1>1. KeysInv /\ [Next]_keyVars => [cmd' \in Unsettled \/ Quiet']_keyVars
  BY PressSettles DEF Next
<1> QED
  BY <1>1, KeysInvariant, PTL DEF Spec, Settles, Unsettled

(* An operator under way owns every key: it grows or it is gone, with its  *)
(* counts and its register (operator.cpp, step, and the clear in reducer). *)
THEOREM OperatorsEnd == Spec => OperatorEnds
<1>1. ASSUME KeysInv, NEW k, Press(k), op.phase = "Op"
      PROVE  (op'.phase = "Op" /\ op' # op) \/ (Quiet' /\ ~op'.named)
  <2>1. mode = "Normal" /\ ~gg_pending /\ ~z_pending /\ ~find_pending
    BY <1>1 DEF KeysInv, TypeOK, OneOwner, InsertIsClean, Quiet, Free
  <2>2. OperatorCountDigit(k) \/ Prefix(k) \/ Finish(k)
    BY <1>1, <2>1 DEF Press, CountDigit, Complete, Unmapped, Arm, ArmOperator, FreeKey, Free,
                      GgSecond, ZSecond, FindSecond, RegisterName, InsertModeKey
  <2>3. ASSUME op' = NoOp, count_prefix' = 0, UNCHANGED <<gg_pending, z_pending, find_pending>>
        PROVE  Quiet' /\ ~op'.named
    BY <2>1, <2>3 DEF Quiet, Free, NoOp
  <2>4. CASE OperatorCountDigit(k)
    <3>1. CASE op.motion_count > DigitLimit
      BY <2>3, <2>4, <3>1 DEF OperatorCountDigit
    <3>2. CASE ~(op.motion_count > DigitLimit)
      <4>1. op' = [op EXCEPT !.motion_count = op.motion_count * 10 + Value[k]]
        BY <2>4, <3>2 DEF OperatorCountDigit
      <4>2. op \in Pending /\ op.motion_count \in Nat
        BY <1>1 DEF KeysInv, TypeOK, Pending
      <4>3. op'.phase = "Op" /\ op'.motion_count = op.motion_count * 10 + Value[k]
        BY <1>1, <4>1, <4>2 DEF Pending
      <4>4. Value[k] \in Nat /\ (op.motion_count # 0 \/ Value[k] # 0)
        BY <2>4, DigitValue DEF OperatorCountDigit, MotionDigit
      <4> QED
        BY <4>2, <4>3, <4>4
    <3> QED
      BY <3>1, <3>2
  <2>5. CASE Prefix(k)
    <3>1. op \in Pending
      BY <1>1 DEF KeysInv, TypeOK
    <3>2. CASE Expects(k) = "g_armed"
      <4>1. ~op.g_armed
        BY <3>2 DEF Expects
      <4> QED
        BY <1>1, <2>5, <3>1, <3>2, <4>1 DEF Prefix, Pending
    <3>3. CASE Expects(k) = "want_char"
      <4>1. ~op.want_char
        BY <3>3 DEF Expects
      <4> QED
        BY <1>1, <2>5, <3>1, <3>3, <4>1 DEF Prefix, Pending
    <3>4. CASE Expects(k) = "want_object"
      <4>1. ~op.want_object
        BY <3>4 DEF Expects
      <4> QED
        BY <1>1, <2>5, <3>1, <3>4, <4>1 DEF Prefix, Pending
    <3> QED
      BY <2>5, <3>2, <3>3, <3>4 DEF Prefix
  <2>6. CASE Finish(k)
    BY <2>3, <2>6 DEF Finish
  <2> QED
    BY <2>2, <2>4, <2>5, <2>6
<1>2. KeysInv /\ [Next]_keyVars =>
        [op.phase = "Op" => (op'.phase = "Op" /\ op' # op) \/ (Quiet' /\ ~op'.named)]_keyVars
  BY <1>1 DEF Next
<1> QED
  BY <1>2, KeysInvariant, PTL DEF Spec, OperatorEnds

(* Esc cancels what is due, ends the operator or leaves insert mode.       *)
LEMMA EscPress ==
    ASSUME KeysInv, Press("Esc")
    PROVE  mode' = "Normal" /\ Free'
<1>1. ~IsChar("Esc") /\ Expects("Esc") = "cancel" /\ InsertKind("Esc") = "LeaveInsert"
  BY DEF IsChar, OtherKeys, Expects, InsertKind
<1>2. Kind("Esc") = "None"
  BY DEF Kind, MotionKeys, OpMotions, RepeatKeys, ScrollKeys, FindKeys, OperatorKeys
<1>3. "Esc" \notin Digits /\ "Esc" \notin CaseKeys
  BY DEF Digits, Value, CaseKeys
<1>4. CASE Unmapped("Esc")
  BY <1>4 DEF Unmapped, FreeKey, Free
<1>5. CASE GgSecond("Esc")
  BY <1>3, <1>5 DEF GgSecond, KeysInv, OneOwner, Free
<1>6. CASE ZSecond("Esc") \/ FindSecond("Esc")
  BY <1>6 DEF ZSecond, FindSecond, KeysInv, OneOwner, Free
<1>7. CASE RegisterName("Esc")
  BY <1>7 DEF RegisterName, OperatorKey, Owned, Free, KeysInv, TypeOK, Pending
<1>8. CASE Finish("Esc")
  BY <1>1, <1>8, NoOpPending DEF Finish, OperatorKey, Owned, Free
<1>9. CASE InsertModeKey("Esc")
  BY <1>1, <1>9 DEF InsertModeKey, KeysInv, InsertIsClean, Quiet, Free
<1> QED
  BY <1>1, <1>2, <1>3, <1>4, <1>5, <1>6, <1>7, <1>8, <1>9
     DEF Press, CountDigit, Complete, Arm, ArmOperator, OperatorCountDigit, MotionDigit, Prefix

(* Esc gets out of insert mode, of every prefix and of an operator, from   *)
(* every state the machine reaches (command_for_key and step).  What it    *)
(* does to a count that stands alone, which it keeps, is not said.         *)
THEOREM EscAlwaysFrees == Spec => EscFrees
<1>1. KeysInv /\ [Next]_keyVars => [Press("Esc") => mode' = "Normal" /\ Free']_keyVars
  BY EscPress
<1> QED
  BY <1>1, KeysInvariant, PTL DEF Spec, EscFrees

-----------------------------------------------------------------------------
(* Behind the decoder.                                                     *)
MarkerBytes == {"ESC", "[", "2", "0", "1", "~"}
DecoderStates == {"Idle", "EscSeen", "CsiDigits", "PasteData"}

(* While the terminal sends a paste the decoder is in it, or has read of   *)
(* the begin marker what is not still to come.                             *)
PasteBegun ==
    sending = "pasted" =>
        \/ dec.st = "PasteData"
        \/ marker = <<"[", "2", "0", "0", "~">> /\ dec.st = "EscSeen"
        \/ marker = <<"2", "0", "0", "~">> /\ dec.st = "CsiDigits" /\ dec.num = 0
        \/ marker = <<"0", "0", "~">> /\ dec.st = "CsiDigits" /\ dec.num = 2
        \/ marker = <<"0", "~">> /\ dec.st = "CsiDigits" /\ dec.num = 20
        \/ marker = <<"~">> /\ dec.st = "CsiDigits" /\ dec.num = 200

InputInv ==
    /\ KeysInv /\ PastingEnds /\ PasteBegun
    /\ dec \in [st : DecoderStates, num : Nat]
    /\ sending \in {"typed", "pasted"} /\ marker \in Seq(MarkerBytes)

(* What the decoder makes of a byte or a key code: it leaves a paste only  *)
(* with its end, never with an Esc, and says so when it enters one.        *)
Proper(fed) ==
    /\ fed.dec \in [st : DecoderStates, num : Nat]
    /\ dec.st = "PasteData" =>
          fed.key # "Esc" /\ (fed.key = "PasteEnd" \/ fed.dec.st = "PasteData")
    /\ fed.key = "PasteBegin" => fed.dec.st = "PasteData"

(* The parts of what the decoder gives.                                    *)
LEMMA FedParts ==
    ASSUME NEW st, NEW num, NEW key
    PROVE  /\ Fed(st, num, key).dec = [st |-> st, num |-> num]
           /\ Fed(st, num, key).dec.st = st /\ Fed(st, num, key).dec.num = num
           /\ Fed(st, num, key).key = key
  BY DEF Fed

(* What is fed in a state of the decoder and with a key that goes with it. *)
LEMMA FedProper ==
    ASSUME NEW st \in DecoderStates, NEW num \in Nat, NEW key,
           dec.st = "PasteData" => key # "Esc" /\ (key = "PasteEnd" \/ st = "PasteData"),
           key = "PasteBegin" => st = "PasteData"
    PROVE  Proper(Fed(st, num, key))
<1> DEFINE fed == Fed(st, num, key)
<1>1. fed.dec = [st |-> st, num |-> num] /\ fed.key = key
  BY FedParts
<1>2. [st |-> st, num |-> num] \in [st : DecoderStates, num : Nat]
  OBVIOUS
<1>3. fed.dec.st = st
  BY <1>1
<1> HIDE DEF fed
<1>4. Proper(fed)
  BY <1>1, <1>2, <1>3 DEF Proper
<1> QED
  BY <1>4 DEF fed

(* A byte outside a paste and outside a sequence.                          *)
LEMMA FeedPlainProper ==
    ASSUME NEW d \in [st : DecoderStates, num : Nat], dec.st # "PasteData",
           NEW b \in Typed \cup Pasted \cup MarkerBytes
    PROVE  Proper(FeedPlain(d, b))
<1>1. DecodeChar(b) # "PasteBegin"
  BY InputAssumption DEF DecodeChar, MarkerBytes, OtherKeys, CtrlKeys
<1>2. CASE d.st = "EscSeen" /\ b = "["
  <2>1. FeedPlain(d, b) = Fed("CsiDigits", 0, "None")
    BY <1>2 DEF FeedPlain
  <2> QED
    BY <2>1, FedProper DEF DecoderStates
<1>3. CASE ~(d.st = "EscSeen" /\ b = "[")
  <2>1. PICK st \in {"EscSeen", "Idle"} : FeedPlain(d, b) = Fed(st, d.num, DecodeChar(b))
    BY <1>3 DEF FeedPlain
  <2> QED
    BY <1>1, <2>1, FedProper DEF DecoderStates
<1> QED
  BY <1>2, <1>3

(* A byte, wherever the decoder is.                                        *)
LEMMA FeedProper ==
    ASSUME dec \in [st : DecoderStates, num : Nat], NEW b \in Typed \cup Pasted \cup MarkerBytes
    PROVE  Proper(Feed(dec, b))
<1>1. dec.num \in Nat /\ dec.st \in DecoderStates
  OBVIOUS
<1>2. CASE dec.st = "PasteData"
  <2>1. Raw(b) # "Esc" /\ Raw(b) # "PasteBegin"
    BY InputAssumption DEF Raw, MarkerBytes, OtherKeys, CtrlKeys
  <2>2. Feed(dec, b) = Fed("PasteData", dec.num, Raw(b))
    BY <1>2 DEF Feed
  <2> QED
    BY <1>1, <1>2, <2>1, <2>2, FedProper
<1>3. CASE dec.st = "CsiDigits"
  <2>1. Feed(dec, b) = FeedCsi(dec, b)
    BY <1>3 DEF Feed
  <2>2. CASE b \in Digits
    <3>1. (dec.num * 10 + Value[b]) % CsiMod \in Nat
      BY <1>1, <2>2, DigitValue, InputAssumption
    <3>2. Feed(dec, b) = Fed("CsiDigits", (dec.num * 10 + Value[b]) % CsiMod, "None")
      BY <2>1, <2>2 DEF FeedCsi
    <3> QED
      BY <1>3, <3>1, <3>2, FedProper DEF DecoderStates
  <2>3. CASE b \notin Digits /\ b # "~"
    <3>1. [st |-> "Idle", num |-> 0] \in [st : DecoderStates, num : Nat]
      BY DEF DecoderStates
    <3>2. Feed(dec, b) = FeedPlain([st |-> "Idle", num |-> 0], b)
      BY <2>1, <2>3 DEF FeedCsi
    <3> QED
      BY <1>3, <3>1, <3>2, FeedPlainProper
  <2>4. CASE b = "~"
    <3>1. b \notin Digits
      BY <2>4 DEF Digits, Value
    <3>2. \/ Feed(dec, b) = Fed("PasteData", dec.num, "PasteBegin")
          \/ Feed(dec, b) = Fed("Idle", dec.num, "PasteEnd")
          \/ Feed(dec, b) = Fed("Idle", 0, "Unknown")
      BY <2>1, <2>4, <3>1 DEF FeedCsi
    <3> QED
      BY <1>1, <1>3, <3>2, FedProper DEF DecoderStates
  <2> QED
    BY <2>2, <2>3, <2>4
<1>4. CASE dec.st \notin {"PasteData", "CsiDigits"}
  <2>1. Feed(dec, b) = FeedPlain(dec, b)
    BY <1>4 DEF Feed
  <2> QED
    BY <1>4, <2>1, FeedPlainProper
<1> QED
  BY <1>2, <1>3, <1>4

(* A key code, wherever the decoder is.                                    *)
LEMMA KeyCodeProper ==
    ASSUME dec \in [st : DecoderStates, num : Nat],
           NEW k \in FunctionKeys \cup {"PasteBegin", "PasteEnd"}
    PROVE  Proper(FeedKeyCode(dec, k))
<1>1. k # "Esc" /\ (k \in FunctionKeys => k # "PasteBegin" /\ k # "PasteEnd")
  BY InputAssumption DEF KeyCodes
<1>2. PICK num \in Nat :
        FeedKeyCode(dec, k) =
          IF k = "PasteBegin" THEN Fed("PasteData", num, k)
          ELSE IF k = "PasteEnd" \/ dec.st = "CsiDigits" THEN Fed("Idle", num, k)
          ELSE Fed(dec.st, num, k)
  BY DEF FeedKeyCode
<1>3. CASE k = "PasteBegin"
  BY <1>2, <1>3, FedProper DEF DecoderStates
<1>4. CASE k = "PasteEnd"
  BY <1>2, <1>4, FedProper DEF DecoderStates
<1>5. CASE k \notin {"PasteBegin", "PasteEnd"} /\ dec.st = "CsiDigits"
  BY <1>1, <1>2, <1>5, FedProper DEF DecoderStates
<1>6. CASE k \notin {"PasteBegin", "PasteEnd"} /\ dec.st # "CsiDigits"
  BY <1>1, <1>2, <1>6, FedProper
<1> QED
  BY <1>3, <1>4, <1>5, <1>6

(* A key that was read keeps the keys' invariant and ends no paste but its *)
(* own.                                                                    *)
LEMMA ReadStep ==
    ASSUME InputInv, NEW fed, Proper(fed), Read(fed)
    PROVE  KeysInv' /\ PastingEnds' /\ dec' = fed.dec
<1>1. KeysInv'
  <2>1. CASE UNCHANGED keyVars
    BY <2>1 DEF InputInv, keyVars, KeysInv, TypeOK, OneOwner, InsertIsClean, MotionCountCapped,
                Quiet, Free
  <2>2. CASE Press(fed.key)
    BY <2>2, PressStep DEF InputInv
  <2> QED
    BY <2>1, <2>2 DEF Read, Dispatch
<1>2. PastingEnds'
  <2>1. CASE UNCHANGED keyVars /\ fed.key \in {"None", "Resize"}
    BY <2>1 DEF InputInv, PastingEnds, Proper, Read, keyVars
  <2>2. CASE UNCHANGED keyVars /\ mode = "Normal"
    BY <2>2 DEF InputInv, PastingEnds, keyVars
  <2>3. CASE Press(fed.key) /\ mode # "Insert"
    <3>1. pasting' = pasting
      BY <2>3 DEF Press, CountDigit, Complete, Unmapped, Arm, ArmOperator, GgSecond, ZSecond,
                  FindSecond, OperatorCountDigit, RegisterName, Prefix, Finish, InsertModeKey
    <3> QED
      BY <2>3, <3>1 DEF InputInv, PastingEnds
  <2>4. CASE Press(fed.key) /\ mode = "Insert"
    <3>1. InsertModeKey(fed.key)
      BY <2>4 DEF Press, CountDigit, Complete, Unmapped, Arm, ArmOperator, FreeKey, GgSecond, ZSecond,
                  FindSecond, OperatorCountDigit, RegisterName, Prefix, Finish, OperatorKey, Owned
    <3>2. CASE fed.key = "PasteBegin"
      <4>1. InsertKind(fed.key) = "PasteBegin"
        BY <3>2 DEF InsertKind, IsChar, OtherKeys
      <4> QED
        BY <2>4, <3>1, <3>2, <4>1 DEF InsertModeKey, PastingEnds, Proper, Read
    <3>3. CASE fed.key = "PasteEnd"
      <4>1. InsertKind(fed.key) = "PasteEnd"
        BY <3>3 DEF InsertKind, IsChar, OtherKeys
      <4> QED
        BY <3>1, <4>1 DEF InsertModeKey, PastingEnds
    <3>4. CASE fed.key \notin {"PasteBegin", "PasteEnd"}
      <4>1. InsertKind(fed.key) # "PasteBegin"
        BY <3>4 DEF InsertKind
      <4>2. fed.key # "Esc" => InsertKind(fed.key) # "LeaveInsert"
        BY DEF InsertKind
      <4> QED
        BY <2>4, <3>1, <3>4, <4>1, <4>2 DEF InsertModeKey, InputInv, PastingEnds, Proper, Read
    <3> QED
      BY <3>2, <3>3, <3>4
  <2>5. mode \in {"Normal", "Insert"}
    BY DEF InputInv, KeysInv, TypeOK
  <2> QED
    BY <2>1, <2>2, <2>3, <2>4 DEF Read, Dispatch
<1> QED
  BY <1>1, <1>2 DEF Read

-----------------------------------------------------------------------------
(* The terminal is silent and nothing is pasted at the start.              *)
LEMMA InitInput == InputInit => InputInv
<1> SUFFICES ASSUME InputInit PROVE InputInv
  OBVIOUS
<1>1. KeysInv /\ PastingEnds
  BY InitKeys DEF InputInit, PastingEnds, Init
<1>2. PasteBegun /\ sending \in {"typed", "pasted"}
  BY DEF InputInit, PasteBegun
<1>3. dec \in [st : DecoderStates, num : Nat]
  BY DEF InputInit, DecoderStates
<1>4. marker \in Seq(MarkerBytes)
  BY DEF InputInit
<1> QED
  BY <1>1, <1>2, <1>3, <1>4 DEF InputInv

(* In a paste a byte is fed as it is, and the paste goes on.               *)
LEMMA FeedInPaste ==
    ASSUME dec.st = "PasteData", NEW b
    PROVE  Feed(dec, b).dec.st = "PasteData" /\ Feed(dec, b).key = Raw(b)
<1>1. Feed(dec, b) = Fed("PasteData", dec.num, Raw(b))
  BY DEF Feed
<1> QED
  BY <1>1 DEF Fed

(* A key of the keyboard does not end a paste.                             *)
LEMMA FunctionKeyInPaste ==
    ASSUME dec.st = "PasteData", NEW k \in FunctionKeys
    PROVE  FeedKeyCode(dec, k).dec.st = "PasteData"
<1>1. k # "PasteBegin" /\ k # "PasteEnd"
  BY InputAssumption DEF KeyCodes
<1>2. FeedKeyCode(dec, k) = Fed("PasteData", dec.num, k)
  BY <1>1 DEF FeedKeyCode
<1> QED
  BY <1>2 DEF Fed

(* The bytes of the begin marker lead into the paste: 200 is no overflow.  *)
LEMMA MarkerLeadsIn ==
    ASSUME InputInv, sending = "pasted", marker # <<>>,
           dec' = Feed(dec, Head(marker)).dec, marker' = Tail(marker), sending' = sending
    PROVE  PasteBegun'
<1>1. CASE dec.st = "PasteData"
  BY <1>1, FeedInPaste DEF PasteBegun
<1>2. /\ Value["0"] = 0 /\ Value["2"] = 2 /\ {"0", "2"} \subseteq Digits
      /\ "~" \notin Digits
  BY DEF Digits, Value
<1>3. 2 % CsiMod = 2 /\ 20 % CsiMod = 20 /\ 200 % CsiMod = 200
  BY InputAssumption
<1>4. CASE marker = <<"[", "2", "0", "0", "~">> /\ dec.st = "EscSeen"
  <2>1. Head(marker) = "[" /\ Tail(marker) = <<"2", "0", "0", "~">>
    BY <1>4
  <2>2. Feed(dec, "[") = Fed("CsiDigits", 0, "None")
    BY <1>4 DEF Feed, FeedPlain
  <2>3. dec'.st = "CsiDigits" /\ dec'.num = 0
    BY <2>1, <2>2 DEF Fed
  <2> QED
    BY <2>1, <2>3 DEF PasteBegun
<1>5. CASE marker = <<"2", "0", "0", "~">> /\ dec.st = "CsiDigits" /\ dec.num = 0
  <2>1. Head(marker) = "2" /\ Tail(marker) = <<"0", "0", "~">>
    BY <1>5
  <2>2. Feed(dec, "2") = Fed("CsiDigits", 2, "None")
    BY <1>2, <1>3, <1>5 DEF Feed, FeedCsi
  <2>3. dec'.st = "CsiDigits" /\ dec'.num = 2
    BY <2>1, <2>2 DEF Fed
  <2> QED
    BY <2>1, <2>3 DEF PasteBegun
<1>6. CASE marker = <<"0", "0", "~">> /\ dec.st = "CsiDigits" /\ dec.num = 2
  <2>1. Head(marker) = "0" /\ Tail(marker) = <<"0", "~">>
    BY <1>6
  <2>2. Feed(dec, "0") = Fed("CsiDigits", 20, "None")
    BY <1>2, <1>3, <1>6 DEF Feed, FeedCsi
  <2>3. dec'.st = "CsiDigits" /\ dec'.num = 20
    BY <2>1, <2>2 DEF Fed
  <2> QED
    BY <2>1, <2>3 DEF PasteBegun
<1>7. CASE marker = <<"0", "~">> /\ dec.st = "CsiDigits" /\ dec.num = 20
  <2>1. Head(marker) = "0" /\ Tail(marker) = <<"~">>
    BY <1>7
  <2>2. Feed(dec, "0") = Fed("CsiDigits", 200, "None")
    BY <1>2, <1>3, <1>7 DEF Feed, FeedCsi
  <2>3. dec'.st = "CsiDigits" /\ dec'.num = 200
    BY <2>1, <2>2 DEF Fed
  <2> QED
    BY <2>1, <2>3 DEF PasteBegun
<1>8. CASE marker = <<"~">> /\ dec.st = "CsiDigits" /\ dec.num = 200
  <2>1. Head(marker) = "~"
    BY <1>8
  <2>2. Feed(dec, "~") = Fed("PasteData", dec.num, "PasteBegin")
    BY <1>2, <1>8 DEF Feed, FeedCsi
  <2>3. dec'.st = "PasteData"
    BY <2>1, <2>2 DEF Fed
  <2> QED
    BY <2>1, <2>3 DEF PasteBegun
<1> QED
  BY <1>1, <1>4, <1>5, <1>6, <1>7, <1>8 DEF InputInv, PasteBegun

(* Every byte and key code keeps the invariant.                            *)
LEMMA NextInput == InputInv /\ [InputNext]_vars => InputInv'
<1> SUFFICES ASSUME InputInv, [InputNext]_vars PROVE InputInv'
  OBVIOUS
<1> DEFINE Decoders == [st : DecoderStates, num : Nat]
<1>1. ASSUME NEW fed, Proper(fed), Read(fed)
      PROVE  KeysInv' /\ PastingEnds' /\ dec' = fed.dec /\ dec' \in Decoders
  BY <1>1, ReadStep DEF Proper
<1>2. dec \in Decoders /\ marker \in Seq(MarkerBytes) /\ sending \in {"typed", "pasted"}
  BY DEF InputInv
<1>3. ASSUME NEW b \in Typed \cup Pasted \cup MarkerBytes PROVE Proper(Feed(dec, b))
  BY <1>2, FeedProper
<1>4. ASSUME NEW k \in FunctionKeys \cup {"PasteBegin", "PasteEnd"} PROVE Proper(FeedKeyCode(dec, k))
  BY <1>2, KeyCodeProper
<1>5. "ESC" \in MarkerBytes
  BY DEF MarkerBytes
<1>6. CASE TypeByte
  <2>1. PasteBegun'
    BY <1>6 DEF TypeByte, PasteBegun
  <2> QED
    BY <1>1, <1>2, <1>3, <1>6, <2>1 DEF TypeByte, InputInv
<1>7. CASE PasteByte
  <2>1. dec.st = "PasteData"
    BY <1>7 DEF PasteByte, InputInv, PasteBegun
  <2>2. PICK b \in Pasted : Read(Feed(dec, b))
    BY <1>7 DEF PasteByte
  <2>3. dec'.st = "PasteData"
    BY <1>1, <1>3, <2>1, <2>2, FeedInPaste
  <2> QED
    BY <1>1, <1>2, <1>3, <1>7, <2>2, <2>3 DEF PasteByte, InputInv, PasteBegun
<1>8. CASE FunctionKey
  <2>1. PICK k \in FunctionKeys : Read(FeedKeyCode(dec, k))
    BY <1>8 DEF FunctionKey
  <2>2. sending = "pasted" => dec.st = "PasteData"
    BY <1>8 DEF FunctionKey, InputInv, PasteBegun
  <2>3. sending = "pasted" => dec'.st = "PasteData"
    BY <1>1, <1>4, <2>1, <2>2, FunctionKeyInPaste
  <2> QED
    BY <1>1, <1>2, <1>4, <1>8, <2>1, <2>3 DEF FunctionKey, InputInv, PasteBegun
<1>9. CASE PasteStarts
  <2>1. CASE marker' = <<>> /\ Read(FeedKeyCode(dec, "PasteBegin"))
    <3>1. PICK num : FeedKeyCode(dec, "PasteBegin") = Fed("PasteData", num, "PasteBegin")
      BY DEF FeedKeyCode
    <3>2. dec'.st = "PasteData"
      BY <1>1, <1>4, <2>1, <3>1 DEF Fed
    <3>3. marker' \in Seq(MarkerBytes)
      BY <2>1
    <3> QED
      BY <1>1, <1>4, <1>9, <2>1, <3>2, <3>3 DEF PasteStarts, InputInv, PasteBegun
  <2>2. CASE marker' = Tail(BeginMarker) /\ Read(Feed(dec, "ESC"))
    <3>1. marker' = <<"[", "2", "0", "0", "~">>
      BY <2>2 DEF BeginMarker
    <3>2. dec'.st = "PasteData" \/ dec'.st = "EscSeen"
      <4>1. CASE dec.st = "PasteData"
        BY <1>1, <1>3, <1>5, <2>2, <4>1, FeedInPaste
      <4>2. CASE dec.st # "PasteData"
        <5>1. "ESC" \notin Digits /\ "ESC" # "~" /\ "ESC" # "["
          BY DEF Digits, Value
        <5>2. PICK num : Feed(dec, "ESC") = Fed("EscSeen", num, DecodeChar("ESC"))
          BY <4>2, <5>1 DEF Feed, FeedCsi, FeedPlain
        <5> QED
          BY <1>1, <1>3, <1>5, <2>2, <5>2 DEF Fed
      <4> QED
        BY <4>1, <4>2
    <3>3. marker' \in Seq(MarkerBytes)
      BY <3>1 DEF MarkerBytes
    <3>4. PasteBegun'
      BY <3>1, <3>2 DEF PasteBegun
    <3> QED
      BY <1>1, <1>3, <1>5, <1>9, <2>2, <3>3, <3>4 DEF PasteStarts, InputInv
  <2> QED
    BY <1>9, <2>1, <2>2 DEF PasteStarts
<1>10. CASE PasteStops
  <2>1. sending' = "typed" /\ PasteBegun'
    BY <1>10 DEF PasteStops, PasteBegun
  <2>2. CASE marker' = <<>> /\ Read(FeedKeyCode(dec, "PasteEnd"))
    <3>1. marker' \in Seq(MarkerBytes)
      BY <2>2
    <3> QED
      BY <1>1, <1>4, <2>1, <2>2, <3>1 DEF InputInv
  <2>3. CASE marker' = Tail(EndMarker) /\ Read(Feed(dec, "ESC"))
    <3>1. marker' = <<"[", "2", "0", "1", "~">>
      BY <2>3 DEF EndMarker
    <3>2. marker' \in Seq(MarkerBytes)
      BY <3>1 DEF MarkerBytes
    <3> QED
      BY <1>1, <1>3, <1>5, <2>1, <2>3, <3>2 DEF InputInv
  <2> QED
    BY <1>10, <2>2, <2>3 DEF PasteStops
<1>11. CASE MarkerByte
  <2>1. Head(marker) \in MarkerBytes /\ Tail(marker) \in Seq(MarkerBytes)
    BY <1>2, <1>11 DEF MarkerByte
  <2>2. dec' = Feed(dec, Head(marker)).dec
    BY <1>1, <1>3, <1>11, <2>1 DEF MarkerByte
  <2>3. PasteBegun'
    BY <1>2, <1>11, <2>2, MarkerLeadsIn DEF MarkerByte, PasteBegun
  <2> QED
    BY <1>1, <1>2, <1>3, <1>11, <2>1, <2>3 DEF MarkerByte, InputInv
<1>12. CASE UNCHANGED vars
  BY <1>12 DEF vars, InputInv, KeysInv, TypeOK, OneOwner, InsertIsClean, MotionCountCapped, Quiet,
               Free, PastingEnds, PasteBegun
<1> QED
  BY <1>6, <1>7, <1>8, <1>9, <1>10, <1>11, <1>12 DEF InputNext

(* Whatever is typed and pasted, and however its markers come.             *)
THEOREM InputInvariant == InputSpec => []InputInv
  BY InitInput, NextInput, PTL DEF InputSpec

(* No paste is forgotten: while EditorState::pasting is set the decoder is *)
(* in the paste and the mode is Insert (reducer.cpp, PasteBegin).          *)
THEOREM PastesEnd == InputSpec => []PastingEnds
<1>1. InputInv => PastingEnds
  BY DEF InputInv
<1> QED
  BY <1>1, InputInvariant, PTL

(* A byte pasted in insert mode is inserted, whatever byte it is           *)
(* (KeyDecoder::feed, St::PasteData).                                      *)
THEOREM PastedTextIsData == InputSpec => PastedIsData
<1>1. ASSUME InputInv, PasteByte, mode = "Insert"
      PROVE  mode' = "Insert" /\ cmd' \in {"InsertChar", "SplitLine"}
  <2>1. dec.st = "PasteData"
    BY <1>1 DEF PasteByte, InputInv, PasteBegun
  <2>2. PICK b \in Pasted : Read(Feed(dec, b))
    BY <1>1 DEF PasteByte
  <2>3. Feed(dec, b).key = Raw(b)
    BY <2>1, FeedInPaste
  <2>4. IsChar(Raw(b)) /\ Raw(b) \notin {"None", "Resize"}
    BY InputAssumption DEF Raw, IsChar, CtrlKeys, OtherKeys
  <2>5. Press(Raw(b))
    BY <1>1, <2>2, <2>3, <2>4 DEF Read, Dispatch
  <2>6. InsertModeKey(Raw(b))
    BY <1>1, <2>5 DEF Press, CountDigit, Complete, Unmapped, Arm, ArmOperator, FreeKey, GgSecond, ZSecond,
                FindSecond, OperatorCountDigit, RegisterName, Prefix, Finish, OperatorKey, Owned
  <2>7. InsertKind(Raw(b)) \in {"InsertChar", "SplitLine"}
    BY <2>4 DEF InsertKind, IsChar, OtherKeys
  <2> QED
    BY <1>1, <2>6, <2>7 DEF InsertModeKey
<1>2. InputInv /\ [InputNext]_vars =>
        [PasteByte /\ mode = "Insert" => mode' = "Insert" /\ cmd' \in {"InsertChar", "SplitLine"}]_vars
  BY <1>1
<1> QED
  BY <1>2, InputInvariant, PTL DEF InputSpec, PastedIsData

(* What holds of the keys holds of the program that reads them from a      *)
(* terminal, for every stream of bytes and key codes.                      *)
THEOREM KeysBehindTheDecoder ==
    InputSpec => []TypeOK /\ []OneOwner /\ []InsertIsClean /\ Settles /\ EscFrees
<1>1. InputInv => TypeOK /\ OneOwner /\ InsertIsClean /\ KeysInv
  BY DEF InputInv, KeysInv
<1>2. [InputNext]_vars => UNCHANGED keyVars \/ \E k : Press(k)
  BY DEF InputNext, TypeByte, PasteByte, FunctionKey, PasteStarts, PasteStops, MarkerByte, Read,
         Dispatch, vars, keyVars
<1>3. InputInv /\ [InputNext]_vars => [cmd' \in Unsettled \/ Quiet']_keyVars
  BY <1>1, <1>2, PressSettles
<1>4. InputInv /\ [InputNext]_vars => [Press("Esc") => mode' = "Normal" /\ Free']_keyVars
  BY <1>1, EscPress
<1> QED
  BY <1>1, <1>3, <1>4, InputInvariant, PTL DEF InputSpec, Settles, EscFrees, Unsettled
=============================================================================
