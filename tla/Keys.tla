-------------------------------- MODULE Keys --------------------------------
(***************************************************************************)
(* How keys become commands (new/src/app/reducer.cpp, command_for_key and  *)
(* the count lifecycle of reducer; new/src/core/operator.cpp, step): the   *)
(* mode, the count prefix, the second key that g, z and f wait for, and    *)
(* the operator being composed.  What a command does to the text is left   *)
(* to Editor; here a motion or an edit may succeed or fail.                *)
(* A key is its name; the control and function keys have longer names.     *)
(***************************************************************************)
EXTENDS Integers

CONSTANTS
    Keyboard,    \* the keys that are pressed
    CountMod,    \* 2^32: count_prefix is a uint32_t
    DigitLimit   \* 100000: a motion count above it takes no more digits

ASSUME KeysAssumption ==
    /\ CountMod \in Nat \ {0} /\ DigitLimit \in Nat

VARIABLES
    mode,          \* EditorState::mode
    pasting,       \* EditorState::pasting
    count_prefix,  \* EditorState::count_prefix, 0: none
    gg_pending, z_pending, find_pending,   \* WindowState: a second key is due
    last_find,     \* WindowState::last_find is set
    op,            \* EditorState::pending_op
    cmd            \* the Command::Kind given to the reducer last

keyVars ==
    <<mode, pasting, count_prefix, gg_pending, z_pending, find_pending, last_find, op, cmd>>

Value ==
    [k \in {"0", "1", "2", "3", "4", "5", "6", "7", "8", "9"} |->
        CASE k = "0" -> 0 [] k = "1" -> 1 [] k = "2" -> 2 [] k = "3" -> 3 [] k = "4" -> 4
          [] k = "5" -> 5 [] k = "6" -> 6 [] k = "7" -> 7 [] k = "8" -> 8 [] k = "9" -> 9]
Digits == DOMAIN Value

FindKeys     == {"f", "F", "t", "T"}
RepeatKeys   == {";", ","}
OperatorKeys == {"d", "y", "c", ">", "<", "="}
CaseKeys     == {"u", "U", "~"}
OpMotions    == {"h", "l", "j", "k", "0", "^", "$", "w", "W", "b", "B", "e", "E", "G", "{", "}", "%"}
ObjectNames  == {"w", "p", "\"", "'", "(", ")", "[", "]", "{", "}"}
MotionKeys   == OpMotions \cup {"Up", "Down", "Left", "Right"}
ScrollKeys   == {"H", "M", "L", "C-f", "C-b", "C-d", "C-u", "PageUp", "PageDown"}
OtherKeys    == {"Esc", "Enter", "Tab", "Backspace", "Delete", "Up", "Down", "Left", "Right",
                 "Home", "End", "PageUp", "PageDown", "C-r", "C-f", "C-b", "C-d", "C-u",
                 "PasteBegin", "PasteEnd", "Unknown"}
IsChar(k)    == k \notin OtherKeys

(* Pending: own is the key that the operator doubles; own = "c" enters     *)
(* insert mode; named: a register was named.                               *)
Pending ==
    [phase : {"Idle", "WantReg", "Op"}, own : OperatorKeys \cup CaseKeys,
     op_count : Nat, motion_count : Nat,
     named : BOOLEAN, want_char : BOOLEAN, g_armed : BOOLEAN, want_object : BOOLEAN]
NoOp == [phase |-> "Idle", own |-> "d", op_count |-> 0, motion_count |-> 0, named |-> FALSE,
         want_char |-> FALSE, g_armed |-> FALSE, want_object |-> FALSE]

Free == ~gg_pending /\ ~z_pending /\ ~find_pending /\ op.phase = "Idle"

Init ==
    /\ mode = "Normal" /\ pasting = FALSE
    /\ count_prefix = 0
    /\ gg_pending = FALSE /\ z_pending = FALSE /\ find_pending = FALSE
    /\ last_find = FALSE
    /\ op = NoOp
    /\ cmd = "None"

-----------------------------------------------------------------------------
(* The keys of normal mode when no second key is due.                      *)
CountDigitWide(k) ==
    /\ mode = "Normal" /\ Free
    /\ k \in Digits /\ (k = "0" => count_prefix # 0)
    /\ count_prefix' = count_prefix * 10 + Value[k]
    /\ cmd' = "CountDigit"
    /\ UNCHANGED <<mode, pasting, gg_pending, z_pending, find_pending, last_find, op>>
CountDigit(k) ==
    /\ mode = "Normal" /\ Free
    /\ k \in Digits /\ (k = "0" => count_prefix # 0)
    /\ count_prefix' = (count_prefix * 10 + Value[k]) % CountMod
    /\ cmd' = "CountDigit"
    /\ UNCHANGED <<mode, pasting, gg_pending, z_pending, find_pending, last_find, op>>

Kind(k) ==
    CASE k \in MotionKeys              -> "Motion"
      [] k \in RepeatKeys /\ last_find -> "Motion"
      [] k \in ScrollKeys              -> "Scroll"
      [] k \in {"x", "Delete"}         -> "DeleteChar"
      [] k = "u"                       -> "Undo"
      [] k = "C-r"                     -> "Redo"
      [] k \in {"i", "A"}              -> "EnterInsert"
      [] k = "g"                       -> "GgArm"
      [] k = "z"                       -> "ZArm"
      [] k \in FindKeys                -> "FindArm"
      [] k \in OperatorKeys \cup {"\""} -> "OperatorKey"
      [] OTHER                         -> "None"

FreeKey(k) ==
    /\ mode = "Normal" /\ Free
    /\ ~(k \in Digits /\ (k = "0" => count_prefix # 0))
    /\ cmd' = Kind(k)

(* A command that is complete consumes the count.                          *)
Complete(k) ==
    /\ FreeKey(k)
    /\ Kind(k) \in {"Motion", "Scroll", "DeleteChar", "Undo", "Redo", "EnterInsert"}
    /\ mode' = IF Kind(k) = "EnterInsert" THEN "Insert" ELSE mode
    /\ count_prefix' = 0
    /\ UNCHANGED <<pasting, gg_pending, z_pending, find_pending, last_find, op>>

(* A key that names no command leaves everything, the count too.           *)
Unmapped(k) ==
    /\ FreeKey(k)
    /\ Kind(k) = "None"
    /\ UNCHANGED <<mode, pasting, count_prefix, gg_pending, z_pending, find_pending, last_find, op>>

Arm(k) ==
    /\ FreeKey(k)
    /\ Kind(k) \in {"GgArm", "ZArm", "FindArm"}
    /\ gg_pending' = (gg_pending \/ Kind(k) = "GgArm")
    /\ z_pending' = (z_pending \/ Kind(k) = "ZArm")
    /\ find_pending' = (find_pending \/ Kind(k) = "FindArm")
    /\ UNCHANGED <<mode, pasting, count_prefix, last_find, op>>

(* An operator takes the count prefix for its own; the register prefix     *)
(* leaves it.                                                              *)
ArmOperatorKeepsCount(k) ==
    /\ FreeKey(k)
    /\ Kind(k) = "OperatorKey"
    /\ op' = IF k = "\"" THEN [op EXCEPT !.phase = "WantReg"]
             ELSE [op EXCEPT !.phase = "Op", !.own = k, !.op_count = count_prefix]
    /\ UNCHANGED <<mode, pasting, count_prefix, gg_pending, z_pending, find_pending, last_find>>
ArmOperator(k) ==
    /\ FreeKey(k)
    /\ Kind(k) = "OperatorKey"
    /\ op' = IF k = "\"" THEN [op EXCEPT !.phase = "WantReg"]
             ELSE [op EXCEPT !.phase = "Op", !.own = k, !.op_count = count_prefix]
    /\ count_prefix' = IF k = "\"" THEN count_prefix ELSE 0
    /\ UNCHANGED <<mode, pasting, gg_pending, z_pending, find_pending, last_find>>

-----------------------------------------------------------------------------
(* The second key of g, z and f: it completes the command or cancels it,   *)
(* and the count goes either way.                                          *)
GgSecond(k) ==
    /\ mode = "Normal" /\ gg_pending
    /\ gg_pending' = FALSE
    /\ count_prefix' = 0
    /\ IF k \in CaseKeys
         THEN /\ cmd' = "CaseOp"
              /\ op' = [NoOp EXCEPT !.phase = "Op", !.own = k, !.op_count = count_prefix]
         ELSE /\ cmd' = IF k = "g" THEN "Motion" ELSE "GgCancel"
              /\ UNCHANGED op
    /\ UNCHANGED <<mode, pasting, z_pending, find_pending, last_find>>

ZSecond(k) ==
    /\ mode = "Normal" /\ ~gg_pending /\ z_pending
    /\ cmd' = IF k \in {"z", "t", "b"} THEN "Scroll" ELSE "ZCancel"
    /\ z_pending' = FALSE
    /\ count_prefix' = 0
    /\ UNCHANGED <<mode, pasting, gg_pending, find_pending, last_find, op>>

FindSecondKeepsCount(k) ==
    /\ mode = "Normal" /\ ~gg_pending /\ ~z_pending /\ find_pending
    /\ cmd' = IF IsChar(k) THEN "FindTarget" ELSE "FindCancel"
    /\ find_pending' = FALSE
    /\ last_find' = (last_find \/ IsChar(k))
    /\ count_prefix' = IF IsChar(k) THEN 0 ELSE count_prefix
    /\ UNCHANGED <<mode, pasting, gg_pending, z_pending, op>>
FindSecond(k) ==
    /\ mode = "Normal" /\ ~gg_pending /\ ~z_pending /\ find_pending
    /\ cmd' = IF IsChar(k) THEN "FindTarget" ELSE "FindCancel"
    /\ find_pending' = FALSE
    /\ last_find' = (last_find \/ IsChar(k))
    /\ count_prefix' = 0
    /\ UNCHANGED <<mode, pasting, gg_pending, z_pending, op>>

-----------------------------------------------------------------------------
(* The keys an armed operator, or the register prefix, owns.               *)
Owned(k) == mode = "Normal" /\ ~gg_pending /\ ~z_pending /\ ~find_pending /\ op.phase # "Idle"

MotionDigit(k) ==
    /\ op.phase = "Op" /\ ~op.want_object
    /\ k \in Digits /\ (k = "0" => op.motion_count # 0)

(* A motion count beyond the limit cancels the operator.                   *)
OperatorCountDigit(k) ==
    /\ Owned(k) /\ MotionDigit(k)
    /\ cmd' = "OperatorCountDigit"
    /\ IF op.motion_count > DigitLimit
         THEN op' = NoOp /\ count_prefix' = 0
         ELSE /\ op' = [op EXCEPT !.motion_count = @ * 10 + Value[k]]
              /\ UNCHANGED count_prefix
    /\ UNCHANGED <<mode, pasting, gg_pending, z_pending, find_pending, last_find>>

OperatorKey(k) == Owned(k) /\ ~MotionDigit(k) /\ cmd' = "OperatorKey"

(* The register's name: the prefix is gone and with it the count.          *)
RegisterNameWaits(k) ==
    /\ OperatorKey(k) /\ op.phase = "WantReg"
    /\ op' = IF IsChar(k) THEN [op EXCEPT !.phase = "Idle", !.named = TRUE] ELSE op
    /\ count_prefix' = 0
    /\ UNCHANGED <<mode, pasting, gg_pending, z_pending, find_pending, last_find>>
RegisterName(k) ==
    /\ OperatorKey(k) /\ op.phase = "WantReg"
    /\ op' = [op EXCEPT !.phase = "Idle", !.named = IsChar(k) \/ @]
    /\ count_prefix' = 0
    /\ UNCHANGED <<mode, pasting, gg_pending, z_pending, find_pending, last_find>>

(* What step makes of a key, in the order it asks: the key is the target   *)
(* of f, the second key of g, the operator doubled, a prefix of its own,   *)
(* a text object, or a motion.                                             *)
Doubles(k) == k = op.own
Expects(k) ==
    IF ~IsChar(k) THEN "cancel"
    ELSE IF op.want_char THEN "edit"
    ELSE IF op.g_armed THEN
        IF k = "g" \/ (Doubles(k) /\ k \in CaseKeys) THEN "edit" ELSE "cancel"
    ELSE IF Doubles(k) THEN "edit"
    ELSE IF k = "g" THEN "g_armed"
    ELSE IF k \in FindKeys THEN "want_char"
    ELSE IF op.want_object THEN IF k \in ObjectNames THEN "edit" ELSE "cancel"
    ELSE IF k \in {"i", "a"} THEN "want_object"
    ELSE IF k \in OpMotions THEN "edit"
    ELSE "cancel"

Prefix(k) ==
    /\ OperatorKey(k) /\ op.phase = "Op"
    /\ Expects(k) \in {"g_armed", "want_char", "want_object"}
    /\ op' = [op EXCEPT ![Expects(k)] = TRUE]
    /\ UNCHANGED <<mode, pasting, count_prefix, gg_pending, z_pending, find_pending, last_find>>

(* The sequence ends.  A motion that fails or does not move, an object     *)
(* that is not there, or an edit that plan_edit refuses changes no mode.   *)
FinishKeepsPending(k) ==
    /\ OperatorKey(k) /\ op.phase = "Op"
    /\ Expects(k) \in {"edit", "cancel"}
    /\ op' = [op EXCEPT !.phase = "Idle"]
    /\ count_prefix' = 0
    /\ mode' \in IF Expects(k) = "edit" /\ op.own = "c" THEN {"Normal", "Insert"} ELSE {"Normal"}
    /\ UNCHANGED <<pasting, gg_pending, z_pending, find_pending, last_find>>
Finish(k) ==
    /\ OperatorKey(k) /\ op.phase = "Op"
    /\ Expects(k) \in {"edit", "cancel"}
    /\ op' = NoOp
    /\ count_prefix' = 0
    /\ mode' \in IF Expects(k) = "edit" /\ op.own = "c" THEN {"Normal", "Insert"} ELSE {"Normal"}
    /\ UNCHANGED <<pasting, gg_pending, z_pending, find_pending, last_find>>

-----------------------------------------------------------------------------
(* The keys of insert mode.  A pasted newline arrives as the character.    *)
InsertKind(k) ==
    CASE k = "NL"                       -> "SplitLine"
      [] k = "Enter"                    -> IF pasting THEN "SplitLine" ELSE "InsertNewline"
      [] k = "Tab" \/ (IsChar(k) /\ k # "NL") -> "InsertChar"
      [] k = "Backspace"                -> "EraseChar"
      [] k = "Esc"                      -> "LeaveInsert"
      [] k \in {"PasteBegin", "PasteEnd"} -> k
      [] k \in {"Up", "Down", "Left", "Right"} -> "Motion"
      [] OTHER                          -> "None"

InsertModeKey(k) ==
    /\ mode = "Insert"
    /\ cmd' = InsertKind(k)
    /\ mode' = IF InsertKind(k) = "LeaveInsert" THEN "Normal" ELSE mode
    /\ pasting' = CASE InsertKind(k) = "PasteBegin" -> TRUE
                    [] InsertKind(k) = "PasteEnd"   -> FALSE
                    [] OTHER                        -> pasting
    /\ gg_pending' = (gg_pending /\ InsertKind(k) # "Motion")
    /\ count_prefix' = IF InsertKind(k) = "None" THEN count_prefix ELSE 0
    /\ UNCHANGED <<z_pending, find_pending, last_find, op>>

Press(k) ==
    \/ CountDigit(k) \/ Complete(k) \/ Unmapped(k) \/ Arm(k) \/ ArmOperator(k)
    \/ GgSecond(k) \/ ZSecond(k) \/ FindSecond(k)
    \/ OperatorCountDigit(k) \/ RegisterName(k) \/ Prefix(k) \/ Finish(k)
    \/ InsertModeKey(k)

Next == \E k \in Keyboard : Press(k)

Spec == Init /\ [][Next]_keyVars

-----------------------------------------------------------------------------
(* The counts fit their type: a count prefix that grows beyond 32 bits     *)
(* wraps (reducer.cpp:398), and the operator's own count is a copy of it.  *)
TypeOK ==
    /\ mode \in {"Normal", "Insert"} /\ pasting \in BOOLEAN
    /\ count_prefix \in 0..(CountMod - 1)
    /\ gg_pending \in BOOLEAN /\ z_pending \in BOOLEAN /\ find_pending \in BOOLEAN
    /\ last_find \in BOOLEAN
    /\ op \in Pending /\ op.op_count < CountMod

(* Nothing is due but the register that a prefix may have named.           *)
Quiet ==
    /\ Free /\ count_prefix = 0
    /\ op = [NoOp EXCEPT !.named = op.named]

(* Exactly one part of the program owns the next key: command_for_key asks *)
(* gg_pending, z_pending, find_pending and pending_op in turn and would    *)
(* starve the later ones.  An armed operator has taken the count prefix,   *)
(* so no digit can count twice, and its sub-states end with it.            *)
OneOwner ==
    /\ gg_pending => ~z_pending /\ ~find_pending /\ op.phase = "Idle"
    /\ z_pending => ~find_pending /\ op.phase = "Idle"
    /\ find_pending => op.phase = "Idle"
    /\ op.phase = "Op" => count_prefix = 0
    /\ op.phase # "Op" => op = [NoOp EXCEPT !.phase = op.phase, !.named = op.named]

(* Insert mode starts clean: no count, prefix or operator typed before it  *)
(* is still there to catch the keys after the Esc that leaves it.          *)
InsertIsClean == mode = "Insert" => Quiet

(* A motion count stops growing one digit beyond the limit, long before a  *)
(* uint32_t wraps and combined_count's product leaves 64 bits.             *)
MotionCountCapped == op.motion_count <= DigitLimit * 10 + 9

(* Every key either names no command, extends or arms a prefix, or settles *)
(* the machine: whether the command ran, failed or was cancelled, no count *)
(* and no half-typed command is left for the next one.  A key of an armed  *)
(* operator is OperatorKey whatever comes of it: OperatorEnds is about it. *)
Settles ==
    [][cmd' \in {"None", "CountDigit", "OperatorCountDigit", "GgArm", "ZArm", "FindArm",
                 "OperatorKey", "CaseOp"}
       \/ Quiet']_keyVars

(* A key an armed operator does not extend itself with ends it; one that   *)
(* ends it leaves nothing behind, edit or not.                             *)
OperatorEnds ==
    [][op.phase = "Op" =>
          \/ op'.phase = "Op" /\ op' # op
          \/ Quiet' /\ ~op'.named]_keyVars

(* One Esc gets out of insert mode, of every prefix and of an operator: it *)
(* is never data, a target or a register name.  A count that stands alone  *)
(* is left out, since Esc keeps it: after 2<Esc>x two characters go.  The  *)
(* comment at reducer.cpp:391 says that a key without a command aborts the *)
(* count; the code below it leaves it.                                     *)
EscFrees == [][Press("Esc") => mode' = "Normal" /\ Free']_keyVars
=============================================================================
