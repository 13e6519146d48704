------------------------------ MODULE MCInput ------------------------------
(***************************************************************************)
(* A user who types and pastes, and a terminal that may send the markers   *)
(* of a paste as plain bytes.                                              *)
(***************************************************************************)
EXTENDS Input

(* A key of each kind that the decoder, command_for_key or step tells      *)
(* apart.                                                                  *)
SmallKeyboard ==
    {"ESC", "[", "~", "LF", "DEL", "0", "1", "2", "g", "z", "t", "f", "u", "x", "d", "c", "i", "w",
     "U", "Q", "a", "A", "q", ";", "'", "\"", "C-f", "C-r"}

=============================================================================
