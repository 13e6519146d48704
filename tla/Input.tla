-------------------------------- MODULE Input --------------------------------
(***************************************************************************)
(* From the terminal to the command: the key decoder (new/src/ui/input.cpp,*)
(* KeyDecoder::feed), the dispatch of App::run (new/src/app/app.cpp), and  *)
(* Keys behind them.  The terminal sends what is typed and, between two    *)
(* markers, what is pasted.  ncurses resolves a marker to one key code     *)
(* (define_key, new/src/ui/screen.cpp:48) unless its bytes come too slowly *)
(* or the terminal lacks it; then the bytes reach the decoder one by one.  *)
(***************************************************************************)
EXTENDS Keys, Sequences

CONSTANTS
    Typed, Pasted,   \* the bytes that are typed, and pasted
    FunctionKeys,    \* the keys that arrive as one key code
    CsiMod           \* 2^32: csi_num_ is a uint32_t

(* The keys that decode_key_code knows, the markers apart, and the control *)
(* letters.                                                                *)
KeyCodes == {"Up", "Down", "Left", "Right", "Home", "End", "PageUp", "PageDown", "Delete",
             "Resize", "Backspace", "Unknown"}
CtrlKeys == {"C-r", "C-f", "C-b", "C-d", "C-u"}

ASSUME InputAssumption ==
    /\ (Typed \cup Pasted) \cap (OtherKeys \cup {"NL", "None", "Resize"}) \subseteq CtrlKeys
    /\ FunctionKeys \subseteq KeyCodes
    /\ CsiMod \in Nat /\ CsiMod > 201

VARIABLES
    dec,       \* KeyDecoder: st_, and num, which is csi_num_
    running,   \* App::quit_ is not set
    sending,   \* what the terminal sends: "typed" or "pasted"
    marker     \* the bytes still to come of a marker

vars == <<mode, pasting, count_prefix, gg_pending, z_pending, find_pending, last_find, op, cmd,
          dec, running, sending, marker>>

BeginMarker == <<"ESC", "[", "2", "0", "0", "~">>
EndMarker   == <<"ESC", "[", "2", "0", "1", "~">>

(* decode_char, and a byte passed through as it is: a control letter is a  *)
(* character like another.                                                 *)
DecodeChar(b) ==
    CASE b = "ESC"         -> "Esc"
      [] b \in {"LF", "CR"} -> "Enter"
      [] b = "TAB"         -> "Tab"
      [] b = "DEL"         -> "Backspace"
      [] OTHER             -> b
Raw(b) == IF b = "LF" THEN "NL" ELSE IF b \in CtrlKeys THEN "control" ELSE b

Fed(st, num, key) == [dec |-> [st |-> st, num |-> num], key |-> key]

(* A key code: in a paste, in a CSI sequence, or neither.                  *)
FeedKeyCode(d, k) ==
    LET num == IF d.st = "CsiDigits" THEN 0 ELSE d.num
    IN  IF k = "PasteBegin" THEN Fed("PasteData", num, k)
        ELSE IF k = "PasteEnd" \/ d.st = "CsiDigits" THEN Fed("Idle", num, k)
        ELSE Fed(d.st, num, k)

FeedPlain(d, b) ==
    IF d.st = "EscSeen" /\ b = "[" THEN Fed("CsiDigits", 0, "None")
    ELSE Fed(IF b = "ESC" THEN "EscSeen" ELSE "Idle", d.num, DecodeChar(b))

FeedCsi(d, b) ==
    IF b \in Digits THEN Fed("CsiDigits", (d.num * 10 + Value[b]) % CsiMod, "None")
    ELSE IF b # "~" THEN FeedPlain([st |-> "Idle", num |-> 0], b)
    ELSE IF d.num = 200 THEN Fed("PasteData", d.num, "PasteBegin")
    ELSE IF d.num = 201 THEN Fed("Idle", d.num, "PasteEnd")
    ELSE Fed("Idle", 0, "Unknown")

FeedEscFirst(d, b) ==
    IF b = "ESC" THEN FeedPlain([st |-> "Idle", num |-> 0], b)
    ELSE IF d.st = "PasteData" THEN Fed(d.st, d.num, Raw(b))
    ELSE IF d.st = "CsiDigits" THEN FeedCsi(d, b)
    ELSE FeedPlain(d, b)
Feed(d, b) ==
    IF d.st = "PasteData" THEN Fed(d.st, d.num, Raw(b))
    ELSE IF d.st = "CsiDigits" THEN FeedCsi(d, b)
    ELSE FeedPlain(d, b)

-----------------------------------------------------------------------------
(* App::run: a resize is no key, q in normal mode quits before any command *)
(* sees it, and every other key is dispatched.                             *)
Dispatch(k) ==
    \/ k \in {"None", "Resize"} /\ UNCHANGED <<keyVars, running>>
    \/ /\ k = "q" /\ mode = "Normal"
       /\ running' = FALSE
       /\ UNCHANGED keyVars
    \/ /\ k \notin {"None", "Resize"} /\ ~(k = "q" /\ mode = "Normal")
       /\ Press(k)
       /\ UNCHANGED running

Read(fed) == running /\ dec' = fed.dec /\ Dispatch(fed.key)

TypeByte ==
    /\ sending = "typed" /\ marker = <<>>
    /\ \E b \in Typed : Read(Feed(dec, b))
    /\ UNCHANGED <<sending, marker>>

PasteByte ==
    /\ sending = "pasted" /\ marker = <<>>
    /\ \E b \in Pasted : Read(Feed(dec, b))
    /\ UNCHANGED <<sending, marker>>

FunctionKey ==
    /\ marker = <<>>
    /\ \E k \in FunctionKeys : Read(FeedKeyCode(dec, k))
    /\ UNCHANGED <<sending, marker>>

(* A marker, as one key code or as its bytes.                              *)
PasteStarts ==
    /\ sending = "typed" /\ marker = <<>>
    /\ sending' = "pasted"
    /\ \/ marker' = <<>> /\ Read(FeedKeyCode(dec, "PasteBegin"))
       \/ marker' = Tail(BeginMarker) /\ Read(Feed(dec, "ESC"))

PasteStops ==
    /\ sending = "pasted" /\ marker = <<>>
    /\ sending' = "typed"
    /\ \/ marker' = <<>> /\ Read(FeedKeyCode(dec, "PasteEnd"))
       \/ marker' = Tail(EndMarker) /\ Read(Feed(dec, "ESC"))

MarkerByte ==
    /\ marker # <<>>
    /\ Read(Feed(dec, Head(marker)))
    /\ marker' = Tail(marker)
    /\ UNCHANGED sending

InputInit ==
    /\ Init
    /\ dec = [st |-> "Idle", num |-> 0]
    /\ running = TRUE
    /\ sending = "typed" /\ marker = <<>>

InputNext == TypeByte \/ PasteByte \/ FunctionKey \/ PasteStarts \/ PasteStops \/ MarkerByte

InputSpec == InputInit /\ [][InputNext]_vars

-----------------------------------------------------------------------------
(* EditorState::pasting, which makes Enter a plain split, never outlives   *)
(* the paste as the decoder knows it: while it is set the decoder is in    *)
(* its paste state and the mode is still Insert.  PasteBegin and PasteEnd  *)
(* are commands of insert mode only, so a mode change between them would   *)
(* leave it set for ever.                                                  *)
PastingEnds == pasting => mode = "Insert" /\ dec.st = "PasteData"

(* Text pasted in insert mode goes into the text, byte for byte: it never  *)
(* leaves the mode, erases, moves the cursor or indents a line.            *)
PastedIsData ==
    [][PasteByte /\ mode = "Insert" =>
          mode' = "Insert" /\ cmd' \in {"InsertChar", "SplitLine"}]_vars
=============================================================================
