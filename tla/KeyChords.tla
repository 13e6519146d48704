------------------------------- MODULE KeyChords -------------------------------
(***************************************************************************)
(* Key bindings and chords (old/src/configs/keybindings.cpp and             *)
(* keybindings_part2.cpp, old/includes/commands/command.hpp).              *)
(*                                                                         *)
(* A key is a value.  A binding has a chord, a command, and a condition:   *)
(* the alternatives of its "when", each the set of flags it asks for.      *)
(***************************************************************************)
EXTENDS Integers, Sequences, SequencesExt

CONSTANTS
  Leader, Esc,   \* the keys space and escape
  ControlKeys,   \* keys with ctrl or alt, and the function keys
  Bindings       \* the configured bindings, in their order

ASSUME BindingsAssumption ==
  /\ Leader # Esc /\ {Leader, Esc} \cap ControlKeys = {}
  /\ \A i \in DOMAIN Bindings : Bindings[i].chord # <<>>

InputContexts == {"EditorNormal", "Sidebar", "SearchResults", "SearchText", "Picker",
                  "CommandLine", "PromptInput", "Messages", "Confirm", "Terminal"}

AllowsLeader(input) == input \in {"EditorNormal", "Sidebar", "SearchResults"}
Literal(input) == input \in {"CommandLine", "PromptInput", "Picker", "Terminal", "Confirm", "SearchText"}
EngineOwns(key) == key \in ControlKeys \cup {Esc, Leader}

WhenMatches(when, flags) == when = {} \/ \E part \in when : part \subseteq flags

Unmatched(chord) == [status |-> "Unmatched", pending |-> chord, command |-> "none"]

\* Whether the keys typed so far begin or are the binding, where it applies.
Opens(binding, chord, flags, input) ==
  /\ Len(chord) <= Len(binding.chord) /\ SubSeq(binding.chord, 1, Len(chord)) = chord
  /\ WhenMatches(binding.when, flags)
  /\ Head(binding.chord) = Leader => AllowsLeader(input)
  /\ input = "EditorNormal" => EngineOwns(Head(binding.chord))

\* The first binding that the keys are; failing that, one that they begin.
ResolveChord(chord, flags, input) ==
  LET open == SelectSeq(Bindings, LAMBDA b : Opens(b, chord, flags, input))
      whole == SelectSeq(open, LAMBDA b : b.chord = chord)
  IN  IF whole # <<>>
        THEN [status |-> "Matched", pending |-> <<>>, command |-> Head(whole).command]
      ELSE IF open = <<>> THEN Unmatched(<<>>)
      ELSE [status |-> "Prefix", pending |-> chord, command |-> "none"]

\* A key, after the keys that are pending.
ResolveToken(pending, key, flags, input) ==
  LET alone == pending = <<>>
      plain == Literal(input) /\ alone /\ key \notin ControlKeys \cup {Esc}
      r == ResolveChord(Append(pending, key), flags, input)
  IN  IF (input = "EditorNormal" /\ alone /\ ~EngineOwns(key)) \/ (plain /\ key = Leader)
        THEN Unmatched(pending)
      ELSE IF plain /\ r.status = "Prefix" THEN Unmatched(<<>>)
      ELSE r
===============================================================================
