------------------------------ MODULE Hotkeys ------------------------------
(***************************************************************************)
(* Which key presses concern the engine: the hotkeys the user has given    *)
(* Mission Control's shortcuts in the system's preferences (hotkeys.cc,    *)
(* with the typed getters of cf-collections-util.h), and how a press is    *)
(* compared with them (event.cc, engine/physical-event-handler.cc).        *)
(* A number of flags is the set of their names.  A Core Foundation value   *)
(* is a record of its kind and of what it holds; a dictionary or an array  *)
(* holds a function, whose domain are the keys or indices that are not     *)
(* null.                                                                   *)
(***************************************************************************)
EXTENDS Integers, Sequences

HotkeyTypes == {"MoveSpaceLeft", "MoveSpaceRight", "OpenMissionControl", "OpenAppExpose"}

kModifierKeyMask == {"capslock", "shift", "control", "option", "command"}

DictionaryKey == [MoveSpaceLeft |-> "79", MoveSpaceRight |-> "81",
                  OpenMissionControl |-> "32", OpenAppExpose |-> "33"]

DefaultKeyCode == [MoveSpaceLeft |-> 123, MoveSpaceRight |-> 124,
                   OpenMissionControl |-> 126, OpenAppExpose |-> 125]

DefaultHotkey(type) ==
  [enabled |-> TRUE, key_code |-> DefaultKeyCode[type], modifiers |-> {"control"}]

-----------------------------------------------------------------------------
\* CFDictOptionalGetAs() and CFArrayOptionalGetAs(): an error, nothing, or what
\* is there.
WellTyped(collection, key, kind) ==
  key \in DOMAIN collection => collection[key].kind = kind

Get(collection, key, default) ==
  IF key \in DOMAIN collection THEN collection[key].holds ELSE default

\* The empty array stands for none.
Parameters(hotkey) == Get(Get(hotkey, "value", <<>>), "parameters", <<>>)

\* ParseHotkeyForHotkeyType() returns no error.
Parses(hotkey) ==
  /\ WellTyped(hotkey, "enabled", "boolean")
  /\ WellTyped(hotkey, "value", "dictionary")
  /\ WellTyped(Get(hotkey, "value", <<>>), "parameters", "array")
  /\ "parameters" \in DOMAIN Get(hotkey, "value", <<>>) =>
       /\ Len(Parameters(hotkey)) >= 3
       /\ WellTyped(Parameters(hotkey), 2, "number")
       /\ WellTyped(Parameters(hotkey), 3, "number")

\* What it returns: the user's modifiers are intersected with the default's.
ParseHotkey(type, hotkey) ==
  LET default == DefaultHotkey(type)
      parameters == Parameters(hotkey)
  IN  [enabled |-> Get(hotkey, "enabled", default.enabled),
       key_code |-> Get(parameters, 2, default.key_code) % 2^16,
       modifiers |-> default.modifiers \cap Get(parameters, 3, default.modifiers)]

\* LoadHotkeyConfiguration() returns no error: preferences that are missing, or
\* one hotkey that does not parse, and the engine cannot be created.
Loads(preferences) ==
  /\ preferences.kind = "dictionary"
  /\ \A type \in HotkeyTypes :
       /\ WellTyped(preferences.holds, DictionaryKey[type], "dictionary")
       /\ Parses(Get(preferences.holds, DictionaryKey[type], <<>>))

LoadHotkeyConfiguration(preferences) ==
  [type \in HotkeyTypes |->
     ParseHotkey(type, Get(preferences.holds, DictionaryKey[type], <<>>))]

-----------------------------------------------------------------------------
\* KeyEvent::ConcernsHotkey()
Concerns(key, hotkey) ==
  /\ hotkey.enabled
  /\ key.key_code = hotkey.key_code
  /\ key.modifiers \cap kModifierKeyMask = hotkey.modifiers

\* TryGetRelativeMoveCommandFromKeyEvent() takes the first that is concerned;
\* HandleCommand(RelativeMoveCommand) gives each its axis and direction.
RelativeMoves ==
  <<[type |-> "MoveSpaceLeft", axis |-> "horizontal", sign |-> -1],
    [type |-> "MoveSpaceRight", axis |-> "horizontal", sign |-> 1],
    [type |-> "OpenMissionControl", axis |-> "vertical", sign |-> 1],
    [type |-> "OpenAppExpose", axis |-> "vertical", sign |-> -1]>>

\* The move of a key, if any.
RelativeMoveOf(key, hotkeys) ==
  {RelativeMoves[i] : i \in
     {i \in 1 .. 4 : /\ Concerns(key, hotkeys[RelativeMoves[i].type])
                     /\ \A j \in 1 .. i - 1 : ~Concerns(key, hotkeys[RelativeMoves[j].type])}}

\* TryGetJumpToSpaceCommand(): the key codes of the digits 1 to 9 and 0.
JumpKeyCodes == <<18, 19, 20, 21, 23, 22, 26, 28, 25, 29>>

\* The space a key jumps to, if any.
JumpOf(key) ==
  {i - 1 : i \in {i \in 1 .. 10 : /\ key.modifiers \cap kModifierKeyMask = {"control"}
                                  /\ key.key_code = JumpKeyCodes[i]}}
=============================================================================
