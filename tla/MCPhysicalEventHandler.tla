---------------------- MODULE MCPhysicalEventHandler ----------------------
(* Two spaces, positions to half a space, and half a space of overscroll.  *)
(* The user has left the hotkeys alone, or has bound some to other keys.   *)
EXTENDS PhysicalEventHandler
MCPositions == -3 .. 3
MCProgresses == {-1, 1, 2}

MCOptions ==
  {[axes |-> axes, intercept |-> TRUE, jump |-> TRUE] : axes \in {Axes, {"vertical"}}}
  \cup {[axes |-> Axes, intercept |-> FALSE, jump |-> TRUE],
        [axes |-> {"horizontal"}, intercept |-> TRUE, jump |-> FALSE]}

Is(kind, holds) == [kind |-> kind, holds |-> holds]

\* key, [enabled |-> ..., value |-> [parameters |-> <<65535, code, modifiers>>]]
Entry(enabled, code, modifiers) ==
  Is("dictionary",
     [enabled |-> Is("boolean", enabled),
      value |-> Is("dictionary",
        [parameters |-> Is("array", <<Is("number", 65535), Is("number", code),
                                      Is("number", modifiers)>>)])])

\* A system whose hotkeys were never changed, and one with: move left bound to
\* Command+Left, Mission Control to Control+1, App Expose disabled.
MCDefaults == [k \in {"79"} |-> Is("dictionary", [enabled |-> Is("boolean", TRUE)])]
MCRebound ==
  [k \in {"79", "32", "33"} |->
     CASE k = "79" -> Entry(TRUE, 123, {"command", "fn"})
       [] k = "32" -> Entry(TRUE, 18, {"control"})
       [] k = "33" -> Entry(FALSE, 125, {"control"})]

\* Preferences the engine refuses: none, a number for a boolean, a short array.
MCPreferences ==
  {Is("dictionary", MCDefaults), Is("dictionary", MCRebound), Is("missing", <<>>),
   Is("dictionary", [k \in {"81"} |-> Is("dictionary", [enabled |-> Is("number", 1)])]),
   Is("dictionary", [k \in {"81"} |-> Is("dictionary",
     [value |-> Is("dictionary", [parameters |-> Is("array", <<Is("number", 1)>>)])])])}

MCKeys ==
  [key_code : {123, 124, 125, 126}, modifiers : {{"control", "fn"}}, down : {TRUE}, physical : {TRUE}]
  \cup [key_code : {18, 19, 20}, modifiers : {{"control"}}, down : {TRUE}, physical : {TRUE}]
  \cup [key_code : {123}, modifiers : {{}}, down : {TRUE, FALSE}, physical : {TRUE, FALSE}]
=============================================================================
