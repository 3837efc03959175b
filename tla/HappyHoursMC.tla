---------------------------- MODULE HappyHoursMC ----------------------------
(* Small instances of HappyHours for TLC. *)
EXTENDS HappyHours

(* One window, or two windows of neighbouring days: Saturday, Sunday and    *)
(* Monday, so that the week's end is among them.                            *)
Days == {5, 6, 0}

Windows == {w \in Window : w.weekday \in Days}

OneOrTwoWindows == {{}} \cup {{v, w} : v, w \in Windows}

OnePeriodOrNone == {{}} \cup {{[start |-> 3, end |-> 7]}}
=============================================================================
