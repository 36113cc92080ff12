--------------------------- MODULE MCRadioTakeover ---------------------------
(* Small instances of RadioTakeover for TLC.                                  *)
EXTENDS RadioTakeover, TLC

CONSTANTS rtl, sdrplay

One == [e \in Engine |-> rtl]
Two == Satcom :> rtl @@ Inmarsat :> sdrplay
Budget(calls, faults, edits, rescans, flows) ==
    [calls |-> calls, faults |-> faults, edits |-> edits, rescans |-> rescans, flows |-> flows]
Instance(radios, engines, edits, budget) ==
    [radio |-> radios, flow |-> rtl, at |-> rtl, engines |-> engines, edits |-> edits, budget |-> budget]

Uses == {
    \* both engines after one radio
    Instance(One, Engine, {}, Budget(3, 1, 0, 0, 0)),
    \* one engine, a radio that fails and is rescanned, and Listen tuned meanwhile
    Instance(One, {Satcom}, {"tune"}, Budget(3, 1, 1, 1, 0)),
    Instance(One, {Inmarsat}, {"tune", "mode"}, Budget(3, 2, 1, 1, 0)),
    \* the mode box and Apply
    Instance(One, {Satcom}, {"mode", "apply", "off"}, Budget(2, 1, 2, 0, 0)),
    \* Listen moves between two borrowed radios
    Instance(Two, Engine, {"apply", "tune"}, Budget(2, 1, 2, 0, 0)),
    \* a workflow after the same radio
    Instance(One, {Satcom}, {"tune"}, Budget(2, 1, 1, 1, 2))}

=============================================================================
