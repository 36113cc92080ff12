------------------------------ MODULE MCP25Follow ------------------------------
(* Follows of one call each, in half-seconds.                                 *)
EXTENDS P25Follow

On(kinds, least, most) == [on |-> kinds, least |-> least, most |-> most]
Follow(clear, strong, late, script) ==
    [grantClear |-> clear, strong |-> strong, stalls |-> late, script |-> script]

(* Calls that are heard, broken by gaps and ended in every way; calls that    *)
(* are entered late or never heard; channels that stay alive without voice,   *)
(* after a short over or a long one, for good or for a while.                 *)
EveryUse ==
    {Follow(clear, TRUE, 1, <<On({"speech"}, 1, 2), On({gap}, 9, 11), On({"voice"}, 1, 1),
                              On({"noise"}, 36, 36)>>) :
        clear \in BOOLEAN, gap \in {"noise", "frame"}}
    \cup
    {Follow(clear, FALSE, 0, <<On({"speech"}, 5, 6), On({"end", "ptt", "voice", "weakEnd"}, 1, 3),
                               On({last}, 36, 36)>>) :
        clear \in BOOLEAN, last \in {"noise", "off"}}
    \cup
    {Follow(clear, FALSE, 2, <<On({first}, 4, 6), On({last}, 36, 36)>>) :
        clear \in BOOLEAN, first \in {"voice", "frame", "noise", "other"}, last \in {"noise", "off"}}
    \cup
    {Follow(clear, TRUE, 0, <<On({"speech"}, n, n + 1), On({last}, 120, 120)>>) :
        clear \in BOOLEAN, n \in {1, 40}, last \in {"frame", "idle", "hang", "ghost", "other"}}
    \cup
    {Follow(clear, TRUE, 1, <<On({"speech"}, 2, 2), On({kept}, 20, 70), On({"noise"}, 36, 36)>>) :
        clear \in BOOLEAN, kept \in {"frame", "idle"}}
=============================================================================
