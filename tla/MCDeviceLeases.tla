---------------------------- MODULE MCDeviceLeases ----------------------------
(* Small instances of DeviceLeases for TLC. *)
EXTENDS DeviceLeases, TLC

CONSTANTS tunerA, tunerB, rtl, duo, usb

Free == [k \in Key |-> None]

(* One radio, or none after an unplug.                                       *)
SingleLists == {<<[key |-> rtl, domain |-> usb]>>, <<>>}
FreePlans == {Free}

(* One RSPduo with two tuners, discovered in either order.                   *)
DuoLists == {<<[key |-> tunerA, domain |-> duo], [key |-> tunerB, domain |-> duo]>>,
             <<[key |-> tunerB, domain |-> duo], [key |-> tunerA, domain |-> duo]>>}

(* The tuners differ in nothing but their place in the list. *)
TunerSymmetry == Permutations({tunerA, tunerB})

(* Two radios, which discovery may later report under one identity, or lose. *)
TwinLists == {<<[key |-> rtl, domain |-> usb], [key |-> tunerA, domain |-> duo]>>,
              <<[key |-> rtl, domain |-> usb], [key |-> rtl, domain |-> usb]>>,
              <<>>}
TwinPlans == {Free, [k \in Key |-> IF k = rtl THEN Listen ELSE None]}

=============================================================================
