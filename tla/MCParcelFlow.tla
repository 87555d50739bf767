---------------------------- MODULE MCParcelFlow ----------------------------
(* Instances of ParcelFlow for TLC.                                        *)
EXTENDS ParcelFlow

CONSTANTS c1, c2, p1

\* t1 has a slot in both tables, t2 in none of them; the table for arrivals has
\* no slot for intercepted parcels.
MCTerminal == {"t1", "t2"}
MCArrivalSlot == ("t1" :> 1) @@ ("abnormal" :> 2)
MCDepartureSlot == ("t1" :> 2) @@ ("abnormal" :> 1) @@ ("intercepted" :> 1)

\* Scans of a code follow each other; the supply port is busy or broken at times.
Orderly == [overlap |-> FALSE, dbFails |-> FALSE, portFails |-> TRUE, pda |-> FALSE,
            stations |-> {1, 2}, codes |-> {c1, c2},
            scans |-> 2, frames |-> 0, switches |-> 1]

\* A third scan, and a change of the mode in between.
Long == [Orderly EXCEPT !.portFails = FALSE, !.codes = {c1}, !.scans = 3, !.switches = 2]

\* Scans overlap, and statements fail.
Rough == [Orderly EXCEPT !.overlap = TRUE, !.dbFails = TRUE, !.portFails = FALSE]

\* A parcel is unloaded while another one is scanned, maybe under the same number.
Mixed == [Orderly EXCEPT !.portFails = FALSE, !.stations = {1}, !.frames = 1]

\* The PLC repeats the unload message of a parcel, before or after it is handled.
Repeating == [Mixed EXCEPT !.codes = {c1}, !.scans = 1, !.frames = 2]

\* Hand scanners bind packages, statements fail.
Bound == [Repeating EXCEPT !.pda = TRUE, !.dbFails = TRUE, !.frames = 1]

MCPlants == {Orderly, Long, Rough, Mixed, Repeating, Bound}

\* Three scans of one code overlap; no statement fails.
Overlapping == [Long EXCEPT !.overlap = TRUE, !.switches = 1]
MCPlantRow == {Overlapping}
=============================================================================
