---------------------------- MODULE MCITSDeploy ----------------------------
(* Model values and strategies for the TLC runs of ITSDeploy. *)
EXTENDS ITSDeploy, FiniteSets

CONSTANTS r1, r2

S(type, shape, fault, tag) ==
    [type |-> type, shape |-> shape, fault |-> fault, tag |-> tag]

NoRequest == {}
OneRequest == {r1}
TwoRequests == {r1, r2}

stop     == S("STOP", "zero", FALSE, 0)
toZero   == S("DEGRADE", "zero", TRUE, 0)
toSome   == S("DEGRADE", "some", TRUE, 0)
recover  == S("RECOVER", "some", FALSE, 0)
pdFault  == S("PD_REBUILD", "some", TRUE, 0)
pdOther  == S("PD_REBUILD", "some", FALSE, 0)
stopElse == S("STOP", "absent", FALSE, 1)
recoverElse == S("RECOVER", "absent", FALSE, 1)

\* Pairs of strategies: one of every type, and a RECOVER that leaves this executor out.
EveryType == {stop, toZero, recover, recoverElse, pdOther}
\* A single strategy, of the remaining shapes.
OtherShapes == {stop, toSome, recover, pdFault, stopElse}
JustDegrade == {toSome}
NoStrategies == {}
=============================================================================
