---------------------------- MODULE MCFleetSweep ----------------------------
(* Four buckets, one of which goes away and one of which is excluded, on   *)
(* two slots: a crash can find two audits out and two saved or waiting.    *)
EXTENDS FleetSweep

CONSTANTS b1, b2, b3, b4

MCBucket == {b1, b2, b3, b4}
MCErrors == {{}}
MCListings == {<<b1, b2, b3, b4>>, <<b1, b3, b4>>}
=============================================================================
