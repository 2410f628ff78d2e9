------------------------ MODULE MCSovereignOperator ------------------------
(* Two buckets.  b1 holds two uploads and a version, b2 two versions of    *)
(* one key; a canary takes the older target of each bucket.  A ceiling of  *)
(* 80 % lets four of five pass and stops two of two.  The settings: all    *)
(* uploads and versions due but w, for two epochs; b1 under MONITOR_ONLY;  *)
(* a mixed bucket, whose canary cannot pass; a dry run; one epoch only.    *)
EXTENDS SovereignOperator, TLC

CONSTANTS b1, b2, u1, u2, w, v1, v2, key1, key2, key3

MCBuckets == <<b1, b2>>
MCListing == (b1 :> <<u1, u2, w>>) @@ (b2 :> <<v1, v2>>)
MCUpload == {u1, u2}
MCKeyOf == (u1 :> key1) @@ (u2 :> key2) @@ (w :> key1) @@ (v1 :> key3) @@ (v2 :> key3)
MCBorn == (u1 :> 2) @@ (u2 :> 1) @@ (w :> 3) @@ (v1 :> 1) @@ (v2 :> 2)

Setting(dryRun, once, monitor, due) ==
  [dryRun |-> dryRun, once |-> once, monitor |-> monitor, due |-> due]

MCOptions ==
  {Setting(FALSE, FALSE, {}, {u1, u2, v1, v2}),
   Setting(FALSE, FALSE, {b1}, {u1, u2, w, v1}),
   Setting(FALSE, FALSE, {}, {u1, w}),
   Setting(TRUE, FALSE, {}, {u1, u2, v1, v2}),
   Setting(FALSE, TRUE, {}, {u1, u2})}

MCExceptions == {{}, {"denied"}}

\* outcomes are 0 and 1, which are floats
MCFloat32 == [x \in 0..Scale |-> x]
=============================================================================
