--------------------------- MODULE MCAccountSweep ---------------------------
(* Three accounts, one of them inactive.  An account that another one      *)
(* pushes to the next page between two requests is listed twice.  The role *)
(* is one of each account, or one of a1 for all; a session may be shorter  *)
(* than the refresh window from the start.                                 *)
EXTENDS AccountSweep

CONSTANTS a1, a2, a3

MCAccount == {a1, a2, a3}
MCRoles == {None, a1}
MCDirectories == {<<<<a1, a2>>, <<a2, a3>>>>}
=============================================================================
