---------------------------- MODULE MCSysfsFile -----------------------------
(***************************************************************************)
(* SysfsFile for TLC.  A tick is 100 ns as in a Filetime; the epoch of     *)
(* 1970 is put 2 ticks after that of 1601, so that the timestamps reach    *)
(* the tick zero (-200), a tick cut toward zero (-150, 150) and the epoch  *)
(* itself (0).                                                             *)
(***************************************************************************)
EXTENDS SysfsFile

MCTimestamps == {-200, -150, 0, 150}

=============================================================================
