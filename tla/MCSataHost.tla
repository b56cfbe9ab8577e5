----------------------------- MODULE MCSataHost -----------------------------
(***************************************************************************)
(* The hosts of the runs of SataHost.                                      *)
(***************************************************************************)
EXTENDS SataHost

\* A host that gives up on nothing that slow_cmd or the full queue holds.
Enduring == {"idle", "active"}

\* A host that also resets the drive in the middle of a long flush.
InFlush == {"slow"}
=============================================================================
