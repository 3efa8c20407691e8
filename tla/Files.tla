-------------------------------- MODULE Files --------------------------------
(***************************************************************************)
(* fs.c over the Ext2 driver: the working directory and the mounts, and    *)
(* the calls that reach the driver, those of update_password among them.   *)
(***************************************************************************)
EXTENDS Accounts, PathNames

FilesInit == Init /\ update = Resting /\ PathInit

\* Bound: the driver gets the same normal path from whatever directory a file
\* is named, so one of the two stays as it began while the other changes.
FilesNext ==
    \/ AccountsNext /\ PathInit /\ UNCHANGED pathVars
    \/ PathNext /\ UNCHANGED <<vars, update>> /\ disk = Mkfs(<<>>) /\ update = Resting /\ euid = 0

FilesSpec == FilesInit /\ [][FilesNext]_<<vars, update, pathVars>>

=============================================================================
