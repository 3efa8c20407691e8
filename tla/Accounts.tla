------------------------------- MODULE Accounts -------------------------------
(***************************************************************************)
(* update_password of src/src/lib/pwd.c over the Ext2 driver: a process    *)
(* reads the account file, deletes it, creates it again and writes what it *)
(* read.  Each is a system call, and those of other processes come         *)
(* between.  Bound: an update is followed while no other call writes and   *)
(* no stop comes; what they do to the disk goes on.                        *)
(***************************************************************************)
EXTENDS Ext2

VARIABLE update  \* where update_password is, and the path of the file

Resting == [at |-> "no", path |-> <<>>]

\* The file has one block, as buf has.
Accountable(p) ==
    IsFile(p) /\ tree[p][2] \in [{0} -> {DataBlock(v) : v \in Values}]

\* open, read and close.
ReadAccounts(p) ==
    /\ update.at \in {"no", "done"} /\ Followed /\ stops = 0 /\ euid = 0 /\ Plain
    /\ Accountable(p)
    /\ update' = [at |-> "read", path |-> p]
    /\ UNCHANGED vars

\* The result of create_file is not looked at.
Unlink == /\ update.at = "read" /\ euid = 0
          /\ DeleteFile(update.path)
          /\ update' = IF stops' # stops THEN Resting ELSE [update EXCEPT !.at = "unlinked"]
Create == /\ update.at = "unlinked" /\ euid = 0
          /\ \/ CreateFile(update.path)
             \/ ~ext2_create_file(Volume, euid, update.path).ok /\ UNCHANGED vars
          /\ update' = IF stops' # stops THEN Resting ELSE [update EXCEPT !.at = "created"]

\* open fails when there is no file.
Rewrite ==
    /\ update.at = "created" /\ euid = 0
    /\ IF ext2_open_file(disk, euid, update.path)
       THEN \E v \in Values : WriteFile(update.path, 0, 1, v)
       ELSE UNCHANGED vars
    /\ update' = IF stops' # stops THEN Resting ELSE [update EXCEPT !.at = "done"]

Others == Next /\ update' = Resting

AccountsNext == (\E p \in Paths : ReadAccounts(p)) \/ Unlink \/ Create \/ Rewrite \/ Others
AccountsSpec == Init /\ update = Resting /\ [][AccountsNext]_<<vars, update>>

\* Everything has its type, and the driver's counts are on the disk.
AccountsTypeOK ==
    /\ TypeOK
    /\ update \in [at : {"no", "read", "unlinked", "created", "done"}, path : AllPaths]

\* An update with no other call in between and no stop always ends with the
\* accounts in the file, on a full disk too: what unlink gives back is enough,
\* and an older file of the same name does not come up in its place.
AccountsAreKept == update.at = "done" => Accountable(update.path)

=============================================================================
