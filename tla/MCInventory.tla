------------------------------ MODULE MCInventory ------------------------------
(***************************************************************************)
(* Two super admins and an administrator, amy, who added one Nexus switch   *)
(* herself and holds another, read-only, granted by root.                   *)
(***************************************************************************)
EXTENDS Inventory

MCRow(ip) ==
    [here |-> TRUE, owner |-> "amy", ip |-> ip, type |-> "nexus", peer |-> 0,
     grantor |-> "nobody", access |-> "write",
     proven |-> TRUE, allowed |-> "read", serial |-> 1]

MCOutset ==
    [roles |-> [root |-> "super_admin", sam |-> "super_admin", amy |-> "admin"],
     rows  |-> <<MCRow("x"),
                 [MCRow("y") EXCEPT !.grantor = "root", !.access = "read", !.serial = 2,
                                    !.proven = FALSE]>>]

=============================================================================
