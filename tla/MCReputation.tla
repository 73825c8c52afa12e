---------------------------- MODULE MCReputation ----------------------------
(* Reputation for a node with no stake, with a small one, and with a large   *)
(* one that two bonds are locked on.                                         *)
EXTENDS Reputation

Bond(type, amount, conditions) ==
    [type |-> type, amount |-> amount, conditions |-> conditions, forfeited |-> FALSE]

OnTSS == Bond("TSS", 6, {"Uptime90Percent"})
OnWatch == Bond("Watchtower", 8, {"NoDisputesLost"})
BondSet == {OnTSS, OnWatch}

StartSet ==
    {[stake |-> -1, bonds |-> <<>>],
     [stake |-> 10, bonds |-> <<>>],
     [stake |-> 10, bonds |-> <<OnTSS, OnWatch>>]}
=============================================================================
