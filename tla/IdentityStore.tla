--------------------------- MODULE IdentityStore ---------------------------
(***************************************************************************)
(* What the two flash copies of the configuration promise about the         *)
(* device's identity: there is the identity in use and the identity a       *)
(* reboot would find, each a whole identity the server issued or none.      *)
(***************************************************************************)
CONSTANTS
    Ids,    \* identities the server may issue
    None    \* no identity: the device would register

VARIABLES inUse, stored

Init == stored \in Ids \cup {None} /\ inUse = stored

\* The server issues an identity to a device that has none.
Issue == inUse = None /\ inUse' \in Ids /\ UNCHANGED stored

\* The identity in use, and no other, becomes the stored one.
Commit == inUse # None /\ stored = None /\ stored' = inUse /\ UNCHANGED inUse

\* While a configuration is being written a power loss would lose it.
Expose == stored' = None /\ UNCHANGED inUse

\* A reboot uses what is stored.
Reboot == inUse' = stored /\ UNCHANGED stored

Next == Issue \/ Commit \/ Expose \/ Reboot

Spec == Init /\ [][Next]_<<inUse, stored>>

=============================================================================
