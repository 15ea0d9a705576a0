------------------------------ MODULE MCPiiVault ------------------------------
(* Two handles of two systems over two values, for TLC, with digests that    *)
(* are all different, and a vault from before tokens were bound to a system.  *)
EXTENDS PiiVault, TLC

CONSTANTS v1

OldHex == <<"old", Unset, v1>>
AllHexes == (Contents \X Issuers \X Values) \union {OldHex}
Injective(k, t, v) == <<k, t, v>>
OldVault == {[hex |-> OldHex, value |-> v1, tenant |-> Unset]}
Interchangeable ==
    Permutations(Handles) \union Permutations(Keys) \union Permutations(Tenants)
        \union Permutations(FieldTiers)
=============================================================================
