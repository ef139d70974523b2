-------------------------- MODULE MCWifiCredentials --------------------------
EXTENDS WifiCredentials, TLC

Symmetry == Permutations(Ssids) \union Permutations(Passwords)

=============================================================================
