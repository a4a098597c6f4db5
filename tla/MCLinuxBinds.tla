---------------------------- MODULE MCLinuxBinds -----------------------------
EXTENDS LinuxBinds, MCLaunchHosts

MCHosts == NestedHosts \cup LinkHosts \cup SocketHosts \cup OddHosts
=============================================================================
