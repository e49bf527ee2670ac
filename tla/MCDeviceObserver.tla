-------------------------- MODULE MCDeviceObserver --------------------------
(* Instances of DeviceObserver for TLC: addresses are those of 10.0.0.0/16. *)
EXTENDS DeviceObserver, TLC

At(third, last) == 256 * third + last

\* A device, a second address of its or another device's, the host, 0.0.0.0.
Addresses == {At(5, 100), At(9, 254), At(5, 7), 0}
NotRoutable == {0}

\* One address in half of the device's subnet; one in a subnet that holds
\* everything, which is among the addresses observed; one elsewhere and, of the
\* adapter that is not listened on, one beside the second address.
HostAddresses ==
  { "selected" :> {[ip |-> At(5, 200), prefix |-> 25]} @@ "other" :> {},
    "selected" :> {[ip |-> At(5, 7), prefix |-> 16]} @@ "other" :> {},
    "selected" :> {[ip |-> At(7, 1), prefix |-> 24]} @@ "other" :> {[ip |-> At(9, 9), prefix |-> 24]} }

\* Devices are interchangeable, and names.
Symmetry == Permutations(Mac \ HostMacs) \union Permutations(Hostname)
=============================================================================
