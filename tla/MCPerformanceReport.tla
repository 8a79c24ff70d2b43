------------------------ MODULE MCPerformanceReport ------------------------
(* Instances of PerformanceReport for TLC: two invocations with the same host *)
(* test, one of which has a device test before it; and that one alone.        *)
EXTENDS PerformanceReport, TLC

DeviceTest == [abi |-> "32", test |-> "d", host |-> FALSE]
HostTest   == [abi |-> "32", test |-> "h", host |-> TRUE]

TwoInvocations == "first" :> <<DeviceTest, HostTest>> @@ "second" :> <<HostTest>>
OneInvocation  == "first" :> <<DeviceTest, HostTest>>

\* A device is nothing but its serial.
Symmetry == Permutations(Devices)
=============================================================================
