------------------------- MODULE MCProviderHealth -------------------------
(***************************************************************************)
(* Instances of ProviderHealth for TLC.                                    *)
(***************************************************************************)
EXTENDS ProviderHealth

\* The shipped canary: generate_204, whose body is not looked at, and two files.
ShippedCanary ==
  << [named |-> TRUE, expect |-> 204, statusOnly |-> TRUE],
     [named |-> TRUE, expect |-> 200, statusOnly |-> FALSE],
     [named |-> TRUE, expect |-> 200, statusOnly |-> FALSE] >>

AddressAndName == << FALSE, TRUE >>

AnyWeather == WeatherKinds
=============================================================================
