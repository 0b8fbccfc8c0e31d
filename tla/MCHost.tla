------------------------------- MODULE MCHost -------------------------------
(***************************************************************************)
(* Instances of Host for TLC: an operator who renumbers and re-addresses   *)
(* two providers, tries connection pinning and makes a mistake.            *)
(***************************************************************************)
EXTENDS Host

MCKind(text) ==
    CASE text \in {"1.1.1.1", "8.8.8.8", "10.0.0.1", "10.0.1.1", "10.0.1.9"} -> "unicast"
      [] text \in {"google.com", "cloudflare.com"} -> "hostname"
      [] text = "127.0.0.1:7650" -> "loopback socket"
      [] text \in {"throughput-64k.bin", "generate_204", "success.txt", "canary.txt"} -> "url"
      [] text = "DenisHumen/vlb-Virtual-Load-Balancer" -> "repo"
      [] OTHER -> "plain"

Uplink(name, gateway, interface, priority) ==
    [name |-> name, gateway |-> gateway, interface |-> interface, priority |-> priority]

Fiber(n) == Uplink("fiber", "10.0.0.1", "eth0", n)
Mobile(n) == Uplink("mobile", "10.0.1.1", "eth1", n)

Plain == Defaults(<<Fiber(0), Mobile(1)>>)

Pinned == [Plain EXCEPT !.routing.pin_connections = TRUE, !.general.lan_interface = "lan0"]

\* The other provider preferred, behind another router, on one wire.
Swapped == [Pinned EXCEPT !.providers = <<Fiber(1), Uplink("mobile", "10.0.1.9", "eth0", 0)>>]

\* Pinning off again, on a LAN that moved to another interface.
Unpinned == [Plain EXCEPT !.general.lan_interface = "lan1", !.firewall.manage = FALSE]

\* Two providers with one priority.
Mistaken == [Plain EXCEPT !.providers = <<Fiber(0), Mobile(0)>>]

MCSetting ==
    [s \in {"plain", "pinned", "swapped", "unpinned", "mistaken"} |->
        CASE s = "plain" -> Plain [] s = "pinned" -> Pinned [] s = "swapped" -> Swapped
          [] s = "unpinned" -> Unpinned [] s = "mistaken" -> Mistaken]

OnePlain == [s \in {"plain"} |-> Plain]
=============================================================================
