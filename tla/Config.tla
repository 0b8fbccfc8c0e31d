------------------------------- MODULE Config -------------------------------
(***************************************************************************)
(* core/config.rs: the settings with their defaults, which of them         *)
(* `Config::validate` accepts, and the numbers derived from them by which  *)
(* the kernel tells the providers apart.                                   *)
(*                                                                         *)
(* A configuration is a record of sections.  Of a text only what the       *)
(* parsers make of it matters, which is Kind.  Settings that nothing       *)
(* checks and nothing here reads (retention, paths, lease files) are left  *)
(* out.  Numbers of 64 bits do not reach their width.                      *)
(***************************************************************************)
EXTENDS Integers, FiniteSets, Sequences, Probes

CONSTANTS
    Width,    \* bits of an unsigned integer: 32 in the code
    U32Max,
    Kind(_)   \* what a text is: an address of some kind, "hostname", "url"...

ASSUME WidthAssumption ==
    /\ Width \in Nat /\ U32Max \in Nat /\ U32Max + 1 = 2 ^ Width
    /\ U32Max >= 32766   \* a rule preference fits

Unset == "unset"
U32 == 0..U32Max

AddressKinds == {"unicast", "unspecified", "loopback", "broadcast", "multicast"}

IsAddress(text) == Kind(text) \in AddressKinds

-----------------------------------------------------------------------------
(***************************************************************************)
(* Defaults.                                                               *)
(***************************************************************************)
DefaultClients ==
    [enabled |-> Unset, interval_secs |-> 5, persist_every_secs |-> 60,
     offline_after_secs |-> 180, max_tracked |-> 512, names |-> {}]

DefaultThroughput ==
    [enabled |-> TRUE, url |-> "throughput-64k.bin", min_kbps |-> 128,
     interval_secs |-> 120, timeout_ms |-> 15000, failure_threshold |-> 2]

DefaultCanaryTargets ==
    << [url |-> "generate_204", expect_status |-> 204, expect |-> {}],
       [url |-> "success.txt", expect_status |-> 200, expect |-> {"exact"}],
       [url |-> "canary.txt", expect_status |-> 200, expect |-> {"contains"}] >>

DefaultCanary ==
    [enabled |-> TRUE, interval_secs |-> 10, timeout_ms |-> 4000, quorum |-> "majority",
     failure_threshold |-> 2, user_agent |-> "vlb (uplink-canary)",
     targets |-> DefaultCanaryTargets, throughput |-> DefaultThroughput]

DefaultFailover ==
    [failback_stable_secs |-> 30, flap_threshold |-> 3, flap_window_secs |-> 600,
     max_failback_stable_secs |-> 900, route_watchdog_secs |-> 15]

DefaultUpdate ==
    [repo |-> "DenisHumen/vlb-Virtual-Load-Balancer", allow_prerelease |-> FALSE,
     restart_service |-> TRUE, service_name |-> "vlb"]

DefaultGeneral == [lan_interface |-> Unset, gateway_address |-> Unset]

DefaultHealth ==
    [interval_secs |-> 3, timeout_ms |-> 1000, failure_threshold |-> 2,
     dns_failure_threshold |-> 4, success_threshold |-> 2,
     probe_targets |-> <<"1.1.1.1", "8.8.8.8", "google.com">>,
     dns_check_enabled |-> TRUE, dns_resolvers |-> <<"1.1.1.1", "8.8.8.8">>,
     dns_check_name |-> "cloudflare.com", status_print_secs |-> 900,
     dns_integrity_check |-> TRUE]

DefaultRouting ==
    [table_base |-> 200, fwmark_base |-> 512, rule_pref |-> 32000,
     fwmark_mask |-> 65535, pin_connections |-> FALSE]

DefaultFirewall ==
    [manage |-> TRUE, disable_host_firewall |-> FALSE, wan_interface |-> Unset]

DefaultControl == [listen |-> "127.0.0.1:7650"]

DefaultSampling == [enabled |-> TRUE, interval_secs |-> 2]

\* What a file that lists these providers and nothing else means.
Defaults(providers) ==
    [general |-> DefaultGeneral, health |-> DefaultHealth, canary |-> DefaultCanary,
     failover |-> DefaultFailover, firewall |-> DefaultFirewall,
     routing |-> DefaultRouting, control |-> DefaultControl,
     traffic |-> DefaultSampling, system |-> DefaultSampling,
     clients |-> DefaultClients, update |-> DefaultUpdate, providers |-> providers]

-----------------------------------------------------------------------------
(***************************************************************************)
(* The numbers of a provider: its table, its mark and the place of its     *)
(* rule.  They follow from its priority.                                   *)
(***************************************************************************)
Wrap(n) == n % (U32Max + 1)

TableFor(c, p) == Wrap(c.routing.table_base + p.priority)
MarkFor(c, p) == Wrap(c.routing.fwmark_base + p.priority)
RulePrefFor(c, p) == Wrap(c.routing.rule_pref + p.priority)
SuppressPref(c) == c.routing.rule_pref - 1

Bits(n) == {i \in 0..(Width - 1) : (n \div 2 ^ i) % 2 = 1}

\* The part of a mark that `mark/mask` compares.
Masked(mark, mask) == Bits(mark) \cap Bits(mask)

ProviderSet(c) == {c.providers[i] : i \in DOMAIN c.providers}

\* The numbers of a configuration file: unsigned, and of the code's width.
Typed(c) ==
    /\ c.routing.table_base \in U32 /\ c.routing.fwmark_base \in U32
    /\ c.routing.rule_pref \in U32 /\ c.routing.fwmark_mask \in U32
    /\ c.providers \in Seq(ProviderSet(c))
    /\ \A p \in ProviderSet(c) : p.priority \in U32

-----------------------------------------------------------------------------
(***************************************************************************)
(* `Config::validate`, section by section.                                 *)
(***************************************************************************)
ProvidersAccepted(ps) ==
    /\ ps # <<>>
    /\ \A i, j \in DOMAIN ps : i # j => /\ ps[i].priority # ps[j].priority
                                        /\ ps[i].name # ps[j].name
    /\ \A i \in DOMAIN ps :
          /\ Kind(ps[i].name) \notin {"blank", "spaced"}
          /\ Kind(ps[i].interface) \notin {"blank", "long", "spaced", "separated"}
          /\ Kind(ps[i].gateway) \notin {"unspecified", "broadcast", "multicast"}

\* A round fits in its interval, or the thresholds mean nothing.
Fits(timeout_ms, least, interval_secs) ==
    interval_secs >= 1 /\ timeout_ms >= least /\ timeout_ms < interval_secs * 1000

ResolversNeeded(h) ==
    \/ h.dns_check_enabled
    \/ \E i \in DOMAIN h.probe_targets : ~IsAddress(h.probe_targets[i])

HealthAccepted(h) ==
    /\ Fits(h.timeout_ms, 100, h.interval_secs)
    /\ h.failure_threshold >= 1 /\ h.success_threshold >= 1
    /\ h.probe_targets # <<>>
    /\ \A i \in DOMAIN h.probe_targets : Kind(h.probe_targets[i]) \in {"unicast", "hostname"}
    /\ ResolversNeeded(h) =>
          /\ h.dns_resolvers # <<>>
          /\ \A i \in DOMAIN h.dns_resolvers : Kind(h.dns_resolvers[i]) = "unicast"
    /\ h.dns_check_enabled => Kind(h.dns_check_name) = "hostname"
    /\ h.status_print_secs = 0 \/ h.status_print_secs >= 5

ReservedTables == {253, 254, 255}
MainPref == 32766

TablesAccepted(c) ==
    LET base == c.routing.table_base
    IN  /\ base # 0
        /\ \A p \in ProviderSet(c) :
              /\ base + p.priority < U32Max
              /\ \A t \in ReservedTables : t \notin base..(base + p.priority)

PrefsAccepted(c) ==
    /\ c.routing.rule_pref >= 100
    /\ \A p \in ProviderSet(c) : c.routing.rule_pref + p.priority < MainPref

\* Of the marks only the first and the last are looked at.
MarksAccepted(c) ==
    LET base == c.routing.fwmark_base
        mask == c.routing.fwmark_mask
    IN  /\ base # 0 /\ mask # 0
        /\ \A p \in ProviderSet(c) :
              /\ base + p.priority <= U32Max
              /\ (\A q \in ProviderSet(c) : q.priority <= p.priority)
                    => Bits(base + p.priority) \subseteq Bits(mask)
        /\ Masked(base, mask) # {}

SamplingAccepted(s) == s.enabled => s.interval_secs >= 1

\* A client is named by its hardware address or by its IP address.
LabelAccepted(n) ==
    /\ Kind(n.name) # "blank"
    /\ (n.mac = Unset) # (n.ip = Unset)
    /\ n.mac # Unset => Kind(n.mac) = "mac"

ClientsEnabled(c) ==
    IF c.clients.enabled = Unset THEN c.firewall.manage ELSE c.clients.enabled = "yes"

ClientsAccepted(s) ==
    /\ s.interval_secs >= 1
    /\ s.offline_after_secs >= 3 * s.interval_secs
    /\ s.persist_every_secs >= s.interval_secs
    /\ s.max_tracked \in 1..4096
    /\ \A n \in s.names : LabelAccepted(n)

TargetAccepted(t) ==
    /\ Kind(t.url) = "url"
    /\ Cardinality(t.expect) <= 1
    /\ t.expect \subseteq {"contains", "exact", "sha256"}
    /\ t.expect_status \in (100..599) \ (300..399)

CanaryAccepted(s) ==
    /\ s.targets # <<>>
    /\ Fits(s.timeout_ms, 200, s.interval_secs)
    /\ s.failure_threshold >= 1
    /\ s.quorum \in {"any", "majority", "all"}
    /\ \A i \in DOMAIN s.targets : TargetAccepted(s.targets[i])
    /\ Required(s.quorum, Len(s.targets)) <= Len(s.targets)
    /\ Kind(s.user_agent) # "blank"

ThroughputAccepted(t) ==
    /\ Kind(t.url) = "url"
    /\ t.failure_threshold >= 1
    /\ t.min_kbps \in 1..5000
    /\ Fits(t.timeout_ms, 1000, t.interval_secs)

FailoverAccepted(s) ==
    /\ s.flap_threshold >= 1
    /\ s.max_failback_stable_secs >= s.failback_stable_secs

UpdateAccepted(s) == Kind(s.repo) = "repo" /\ Kind(s.service_name) # "blank"

Accepted(c) ==
    /\ ProvidersAccepted(c.providers)
    /\ HealthAccepted(c.health)
    /\ TablesAccepted(c) /\ PrefsAccepted(c) /\ MarksAccepted(c)
    /\ Kind(c.control.listen) = "loopback socket"
    /\ SamplingAccepted(c.traffic) /\ SamplingAccepted(c.system)
    /\ ClientsEnabled(c) => ClientsAccepted(c.clients)
    /\ c.canary.enabled => /\ CanaryAccepted(c.canary)
                           /\ c.canary.throughput.enabled
                                => ThroughputAccepted(c.canary.throughput)
    /\ FailoverAccepted(c.failover)
    /\ UpdateAccepted(c.update)
=============================================================================
