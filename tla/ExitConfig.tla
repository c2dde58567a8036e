----------------------------- MODULE ExitConfig -----------------------------
(***************************************************************************)
(* From config.json's vpn block to what the exits module runs with         *)
(* (modules/exits/config.go, setup.go, wgconf.go, proton.go).              *)
(*                                                                         *)
(* A raw provider or exit is the set of options it sets and the subset of  *)
(* them whose values do not parse; the values themselves matter only where *)
(* something is decided by them.  Servers carry what lists and .conf files *)
(* say of them in Info.                                                    *)
(***************************************************************************)
EXTENDS Integers, FiniteSets, Sequences

CONSTANTS
    Info        \* what is known of each server: see ServerInfo

(* names: the names a server goes by; places: its city, country, area and   *)
(* continent; country "" when unknown; sound: the entry or file parses.    *)
ServerInfo == [names : SUBSET STRING, country : STRING, places : SUBSET STRING,
               free : BOOLEAN, core : BOOLEAN, tor : BOOLEAN, sound : BOOLEAN]

ConfSources  == {"config_file", "config_files", "config_dir"}
ProtonOnly   == {"private_keys", "tier", "filter"}
WireGuardOnly == ConfSources \cup {"servers"}

(* loadProvider: which options must parse, which may not be set.           *)
ProviderAccepted(raw) ==
    /\ raw.bad \cap {"name", "max_tunnels", "fallback_dns"} = {}
    /\ \/ /\ raw.type = "protonvpn"
          /\ raw.set \cap WireGuardOnly = {}
          /\ raw.keys > 0
          /\ raw.bad \cap ProtonOnly = {}
       \/ /\ raw.type = "wireguard"
          /\ raw.set \cap ProtonOnly = {} /\ raw.keys = 0
          /\ Cardinality(raw.set \cap ConfSources) = 1
          /\ "country" \in raw.set => "config_file" \in raw.set
          /\ raw.bad \cap {"country", "servers"} = {}

LoadProvider(raw) ==
    [type |-> raw.type, keys |-> raw.keys, tier |-> raw.tier, filter |-> raw.filter, files |-> raw.files,
     max |-> IF raw.type = "protonvpn" /\ raw.max = 0 THEN raw.keys ELSE raw.max]

(* loadExit                                                                *)
ExitAccepted(name, raw) ==
    /\ name # "direct" /\ raw.bad = {}
    /\ raw.provider # ""
    /\ raw.strict => raw.locations # <<>>
    /\ raw.selection \in {"sticky", "random", "least-failed"}

(* Load: what has a problem is left out, and the exits of a provider that  *)
(* is left out with it.                                                    *)
Load(vpn) ==
    LET providers == {p \in DOMAIN vpn.providers : ProviderAccepted(vpn.providers[p])}
        exits == {e \in DOMAIN vpn.exits : ExitAccepted(e, vpn.exits[e]) /\ vpn.exits[e].provider \in providers}
    IN [providers |-> [p \in providers |-> LoadProvider(vpn.providers[p])],
        exits |-> [e \in exits |-> vpn.exits[e]]]

(* Mutant: max_tunnels as configured.                                      *)
Uncapped(provider) == provider

(* Setup: one tunnel per Proton key at most.                               *)
Capped(provider) ==
    IF provider.type = "protonvpn" /\ provider.max > provider.keys
    THEN [provider EXCEPT !.max = provider.keys] ELSE provider

Setup(vpn) ==
    LET config == Load(vpn) IN
    [config EXCEPT !.providers = [p \in DOMAIN @ |-> Capped(@[p])]]

(* modeAllows, protonFilter, protonServers                                 *)
ModeAllows(mode, has) == (mode = "only" => has) /\ (mode = "exclude" => ~has)

FilterAllows(provider, s) ==
    LET filter == provider.filter IN
    /\ provider.tier = "free" => Info[s].free
    /\ ModeAllows(filter.core, Info[s].core)
    /\ ModeAllows(filter.tor, Info[s].tor)
    /\ filter.places = {} \/ filter.places \cap Info[s].places # {}
    /\ filter.servers = {} \/ filter.servers \cap Info[s].names # {}

ProtonServers(list, provider) ==
    {s \in list : Info[s].sound /\ Info[s].country # "" /\ FilterAllows(provider, s)}

(* LoadConfs, ParseConf: a file that does not parse is skipped.            *)
LoadConfs(provider) == {s \in provider.files : Info[s].sound}

LoadServers(list, provider) ==
    IF provider.type = "protonvpn" THEN ProtonServers(list, provider) ELSE LoadConfs(provider)
=============================================================================
