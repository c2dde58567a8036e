-------------------------- MODULE MCDownloadSystem --------------------------
(***************************************************************************)
(* Servers, server lists and vpn blocks for the run of DownloadSystem.     *)
(***************************************************************************)
EXTENDS DownloadSystem

Place(names, country, places) ==
    [names |-> names, country |-> country, places |-> places \cup {country},
     free |-> FALSE, core |-> FALSE, tor |-> FALSE, sound |-> TRUE]

MCInfo == <<Place({"NO#1"}, "NO", {"europe"}),
            Place({"SE#1"}, "SE", {"europe"}),
            Place({"DK#1"}, "DK", {"europe"})>>
MCUpstream == <<{1, 2}, {1, 2, 3}>>

MCSize == <<2, 2>>

Filter == [core |-> "exclude", tor |-> "exclude", places |-> {}, servers |-> {}]
ProtonRaw(keys, max) ==
    [type |-> "protonvpn", set |-> {"private_keys"}, bad |-> {}, keys |-> keys, max |-> max,
     tier |-> "plus", filter |-> Filter, files |-> {}]
Exit(locations, strict, exclude, selection) ==
    [provider |-> "vpn", locations |-> locations, strict |-> strict, exclude |-> exclude,
     selection |-> selection, bad |-> {}]

WireGuardRaw(max, files) ==
    [type |-> "wireguard", set |-> {"config_files"}, bad |-> {}, keys |-> 0, max |-> max,
     tier |-> "", filter |-> Filter, files |-> files]
Vpn(raw, exits) == [providers |-> [vpn |-> raw], exits |-> exits]

(* Exits that contend for a Proton account's one key, and exits that share *)
(* a tunnel to a server of their own.                                      *)
MCVpns == {Vpn(ProtonRaw(1, 2),
               [north |-> Exit(<<"NO", "europe">>, FALSE, {"SE"}, "sticky"),
                any   |-> Exit(<<>>, FALSE, {"NO"}, "least-failed")]),
           Vpn(WireGuardRaw(1, {2, 3}),
               [north |-> Exit(<<"SE">>, TRUE, {}, "sticky"),
                any   |-> Exit(<<>>, FALSE, {"NO"}, "random")])}

MCAsked == [c1 |-> "north", c2 |-> ""]
Inside == [fits |-> TRUE, public |-> FALSE]
Outside == [fits |-> TRUE, public |-> TRUE]
MCAddresses == [c1 |-> <<Inside, Outside, [Outside EXCEPT !.fits = FALSE]>>, c2 |-> <<Outside, Outside>>]
MCHops == [c1 |-> 2, c2 |-> 1]
=============================================================================
