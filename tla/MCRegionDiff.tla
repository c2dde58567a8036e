---------------------------- MODULE MCRegionDiff -----------------------------
(* A show of two segments, with ads before it, between them or repeated,   *)
(* with break markers, re-encoded, cut off and with colliding hashes.      *)
EXTENDS RegionDiff

Frame(sound, clean, take) ==
    [sound |-> sound, take |-> take, begin |-> IF clean THEN 0 ELSE 1, size |-> 1]

Segment(sounds, take) == [i \in DOMAIN sounds |-> Frame(sounds[i], i = 1, take)]

First(t)  == Segment(<<"s1", "s2", "s3">>, t)
Second(t) == Segment(<<"s4", "s5", "s6">>, t)
AdA(t) == Segment(<<"a1", "a2">>, t)
AdB(t) == Segment(<<"b1", "b2">>, t)
AdX(t) == Segment(<<"x1", "x2">>, t)        \* collides with ad A
Mark(t) == Segment(<<"m">>, t)

MP3(frames) == [format |-> "mp3", frames |-> frames, measurable |-> TRUE]

Sent ==
    [ plain |-> MP3(First(1) \o Second(1)),
      preA  |-> MP3(AdA(1) \o First(1) \o Second(1)),
      preB  |-> MP3(AdB(1) \o First(1) \o Second(1)),
      preX  |-> MP3(AdX(1) \o First(1) \o Second(1)),
      midB  |-> MP3(First(1) \o AdB(1) \o Second(1)),
      twiceA |-> MP3(AdA(1) \o First(1) \o AdA(1) \o Second(1)),
      bothBA |-> MP3(AdB(1) \o First(1) \o AdA(1) \o Second(1)),
      markA |-> MP3(First(1) \o Mark(1) \o AdA(1) \o Mark(1) \o Second(1)),
      markB |-> MP3(First(1) \o Mark(1) \o AdB(1) \o Mark(1) \o Second(1)),
      moved |-> MP3(First(1) \o AdA(1) \o Second(1)),
      againB |-> MP3(First(2) \o AdB(2) \o Second(2)),
      short |-> MP3(First(1)),
      page  |-> [format |-> "none", frames |-> <<>>, measurable |-> FALSE] ]

MCContent == DOMAIN Sent
MCDownload(c) == Sent[c]
MCShow == {"s1", "s2", "s3", "s4", "s5", "s6"}

MCHash(f) == CASE f.sound = "x1" -> [f EXCEPT !.sound = "a1"]
               [] f.sound = "x2" -> [f EXCEPT !.sound = "a2"]
               [] OTHER          -> f

Host(no, se, us) == [no |-> no, se |-> se, us |-> us]

MCHosts ==
    { Host({"preA"}, {"preB"}, {"midB"}), Host({"preA"}, {"preA"}, {"preX"}),
      Host({"plain"}, {"plain"}, {"plain"}), Host({"twiceA"}, {"bothBA"}, {"plain"}),
      Host({"preA"}, {"againB"}, {"moved"}), Host({"preA", "short"}, {"preB", "page"}, {"preA"}),
      Host({"markA"}, {"markB"}, {"markB"}) }

MCCountries == [home |-> {"no"}, other |-> {"se", "no"}, third |-> {"us"}, direct |-> {"no"}]
MCExit == DOMAIN MCCountries

Block(exits, fallbacks, tunnels, pairDownloads, markers) ==
    [ exits |-> exits, fallbacks |-> fallbacks, tunnels |-> tunnels, pairDownloads |-> pairDownloads,
      enabled |-> TRUE, options |-> [audio |-> TRUE, repeats |-> TRUE, markers |-> markers] ]

MCBlocks ==
    { Block(<<"home", "other">>, <<"third", "home", "gone">>, 1, "auto", TRUE),
      Block(<<"home", "other">>, <<"third">>, 3, "auto", FALSE),
      Block(<<"home", "other">>, <<"third">>, 2, "in_turn", TRUE),
      Block(<<"home", "home">>, <<"third">>, 2, "auto", TRUE) }

Feed(exits, diff, audio, stated) ==
    [exits |-> exits, diff |-> diff, audio |-> audio, repeats |-> "", markers |-> "", stated |-> stated]

MCFeeds == {Feed(<<>>, "", "", 0), Feed(<<"direct", "third">>, "on", "off", 6)}

Quiet == [cancel |-> 0, fault |-> 0, move |-> 0, idle |-> 0]

MCBudgets == {[Quiet EXCEPT ![k] = 1] : k \in DOMAIN Quiet}

MCSymmetry == Permutations(Attempt)

(* What the proof that cuts are sound assumes of the comparison holds of   *)
(* these hosts' downloads.                                                 *)
ASSUME MCComparisonsSound == ComparisonsSound
=============================================================================
