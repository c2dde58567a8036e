------------------------------ MODULE AudioDiff ------------------------------
(***************************************************************************)
(* Comparing two downloads a host has re-encoded: they share no frame, but *)
(* what they play.  Their sounds stand for their loudness over time, one   *)
(* step a frame, and two stretches correlate when they are the same.  An   *)
(* audio run [home, length, offset] is a stretch of the home download      *)
(* found offset steps further on in the other.  What measuring is inexact  *)
(* about (offsets one step apart, refineRun, edgeSmoothing) is left out.   *)
(***************************************************************************)
EXTENDS FrameDiff

CONSTANTS
    Window, Hop,        \* what is looked for at a time, and how far apart
    Near,               \* of the last offset
    MinAudioRun, MinAudioBreak, LineUpSlack, SearchMargin,
    SearchBudget        \* searches everywhere

ASSUME AudioDiffAssumption ==
    /\ {Window, Hop, MinAudioRun, MinAudioBreak} \subseteq Nat \ {0}
    /\ {Near, LineUpSlack, SearchMargin, SearchBudget} \subseteq Nat

Sounds(file) == [i \in DOMAIN file |-> file[i].sound]

AudioEnd(r) == r.home + r.length

-----------------------------------------------------------------------------
(* findRuns.                                                               *)

WindowAt(home, start) == SubSeq(home, start, start + Window - 1)

(* A window of one sound fits anywhere, and is left out.                   *)
Windows(home) ==
    {start \in 1 .. Len(home) - Window + 1 :
        (start - 1) % Hop = 0 /\ Cardinality(ToSet(WindowAt(home, start))) > 1}

Fits(home, other, start, offsets) ==
    {d \in offsets : /\ 1 <= start + d /\ start + d + Window - 1 <= Len(other)
                     /\ WindowAt(other, start + d) = WindowAt(home, start)}

(* Offsets the share that may be removed allows, and some more.            *)
Offsets(home, other) ==
    LET share == IF MaxRemoved = 0 THEN 100 ELSE MaxRemoved
        ads   == (Len(home) * share) \div 100 + SearchMargin
    IN  -ads .. Len(other) - Len(home) + ads

(* A window goes where the one before it did, or to the one place it fits. *)
Matched(home, other, found, start) ==
    LET nearby == IF found.matches = <<>> THEN {}
                  ELSE LET last == Last(found.matches).offset
                       IN  Fits(home, other, start, last - Near .. last + Near)
        all    == Fits(home, other, start, Offsets(home, other))
        Add(d) == Append(found.matches, [start |-> start, offset |-> d])
    IN  IF found.searches > SearchBudget THEN found
        ELSE IF nearby # {} THEN [found EXCEPT !.matches = Add(Min(nearby))]
        ELSE IF found.searches = SearchBudget \/ all = {} \/ Max(all) > Min(all) + Window
        THEN [found EXCEPT !.searches = @ + 1]
        ELSE [found EXCEPT !.searches = @ + 1, !.matches = Add(Min(all))]

Found(home, other) ==
    LET Next(found, start) == Matched(home, other, found, start)
    IN  FoldLeft(Next, [matches |-> <<>>, searches |-> 0], Ascending(Windows(home), Len(home)))

TooHard(home, other) == Found(home, other).searches > SearchBudget

(* Windows one after the other at one offset are one run.                  *)
AudioRuns(home, other) ==
    LET matches == Found(home, other).matches
        Together(i, j) == \A k \in i .. j : matches[k].offset = matches[i].offset
        groups == {g \in (DOMAIN matches) \X (DOMAIN matches) :
                      /\ g[1] <= g[2] /\ Together(g[1], g[2])
                      /\ g[1] > 1 => ~Together(g[1] - 1, g[2])
                      /\ g[2] < Len(matches) => ~Together(g[1], g[2] + 1)}
        RunOf(g) == [home |-> matches[g[1]].start, offset |-> matches[g[1]].offset,
                     length |-> matches[g[2]].start + Window - matches[g[1]].start]
    IN  {r \in {RunOf(g) : g \in groups} : r.length >= MinAudioRun}

(* By where they start; no two of them start in one place.                 *)
InLine(runs) ==
    LET starts == Ascending({r.home : r \in runs}, Max({0} \cup {r.home : r \in runs}))
    IN  [i \in DOMAIN starts |-> CHOOSE r \in runs : r.home = starts[i]]

Follows(before, after) ==
    /\ after.home >= AudioEnd(before) - Window
    /\ after.home + after.offset >= AudioEnd(before) + before.offset - Window

(* inOrderRuns: the most audio in order in both.                           *)
AudioChains(runs) ==
    LET Ordered(c) == LET s == InLine(c) IN \A i \in 1 .. Len(s) - 1 : Follows(s[i], s[i + 1])
        Audio(c) == LET Length(r) == r.length IN MapThenSumSet(Length, c)
        ordered == {c \in SUBSET runs : Ordered(c)}
    IN  {InLine(c) : c \in {c \in ordered : \A o \in ordered : Audio(o) <= Audio(c)}}

(* Neighbours at one offset are one run.                                   *)
Merged(chain) ==
    LET Join(runs, r) ==
            IF runs = <<>> \/ Last(runs).offset # r.offset THEN Append(runs, r)
            ELSE Append(Front(runs),
                        [Last(runs) EXCEPT !.length =
                            Max({AudioEnd(Last(runs)), AudioEnd(r)}) - Last(runs).home])
    IN  FoldLeft(Join, <<>>, chain)

-----------------------------------------------------------------------------
(* extendRuns: out to where the audio stops being the same, but not past   *)
(* where the run before starts, nor where the next one ends.               *)
ExtendRun(runs, i, home, other) ==
    LET r == runs[i]
        Same(p) == p \in DOMAIN home /\ p + r.offset \in DOMAIN other /\ home[p] = other[p + r.offset]
        lower == IF i = 1 THEN 1 ELSE runs[i - 1].home
        upper == IF i = Len(runs) THEN Len(home) + 1 ELSE AudioEnd(runs[i + 1])
        start == Min({s \in lower .. r.home : \A p \in s .. r.home - 1 : Same(p)} \cup {r.home})
        end   == Max({e \in AudioEnd(r) .. upper : \A p \in AudioEnd(r) .. e - 1 : Same(p)}
                     \cup {AudioEnd(r)})
    IN  [runs EXCEPT ![i] = [r EXCEPT !.home = start, !.length = end - start]]

ExtendRuns(runs, home, other) ==
    LET Next(extended, i) == ExtendRun(extended, i, home, other)
    IN  FoldLeft(Next, runs, [i \in DOMAIN runs |-> i])

-----------------------------------------------------------------------------
(* audioDiff: what no run covers is cut, if it is long enough for an ad.   *)

(* Where each run may begin: where the ones before end, in either file.    *)
HomeFrom(runs, i) == Max({1} \cup {AudioEnd(runs[j]) : j \in 1 .. i - 1})
OtherFrom(runs, i) == IF i = 1 THEN 1 ELSE AudioEnd(runs[i - 1]) + runs[i - 1].offset

HomeGaps(runs, length) ==
    {HomeFrom(runs, i) .. (IF i > Len(runs) THEN length ELSE runs[i].home - 1) : i \in 1 .. Len(runs) + 1}

OtherGap(runs, i, length) ==
    (IF i > Len(runs) THEN length + 1 ELSE runs[i].home + runs[i].offset) - OtherFrom(runs, i)

LinesUp(runs) == \A i \in 2 .. Len(runs) : OtherGap(runs, i, 0) >= -LineUpSlack

AudioVerdict(runs, home, other, expected) ==
    LET cut  == UNION {g \in HomeGaps(runs, Len(home)) : Cardinality(g) >= MinAudioBreak}
        more == \E i \in 1 .. Len(runs) + 1 : OtherGap(runs, i, Len(other)) >= MinAudioBreak
    IN  IF ~LinesUp(runs) THEN Implausible
        ELSE IF cut = {} /\ ~more THEN Identical
        ELSE Checked(DOMAIN home \ cut, Len(home), expected)

AudioVerdicts(homeFile, otherFile, expected) ==
    LET home == Sounds(homeFile)
        other == Sounds(otherFile)
    IN  IF TooHard(home, other) \/ AudioRuns(home, other) = {} THEN {Implausible}
        ELSE {AudioVerdict(ExtendRuns(Merged(chain), home, other), home, other, expected) :
                 chain \in AudioChains(AudioRuns(home, other))}

-----------------------------------------------------------------------------
(* With: the downloads are compared by frames, and by audio when they      *)
(* share none or their formats differ.  A download that is no MP3 has no   *)
(* frames; one may be impossible to measure.                               *)
Verdicts(home, other, expected, options) ==
    LET frames == IF home.format = other.format
                  THEN FrameVerdicts(home.frames, other.frames, expected, options)
                  ELSE {Unsupported}
        audio  == IF ~options.audio \/ ~home.measurable \/ ~other.measurable
                  THEN {IF home.format = other.format THEN Implausible ELSE Unsupported}
                  ELSE AudioVerdicts(home.frames, other.frames, expected)
    IN  IF home = other THEN {Identical}
        ELSE IF home.frames = <<>> \/ other.frames = <<>> THEN {Unsupported}
        ELSE IF home.format = other.format /\ NoSharedFrames \notin frames THEN frames
        ELSE audio
=============================================================================
