------------------------------ MODULE FrameDiff ------------------------------
(***************************************************************************)
(* Comparing two downloads by their MP3 frames.  A frame is what it plays, *)
(* the encoding it comes from, how many bytes of the frames before it it   *)
(* borrows and how many it carries; two frames have the same bytes when    *)
(* they are equal.  A position is that of a frame in its file, from 1; a   *)
(* run [home, other, length] is a stretch of equal frames in both.         *)
(***************************************************************************)
EXTENDS Integers, SequencesExt

CONSTANTS
    Hash(_),         \* of a frame; others may share it
    AnchorFrames, MinShared, Unanchored, MinRepeatedAd, MaxMarker,   \* in frames
    MaxRemoved, Tolerance                                            \* in hundredths

ASSUME FrameDiffAssumption ==
    /\ {AnchorFrames, MinShared, Unanchored, MinRepeatedAd, MaxMarker} \subseteq Nat \ {0}
    /\ {MaxRemoved, Tolerance} \subseteq 0 .. 100

(* The elements of a sequence that are at some positions, in order.        *)
Picked(s, at) ==
    LET Place(i) == Cardinality({j \in at : j <= i})
    IN  [k \in 1 .. Cardinality(at) |-> s[CHOOSE i \in at : Place(i) = k]]

Run(home, other, length) == [home |-> home, other |-> other, length |-> length]

End(r) == r.home + r.length
OtherEnd(r) == r.other + r.length

Frames(r) == r.home .. End(r) - 1
OtherFrames(r) == r.other .. OtherEnd(r) - 1

HomeFrames(runs) == UNION {Frames(r) : r \in runs}

-----------------------------------------------------------------------------
(* Aligning: groups of AnchorFrames frames that occur once in each file.   *)

Groups(hashes) == 1 .. Len(hashes) - AnchorFrames + 1

Group(hashes, i) == SubSeq(hashes, i, i + AnchorFrames - 1)

Once(hashes, i) == \A k \in Groups(hashes) : Group(hashes, k) = Group(hashes, i) => k = i

Anchors(home, other) ==
    {a \in Groups(home) \X Groups(other) :
        /\ Group(home, a[1]) = Group(other, a[2])
        /\ Once(home, a[1]) /\ Once(other, a[2])}

InOrder(anchors) == \A a, b \in anchors : a[1] < b[1] => a[2] < b[2]

(* The largest sets of anchors that are in order in both files.            *)
Chains(anchors) ==
    LET ordered == {s \in SUBSET anchors : InOrder(s)}
    IN  IF InOrder(anchors) THEN {anchors}
        ELSE {s \in ordered : \A t \in ordered : Cardinality(t) <= Cardinality(s)}

(* The longest run of equal hashes around an anchor, after the last run.   *)
Extended(home, other, runs, a) ==
    LET last == IF runs = <<>> THEN Run(1, 1, 0) ELSE Last(runs)
        back == Max({k \in 0 .. Min({a[1] - End(last), a[2] - OtherEnd(last)}) :
                        \A d \in 1 .. k : home[a[1] - d] = other[a[2] - d]})
        on   == Max({k \in AnchorFrames .. Min({Len(home) - a[1], Len(other) - a[2]}) + 1 :
                        \A d \in 0 .. k - 1 : home[a[1] + d] = other[a[2] + d]})
    IN  IF a[1] < End(last) \/ a[2] < OtherEnd(last) THEN runs
        ELSE Append(runs, Run(a[1] - back, a[2] - back, back + on))

(* The numbers of S from the smallest to the largest; none is above n.     *)
Ascending(S, n) == Picked([i \in 1 .. n |-> i], S)

Aligned(home, other, chain) ==
    LET Next(runs, i) == Extended(home, other, runs, CHOOSE a \in chain : a[1] = i)
    IN  ToSet(FoldLeft(Next, <<>>, Ascending({a[1] : a \in chain}, Len(home))))

(* verify: a run ends at the first frame that differs after all.           *)
Verified(runs, home, other) ==
    LET Same(r, n) == \A d \in 0 .. n - 1 : home[r.home + d] = other[r.other + d]
        Cut(r) == [r EXCEPT !.length = Max({n \in 0 .. r.length : Same(r, n)})]
    IN  {r \in {Cut(r) : r \in runs} : r.length > 0}

-----------------------------------------------------------------------------
(* Where segments can start and end: a clean frame borrows nothing.        *)

Clean(file, i) == i = 1 \/ i = Len(file) + 1 \/ file[i].begin = 0

CleanIn(file, from, to) == {i \in from .. to : Clean(file, i)}

(* Trimmed to clean frames, but for a stretch long enough to be the show.  *)
FromClean(r, file) ==
    LET first == Min(CleanIn(file, r.home, End(r) - 1) \cup {End(r)})
        skip  == IF first - r.home >= Unanchored THEN 0 ELSE first - r.home
    IN  Run(r.home + skip, r.other + skip, r.length - skip)

ToClean(r, file) ==
    LET last == Max(CleanIn(file, r.home, End(r) - 1) \cup {r.home})
    IN  IF Clean(file, End(r)) \/ End(r) - last >= Unanchored THEN r
        ELSE [r EXCEPT !.length = last - r.home]

ToSegmentBoundaries(runs, file) == {ToClean(FromClean(r, file), file) : r \in runs}

Kept(runs, file) == {r \in ToSegmentBoundaries(runs, file) : r.length >= MinShared}

-----------------------------------------------------------------------------
(* Copies of an ad: whole pieces, from a clean frame to the next.          *)

Pieces(file, frames) ==
    {p \in frames \X {i + 1 : i \in frames} :
        /\ p[1] < p[2] /\ p[1] .. p[2] - 1 \subseteq frames
        /\ CleanIn(file, p[1], p[2]) = {p[1], p[2]}}

Bytes(file, p) == SubSeq(file, p[1], p[2] - 1)

LongPieces(file, frames) == {p \in Pieces(file, frames) : p[2] - p[1] >= MinRepeatedAd}

(* What no kept run covers, in either file.                                *)
Ads(kept, home, other) ==
    {Bytes(home, p) : p \in LongPieces(home, DOMAIN home \ HomeFrames(kept))}
    \cup {Bytes(other, p) :
            p \in LongPieces(other, DOMAIN other \ UNION {OtherFrames(r) : r \in kept})}

Repeats(r, home, ads) == {p \in LongPieces(home, Frames(r)) : Bytes(home, p) \in ads}

(* The parts of a run between the frames cut from it.                      *)
Parts(r, cut) ==
    LET left == Frames(r) \ cut
    IN  {Run(p[1], r.other + p[1] - r.home, p[2] - p[1]) :
            p \in {p \in left \X {k + 1 : k \in left} :
                /\ p[1] < p[2] /\ p[1] .. p[2] - 1 \subseteq left
                /\ p[1] - 1 \notin left /\ p[2] \notin left}}

RemoveRepeats(kept, home, other) ==
    LET ads == Ads(kept, home, other)
        Cut(r) == UNION {p[1] .. p[2] - 1 : p \in Repeats(r, home, ads)}
    IN  UNION {IF Cut(r) = {} THEN {r} ELSE {part \in Parts(r, Cut(r)) : part.length >= MinShared} :
                  r \in kept}

-----------------------------------------------------------------------------
(* Break markers: short pieces at an open edge that occur at another too.  *)

OpenStart(r, kept) == r.home - 1 \notin HomeFrames(kept)
OpenEnd(r, kept) == End(r) \notin HomeFrames(kept)

EdgePieces(r, kept, file) ==
    LET inside == CleanIn(file, r.home + 1, End(r) - 1)
    IN  {p \in {<<r.home, Min(inside \cup {End(r)})>>, <<Max(inside \cup {r.home}), End(r)>>} :
            /\ p[2] - p[1] <= MaxMarker
            /\ \/ p[1] = r.home /\ OpenStart(r, kept)
               \/ p[2] = End(r) /\ OpenEnd(r, kept)}

Confirmed(kept, file) ==
    LET pieces == UNION {EdgePieces(r, kept, file) : r \in kept}
    IN  {p \in pieces : \E q \in pieces \ {p} : Bytes(file, q) = Bytes(file, p)}

(* Where the bytes of one are at an open edge, without a clean frame.      *)
Glued(r, kept, file, markers) ==
    LET lengths == {m[2] - m[1] : m \in markers}
        edges   == {<<r.home, r.home + n>> : n \in {n \in lengths : OpenStart(r, kept)}}
                   \cup {<<End(r) - n, End(r)>> : n \in {n \in lengths : OpenEnd(r, kept)}}
    IN  {p \in edges : /\ r.home <= p[1] /\ p[2] <= End(r)
                       /\ \E m \in markers : Bytes(file, m) = Bytes(file, p)}

Markers(kept, file) ==
    LET confirmed == Confirmed(kept, file)
    IN  confirmed \cup UNION {Glued(r, kept, file, confirmed) : r \in kept}

(* Go gives a map's entries in any order: one pass over the markers at the *)
(* start of a run, and one over those at its end.                          *)
Trimmed(r, markers) ==
    LET orders == SetToAllKPermutations(markers)
        Start(order) ==
            LET Move(at, m) == IF m[1] = at /\ m[2] <= End(r) THEN m[2] ELSE at
            IN  FoldLeft(Move, r.home, order)
        Stop(order, start) ==
            LET Move(at, m) == IF m[2] = at /\ m[1] >= start /\ m[1] > r.home THEN m[1] ELSE at
            IN  FoldLeft(Move, End(r), order)
        whole == {order \in orders : Len(order) = Cardinality(markers)}
        starts == {Start(order) : order \in whole}
    IN  {p \in starts \X (r.home .. End(r)) :
            \E order \in whole : p[2] = Stop(order, p[1])}

(* The sets of runs the trimming may leave.                                *)
TrimMarkers(kept, file) ==
    LET markers == Markers(kept, file)
        choices == {f \in [kept -> UNION {Trimmed(r, markers) : r \in kept}] :
                        \A r \in kept : f[r] \in Trimmed(r, markers)}
        Left(f) == {Run(f[r][1], r.other + f[r][1] - r.home, f[r][2] - f[r][1]) : r \in kept}
    IN  IF markers = {} THEN {kept} ELSE {{r \in Left(f) : r.length > 0} : f \in choices}

-----------------------------------------------------------------------------
(* The verdict, and what is written.                                       *)

Verdict(kind, kept) == [kind |-> kind, kept |-> kept]

Identical == Verdict("identical", {})
Implausible == Verdict("implausible", {})
Unsupported == Verdict("unsupported", {})
NoSharedFrames == Verdict("no shared frames", {})

(* check: too little kept of the download, or of the stated duration.      *)
Plausible(kept, length, expected) ==
    LET least == IF expected < length THEN expected ELSE length
    IN  /\ kept > 0
        /\ MaxRemoved = 0 \/ 100 * (length - kept) <= MaxRemoved * length
        /\ expected = 0 \/ Tolerance = 0 \/ 100 * (least - kept) <= Tolerance * least

Checked(kept, length, expected) ==
    IF ~Plausible(Cardinality(kept), length, expected) THEN Implausible
    ELSE IF kept = 1 .. length THEN Verdict("whole", kept) ELSE Verdict("cut", kept)

FrameVerdicts(home, other, expected, options) ==
    LET Of(file) == [i \in DOMAIN file |-> Hash(file[i])]
        Runs(chain) == Verified(Aligned(Of(home), Of(other), chain), home, other)
        Shared(chain) == Kept(Runs(chain), home)
        Agreed(kept) == HomeFrames(kept) = DOMAIN home
                        /\ UNION {OtherFrames(r) : r \in kept} = DOMAIN other
        Rest(kept) == IF options.repeats THEN RemoveRepeats(kept, home, other) ELSE kept
        Final(kept) == IF options.markers THEN TrimMarkers(kept, home) ELSE {kept}
    IN  UNION {IF Runs(chain) = {} THEN {NoSharedFrames}
               ELSE IF Agreed(Shared(chain)) THEN {Identical}
               ELSE {Checked(HomeFrames(kept), Len(home), expected) :
                        kept \in Final(Rest(Shared(chain)))} :
                  chain \in Chains(Anchors(Of(home), Of(other)))}

Carry(file, frames) == LET Size(i) == file[i].size IN MapThenSumSet(Size, frames)

(* carriers: the removed frames that stay, silent, so that the kept one    *)
(* after them finds the bytes it borrows.                                  *)
Carriers(file, kept) ==
    {i \in DOMAIN file \ kept :
        \E s \in kept : /\ i < s /\ (i .. s - 1) \cap kept = {}
                        /\ Carry(file, i + 1 .. s - 1) < file[s].begin}
=============================================================================
