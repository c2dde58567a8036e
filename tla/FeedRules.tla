------------------------------ MODULE FeedRules ------------------------------
(***************************************************************************)
(* The rules of a feed: what one matches, which one decides for an         *)
(* episode, and how the rows of the editor's form become a list.  A title  *)
(* pattern is the set of titles it matches; a length is a number.          *)
(***************************************************************************)
EXTENDS Integers, Sequences, FiniteSets

CONSTANTS
    Titles,      \* episode titles
    MaxRules,    \* rules a feed may have
    Measured     \* length a processor measures in the file it makes

ASSUME RulesAssumption ==
    /\ MaxRules \in Nat
    /\ Measured \in Nat \ {0}

(* What the source says of an episode: its title and stated length, 0 for  *)
(* none.                                                                   *)
IsKind(k) == k.title \in Titles /\ k.secs \in Nat

(* A rule hides, or tags as one of the types; 0 leaves a bound open.       *)
Actions == {"hide", "full", "bonus", "trailer"}

RulesSent == [action : STRING, title : SUBSET Titles, min : Int, max : Int]

Rules == [action : Actions, title : SUBSET Titles, min : Nat, max : Nat]

Valid(rule) ==
    /\ rule.action \in Actions
    /\ rule.title \subseteq Titles
    /\ rule.min >= 0 /\ rule.max >= 0
    /\ rule.max > 0 => rule.min <= rule.max

(* Mutant: each rule is checked, but not how many there are.               *)
ValidEach(list) == \A n \in 1 .. Len(list) : Valid(list[n])

ValidRules(list) == Len(list) <= MaxRules /\ \A n \in 1 .. Len(list) : Valid(list[n])

LengthOf(kind, measured) ==
    IF kind.secs > 0 THEN kind.secs ELSE IF measured THEN Measured ELSE 0

Matches(rule, kind, measured) ==
    LET length == LengthOf(kind, measured)
    IN  /\ kind.title \in rule.title
        /\ rule.min > 0 \/ rule.max > 0 => length > 0
        /\ rule.min > 0 => length >= rule.min
        /\ rule.max > 0 => length <= rule.max

(* The first rule that matches decides: the set of its number, or none.    *)
Deciding(list, kind, measured) ==
    {n \in 1 .. Len(list) :
        /\ Matches(list[n], kind, measured)
        /\ \A m \in 1 .. n - 1 : ~Matches(list[m], kind, measured)}

Hides(list, kind, measured) ==
    \E n \in Deciding(list, kind, measured) : list[n].action = "hide"

-----------------------------------------------------------------------------
(* The editor: a row is a rule with its place, the new row going before    *)
(* the rule now at it.  Rows that are removed or empty are left out; equal *)
(* places keep the order of the form.                                      *)
FormRows ==
    [rule : RulesSent \cup {<<>>}, position : Int, new : BOOLEAN, remove : BOOLEAN]

Kept(row) == ~row.remove /\ row.rule # <<>>

(* A place that is none of the form's is its end.                          *)
Place(row, count) ==
    LET position == IF row.position \in 1 .. count THEN row.position ELSE count
    IN  IF row.new THEN 2 * position - 1 ELSE 2 * position

RulesFromForm(rows) ==
    LET kept == {n \in 1 .. Len(rows) : Kept(rows[n])}
        place == [n \in kept |-> Place(rows[n], Len(rows))]
        rank == [n \in kept |->
                    Cardinality({m \in kept : place[m] < place[n] \/ (place[m] = place[n] /\ m <= n)})]
    IN  [k \in 1 .. Cardinality(kept) |-> rows[CHOOSE n \in kept : rank[n] = k].rule]
=============================================================================
