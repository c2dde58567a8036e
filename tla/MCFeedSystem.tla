---------------------------- MODULE MCFeedSystem -----------------------------
(* Two items, of two titles the rules tell apart.                          *)
EXTENDS FeedSystem, TLC

CONSTANTS news, special

Kind(title, secs) == [title |-> title, secs |-> secs]

MCTitles == {news, special}
MCKinds == {Kind(news, 5), Kind(special, 0)}

Rule(action, titles, min, max) ==
    [action |-> action, title |-> titles, min |-> min, max |-> max]

(* One hides by title, one is too long; of a form's two rows the second, moved to the front *)
(* of the first, tags by length what the other would hide.                 *)
HideNews == Rule("hide", {news}, 0, 0)

MCRuleLists == {<<>>, <<HideNews>>, <<HideNews, HideNews, HideNews>>}

Row(rule, position, new) == [rule |-> rule, position |-> position, new |-> new, remove |-> FALSE]

MCForms ==
    {<<Row(Rule("hide", MCTitles, 0, 0), 0, FALSE),
       Row(Rule("bonus", {special}, 3, 9), 0, TRUE)>>}

Setting(mode, processed, hide, ahead, serve) ==
    [ mode |-> mode, processed |-> processed, hide |-> hide, ahead |-> ahead,
      serve |-> serve, delete |-> "on" ]

MCNewSettings == Setting("cache", TRUE, TRUE, "", "on")

MCSettings ==
    { MCNewSettings, Setting("cache", FALSE, FALSE, "on", "on"),
      Setting("stream", FALSE, FALSE, "", "") }

MCFirstSources == {<<Kind(news, 5), NotListed>>, <<Kind(news, 5), Kind(special, 0)>>}

Budget(changes, polls, reads, edits, jobs, sweeps) ==
    [ change |-> changes, poll |-> polls, read |-> reads, edit |-> edits,
      job |-> jobs, sweep |-> sweeps ]

(* Two clients around a poll, with a job, and with the administrator; the   *)
(* administrator with a poll and a job; polls of a changing source with a   *)
(* sweep, another change of the rules, or both; the administrator with a    *)
(* job, and with a poll.                                                    *)
MCBudgets ==
    { Budget(1, 1, 2, 0, 1, 0), Budget(1, 1, 2, 1, 0, 0),
      Budget(1, 1, 1, 1, 1, 0), Budget(2, 2, 1, 0, 0, 1), Budget(1, 2, 1, 1, 0, 0),
      Budget(0, 0, 2, 2, 1, 0), Budget(1, 1, 1, 2, 0, 0), Budget(1, 2, 1, 1, 0, 1) }

MCSymmetry == Permutations(Clients)
=============================================================================
