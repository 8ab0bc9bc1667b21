-------------------------------- MODULE Pane --------------------------------
(***************************************************************************)
(* src/tui/session_pane.rs: what the pane does with a key, and the figures *)
(* of its title (src/ssh/sysinfo.rs).                                      *)
(*                                                                         *)
(* A key is "esc", "ctrlb" or "d", which also stands for every other key   *)
(* with an encoding; what is sent is named by the key it encodes.          *)
(***************************************************************************)
EXTENDS Naturals, Sequences, SequencesExt

Keys == {"esc", "ctrlb", "d"}

FreshPane == [prefix |-> "idle", alt |-> FALSE]

\* PaneOutcome, with the pane it leaves
Sends(pane, bytes) == [pane |-> [pane EXCEPT !.prefix = "idle"], out |-> bytes, detach |-> FALSE]
Holds(pane, prefix) == [pane |-> [pane EXCEPT !.prefix = prefix], out |-> <<>>, detach |-> FALSE]
Detaches(pane) == [Sends(pane, <<>>) EXCEPT !.detach = TRUE]

\* An unknown key after Ctrl+B is swallowed.
PrefixCommand(pane, key) ==
    CASE key = "d"     -> Detaches(pane)
      [] key = "ctrlb" -> Sends(pane, <<"ctrlb">>)
      [] OTHER         -> Sends(pane, <<>>)

\* On the alternate screen Esc is not held.
IdleKey(pane, key) ==
    CASE key = "ctrlb"             -> Holds(pane, "armed")
      [] key = "esc" /\ ~pane.alt -> Holds(pane, "esc")
      [] OTHER                     -> Sends(pane, <<key>>)

SentAfter(pane, key) == Sends(pane, <<key, "esc">>)      \* mutant: the held Esc goes last

\* What follows a held Esc goes out behind it, a Ctrl+B too.
SentBehind(pane, key) == Sends(pane, <<"esc", key>>)

HandleKey(pane, key) ==
    CASE pane.prefix = "armed" -> PrefixCommand(pane, key)
      [] pane.prefix = "esc"   -> IF key = "esc" THEN Detaches(pane) ELSE SentBehind(pane, key)
      [] OTHER                 -> IdleKey(pane, key)

\* tick: a held Esc that is old enough is sent.
Expire(pane, old) ==
    IF pane.prefix = "esc" /\ old THEN Sends(pane, <<"esc">>)
    ELSE [pane |-> pane, out |-> <<>>, detach |-> FALSE]

AndKey(poll, key) ==
    LET next == HandleKey(poll.pane, key)
    IN [next EXCEPT !.out = poll.out \o @, !.detach = @ \/ poll.detach]

\* poll_pane_keys reads on after a detach.
PollKeys(pane, old, typed) ==
    LET poll[n \in 0..Len(typed)] ==
          IF n = 0 THEN Expire(pane, old) ELSE AndKey(poll[n - 1], typed[n])
    IN poll[Len(typed)]

---------------------------------------------------------------------------
\* Usage: the number of the reading each figure comes from, 0 for none.

NoUsage == [mem |-> 0, disk |-> 0]
Merge(usage, fresh) ==
    [usage EXCEPT !.mem  = IF fresh.mem # 0 THEN fresh.mem ELSE @,
                  !.disk = IF fresh.disk # 0 THEN fresh.disk ELSE @]

\* set_totals: what the probe read fills what no poll has answered.
SetTotals(usage, probed) == Merge(probed, usage)
=============================================================================
