------------------------------- MODULE ToolCall -------------------------------
(***************************************************************************)
(* What every tool handler of internal/tools works against while it runs:  *)
(* the gamemaster pointer a refresh may swap, the context that may end, and *)
(* the rankings.  A handler shares nothing else with other goroutines, so  *)
(* what it does between two looks at these is one step.                    *)
(*                                                                         *)
(* rankings.Manager is seen through what RankingsMemo says of it, for one  *)
(* cap and one process that does not restart: a cup is resolved once, to   *)
(* entries or to "unknown", and a call that fails leaves it open.          *)
(***************************************************************************)
EXTENDS Combatants

CONSTANTS
    Docs,   \* gamemaster documents a refresh may bring
    Lists   \* cup -> the rankings the upstream may publish for it

VARIABLES
    current,    \* Manager.current
    ctx,        \* the context of the call: "live" or "done"
    memo,       \* what the rankings manager has cached of a cup
    refreshed   \* history: whether a refresh has come in during the call

envVars == <<current, ctx, memo, refreshed>>

Unset   == [status |-> "none", entries |-> <<>>]
Unknown == [status |-> "unknown", entries |-> <<>>]
Failed  == [status |-> "error", entries |-> <<>>]
Known(list) == [status |-> "ok", entries |-> list]

EnvInit ==
    /\ current \in Docs
    /\ ctx = "live"
    /\ memo \in [DOMAIN Lists -> {Unset}]
    /\ refreshed = "no"

\* Manager.Refresh swaps the document.
Refresh ==
    /\ \E d \in Docs \ {current} : current' = d
    /\ refreshed' = "yes"
    /\ UNCHANGED <<ctx, memo>>

\* The client hangs up, or mcpmw.Timeout runs out.
Cancel ==
    /\ ctx = "live"
    /\ ctx' = "done"
    /\ UNCHANGED <<current, memo, refreshed>>

\* rankings.Manager.Get: refused once the context is done, even if cached.
Get(cup, answer) ==
    \/ ctx = "live" /\ memo[cup] # Unset /\ answer = memo[cup] /\ UNCHANGED memo
    \/ /\ memo[cup] = Unset \/ ctx = "done"
       /\ answer = Failed /\ UNCHANGED memo
    \/ /\ ctx = "live" /\ memo[cup] = Unset
       /\ answer \in {Known(l) : l \in Lists[cup]} \cup {Unknown}
       /\ memo' = [memo EXCEPT ![cup] = answer]

\* A step that does.
Ask(cup, answer) ==
    /\ Get(cup, answer)
    /\ UNCHANGED <<current, ctx, refreshed>>
=============================================================================
