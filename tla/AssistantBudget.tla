---------------------------- MODULE AssistantBudget ----------------------------
(***************************************************************************)
(* The assistant: routers/chat.py, assistant/engine.converse and           *)
(* assistant/budget.py.  A reply is let in by the budget and the session's *)
(* count, streams rounds of the model and of its tools, and is charged     *)
(* when it is done; other replies are let in and charged meanwhile.        *)
(***************************************************************************)
EXTENDS Integers, Sequences, FiniteSets, SequencesExt

CONSTANTS
    Replies,        \* requests that may stream at once
    Sessions,
    DailyBudget,    \* config.assistant.daily_budget_usd; 0 is none
    PerSession,     \* max_replies_per_session
    PerReply,       \* max_tool_calls_per_reply
    MaxRounds,      \* engine.MAX_ROUNDS
    Asked,          \* the lists of calls a model may end its turn with
    Known,          \* TOOL_NAMES
    LastDay         \* bound of the calendar

ASSUME AssistantAssumption ==
    /\ {DailyBudget, PerReply, PerSession} \subseteq Nat /\ MaxRounds \in Nat \ {0} /\ IsFiniteSet(Replies)
    /\ <<>> \in Asked /\ \A calls \in Asked : calls \in Seq(STRING)

VARIABLES
    today,
    spend,      \* the day in memory and what it cost: day, usd, calls, errors
    counted,    \* <<session, day>> -> replies begun
    chats       \* what each reply has done so far

assistant == <<today, spend, counted, chats>>
Resting == [stage |-> "idle"]
NoSpend == [day |-> 0, usd |-> 0, calls |-> 0, errors |-> 0]

\* BudgetStore.today forgets the days before.
Today == IF spend.day = today THEN spend ELSE [NoSpend EXCEPT !.day = today]
ExhaustedByCalls == DailyBudget > 0 /\ Today.calls > DailyBudget
Exhausted == DailyBudget > 0 /\ Today.usd >= DailyBudget
RepliesOf(session) == IF <<session, today>> \in DOMAIN counted THEN counted[<<session, today>>] ELSE 0
Charged(usd, ok) == [Today EXCEPT !.usd = @ + usd, !.calls = @ + 1, !.errors = @ + (IF ok THEN 0 ELSE 1)]

AssistantInit ==
    /\ today = 1 /\ spend = NoSpend /\ counted = <<>>
    /\ chats = [r \in Replies |-> Resting]

\* The questions and the count are one step: no await is between them.
Chat(r, session) ==
    LET key == <<session, today>>
    IN  /\ chats[r].stage = "idle"
        /\ ~Exhausted
        /\ RepliesOf(session) < PerSession
        /\ spend' = Today
        /\ counted' = [k \in DOMAIN counted \cup {key} |->
                         IF k = key THEN RepliesOf(session) + 1 ELSE counted[k]]
        /\ chats' = [chats EXCEPT ![r] = [stage |-> "model", round |-> 1, usage |-> 0, used |-> 0, answered |-> FALSE,
                                          refused |-> FALSE, pressed |-> FALSE, calls |-> <<>>, run |-> {},
                                          back |-> <<>>, turns |-> <<>>]]
        /\ UNCHANGED today

\* A call is run if it is known and this reply has calls left.
Rank(calls, j) == Cardinality({i \in 1 .. j : calls[i] \in Known})
Runs(calls, used) == {j \in DOMAIN calls : calls[j] \in Known /\ Rank(calls, j) + used <= PerReply}

\* Where the loop goes when a round is over.
NoProse(t) == ~t.answered /\ ~t.refused /\ t.used # 0
AfterLoop(t) == IF NoProse(t) THEN [t EXCEPT !.stage = "lastword"] ELSE [t EXCEPT !.stage = "done"]
NextRound(t) ==
    IF t.refused \/ t.round = MaxRounds THEN AfterLoop(t)
    ELSE [t EXCEPT !.stage = "model", !.round = @ + 1, !.calls = <<>>, !.back = <<>>]

\* The model's turn: some prose or none, and the calls it ends with.
ModelTurn(r, prose, calls, refused) ==
    LET t   == chats[r]
        run == Runs(calls, t.used)
        nxt == [t EXCEPT !.usage = @ + 1, !.answered = @ \/ prose, !.calls = calls, !.run = run,
                         !.used = @ + Cardinality(run), !.refused = refused /\ calls # <<>>]
    IN  /\ t.stage = "model"
        /\ chats' = [chats EXCEPT ![r] = IF calls = <<>> THEN AfterLoop(nxt) ELSE [nxt EXCEPT !.stage = "tools"]]
        /\ UNCHANGED <<today, spend, counted>>

\* Tools come back in any order; each sends its card at once.
ToolBack(r) ==
    LET t == chats[r]
    IN  /\ t.stage = "tools"
        /\ \E j \in t.run \ Range(t.back) : chats' = [chats EXCEPT ![r].back = Append(@, j)]
        /\ UNCHANGED <<today, spend, counted>>

\* The results the model is shown: in the order of the calls, or as they came.
Shown(calls, back) == calls

ToolsDone(r) ==
    LET t == chats[r]
    IN  /\ t.stage = "tools"
        /\ t.run \subseteq Range(t.back)
        /\ chats' = [chats EXCEPT ![r] = NextRound([t EXCEPT !.turns = Append(@, <<t.calls, Shown(t.calls, t.back)>>)])]
        /\ UNCHANGED <<today, spend, counted>>

\* One more round, with no tools on offer.
LastWord(r, prose) ==
    /\ chats[r].stage = "lastword"
    /\ chats' = [chats EXCEPT ![r].stage = "done", ![r].usage = @ + 1, ![r].answered = prose, ![r].pressed = TRUE]
    /\ UNCHANGED <<today, spend, counted>>

Done(r) ==
    /\ chats[r].stage = "done"
    /\ spend' = Charged(chats[r].usage, TRUE)
    /\ chats' = [chats EXCEPT ![r] = Resting]
    /\ UNCHANGED <<today, counted>>

\* The provider fails: an error event, and nothing charged for the rounds before.
Upstream(r) ==
    /\ chats[r].stage \in {"model", "lastword"}
    /\ spend' = Charged(0, FALSE)
    /\ chats' = [chats EXCEPT ![r] = Resting]
    /\ UNCHANGED <<today, counted>>

\* The client is gone: the generator is closed, and nothing is charged.
CutOff(r) ==
    /\ chats[r].stage # "idle"
    /\ chats' = [chats EXCEPT ![r] = Resting]
    /\ UNCHANGED <<today, spend, counted>>

Midnight ==
    /\ today < LastDay
    /\ today' = today + 1
    /\ UNCHANGED <<spend, counted, chats>>

AssistantNext ==
    \/ \E r \in Replies, s \in Sessions : Chat(r, s)
    \/ \E r \in Replies, prose, refused \in BOOLEAN, calls \in Asked : ModelTurn(r, prose, calls, refused)
    \/ \E r \in Replies : ToolBack(r) \/ ToolsDone(r) \/ Done(r) \/ Upstream(r) \/ CutOff(r)
    \/ \E r \in Replies, prose \in BOOLEAN : LastWord(r, prose)
    \/ Midnight
AssistantSpec == AssistantInit /\ [][AssistantNext]_assistant

(***************************************************************************)
(* Replies let in before any of them is charged overshoot the day's budget *)
(* (routers/chat.py:80), by no more than one reply's cost for each that    *)
(* may stream at once, also over midnight; and a session begins no more    *)
(* than PerSession replies a day.                                          *)
(***************************************************************************)
Overshoot ==
    /\ DailyBudget > 0 => Today.usd < DailyBudget + Cardinality(Replies) * (MaxRounds + 1)
    /\ \A k \in DOMAIN counted : counted[k] <= PerSession

(***************************************************************************)
(* Whatever order its tools answer in, the model sees each result beside   *)
(* the call that asked for it; a reply runs no more tools than it may; and *)
(* one that used tools and was not refused does not end without a word, or *)
(* a last round asked for one (engine.py:112, :118).                       *)
(***************************************************************************)
ReplySound ==
    \A r \in Replies : chats[r].stage # "idle" =>
        /\ \A i \in DOMAIN chats[r].turns : chats[r].turns[i][1] = chats[r].turns[i][2]
        /\ chats[r].used <= PerReply
        /\ chats[r].stage = "done" /\ NoProse(chats[r]) => chats[r].pressed

\* What a day costs stays within its bound, and what a reply says is whole (chat.py:80).
AssistantSound == Overshoot /\ ReplySound
=============================================================================
