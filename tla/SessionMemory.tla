----------------------------- MODULE SessionMemory -----------------------------
(***************************************************************************)
(* The conversation history of one session, SessionManager of              *)
(* common/session/manager.py, with the context window attached to it: a    *)
(* turn is appended to the history of the process, goes to the window and  *)
(* is then written to Redis with the turns before it.  Another process     *)
(* knows the history only once it has read it back.                        *)
(*                                                                         *)
(* A turn of the history is its number in the conversation; a turn of the  *)
(* window, of ContextWindow, its number in the window.                     *)
(***************************************************************************)
EXTENDS ContextWindow

CONSTANT Limit      \* conversation_history_limit

ASSUME SessionMemoryAssumption == Limit \in Nat \ {0}

VARIABLES
    known,          \* session_id in _conversations
    history,        \* _conversations[session_id]
    conv,           \* conv:{session} in Redis; <<>> when it is not there
    said,           \* number of turns of the conversation so far
    task,           \* where each thread is in a call of the session manager
    cleared,        \* history: the turns said when the conversation was last cleared
    calm            \* history: no two calls overlapped, Redis did not fail or
                    \* forget, and no turn was added to a history not read back

conversation == <<known, history, conv, said, cleared>>
sessionVars == <<vars, conversation, task, calm>>

NoTask == [stage |-> "idle", cost |-> 0, turns |-> <<>>]

--------------------------------------------------------------------------------

\* Seeded fault: the oldest turns are kept, not the latest.
TrimmedEnd(turns) == SubSeq(turns, 1, IF Len(turns) > Limit THEN Limit ELSE Len(turns))

\* history[-conv_limit:], when it is longer.
Trimmed(turns) ==
    IF Len(turns) > Limit THEN SubSeq(turns, Len(turns) - Limit + 1, Len(turns)) ELSE turns

SessionInit ==
    /\ Init
    /\ known = FALSE /\ history = <<>> /\ conv = <<>>
    /\ said = 0 /\ cleared = 0
    /\ task = [t \in Threads |-> NoTask]
    /\ calm = TRUE

Free(t) == task[t].stage = "idle" /\ thread[t].stage = "idle"
Go(t, stage) == task' = [task EXCEPT ![t].stage = stage]
End(t) == task' = [task EXCEPT ![t] = NoTask]

\* A call begins; it overlaps those that others are in.
Call(t, fine) ==
    /\ Free(t)
    /\ calm' = (calm /\ fine /\ \A u \in Threads : Free(u))
    /\ UNCHANGED vars

\* add_conversation_turn(): the turn is appended under the lock, to an empty
\* history if this process has none of the session yet,
AddTurn(t, cost) ==
    /\ said < MaxAdds
    /\ Call(t, known \/ conv = <<>>)
    /\ said' = said + 1
    /\ known' = TRUE
    /\ history' = Trimmed(Append(history, said + 1))
    /\ task' = [task EXCEPT ![t].stage = "window", ![t].cost = cost]
    /\ UNCHANGED <<conv, cleared>>

\* goes to the window, which mirrors itself to Redis,
AddToWindow(t) ==
    /\ task[t].stage = "window"
    /\ Add(t, task[t].cost)
    /\ Go(t, "persist")
    /\ UNCHANGED <<conversation, calm>>

\* and the history, as the process has it by then (one that was cleared is
\* empty), is copied under the lock,
CopyHistory(t) ==
    /\ task[t].stage = "persist"
    /\ thread[t].stage = "idle"
    /\ task' = [task EXCEPT ![t].stage = "send", ![t].turns = history]
    /\ UNCHANGED <<vars, conversation, calm>>

\* and sent.
SendHistory(t) ==
    /\ task[t].stage = "send"
    /\ conv' = task[t].turns
    /\ End(t)
    /\ UNCHANGED <<vars, known, history, said, cleared, calm>>

\* get_conversation_history() of a session this process does not know: Redis,
LoadHistory(t) ==
    /\ ~known
    /\ Call(t, TRUE)
    /\ task' = [task EXCEPT ![t].stage = IF conv = <<>> THEN "idle" ELSE "loaded",
                            ![t].turns = conv]
    /\ UNCHANGED conversation

\* and then the process has the history that was read, whatever it had by then.
KeepHistory(t) ==
    /\ task[t].stage = "loaded"
    /\ known' = TRUE
    /\ history' = task[t].turns
    /\ End(t)
    /\ UNCHANGED <<vars, conv, said, cleared, calm>>

\* clear_conversation_history(): in the process,
ClearHistory(t) ==
    /\ Call(t, TRUE)
    /\ known' = FALSE
    /\ history' = <<>>
    /\ cleared' = said
    /\ Go(t, "clear")
    /\ UNCHANGED <<conv, said>>

\* and in Redis.  The window keeps what it has.
DeleteHistory(t) ==
    /\ task[t].stage = "clear"
    /\ conv' = <<>>
    /\ End(t)
    /\ UNCHANGED <<vars, known, history, said, cleared, calm>>

\* A Redis error, which each of these calls swallows.
HistoryFails(t) ==
    /\ task[t].stage \in {"send", "loaded", "clear"}
    /\ Fault
    /\ calm' = FALSE
    /\ End(t)
    /\ UNCHANGED <<window, stored, thread, added, overlapped, conversation>>

\* The ttl of the history, conversation_ttl.
HistoryExpires ==
    /\ Fault
    /\ calm' = FALSE
    /\ conv' = <<>>
    /\ UNCHANGED <<window, stored, thread, added, overlapped, task, known, history, said, cleared>>

\* The process ends, and another attaches a window made anew.
SessionRestart ==
    /\ Restart
    /\ calm' = (calm /\ \A t \in Threads : Free(t))
    /\ known' = FALSE
    /\ history' = <<>>
    /\ task' = [t \in Threads |-> NoTask]
    /\ UNCHANGED <<conv, said, cleared>>

\* The window by itself: its mirroring, and the summaries of agents.
WindowStep(t) ==
    /\ \/ task[t].stage = "idle" /\ UpdateSummary(t)
       \/ ReadSummary(t) \/ ReadBuffer(t) \/ Write(t) \/ MirrorFails(t)
    /\ UNCHANGED <<conversation, task, calm>>

WindowExpires == Expire /\ UNCHANGED <<conversation, task, calm>>

SessionNext ==
    \/ \E t \in Threads :
         \/ \E cost \in Costs : AddTurn(t, cost)
         \/ AddToWindow(t) \/ CopyHistory(t) \/ SendHistory(t)
         \/ LoadHistory(t) \/ KeepHistory(t)
         \/ ClearHistory(t) \/ DeleteHistory(t)
         \/ HistoryFails(t)
         \/ WindowStep(t)
    \/ HistoryExpires \/ WindowExpires \/ SessionRestart

SessionSpec == SessionInit /\ [][SessionNext]_sessionVars

--------------------------------------------------------------------------------

\* The turns of the conversation since it was cleared, the last Limit of them.
LatestOf(last, before) ==
    LET first == IF last - before > Limit THEN last - Limit + 1 ELSE before + 1
    IN  [i \in 1..(last - first + 1) |-> first + i - 1]

Latest == LatestOf(said, cleared)

\* A conversation survives its process: between calls Redis has its latest turns,
\* through trimming, clearing, reading back and restarts, and so has the process,
\* unless it has not looked, as long as calls do not overlap, Redis neither fails
\* nor forgets, and nobody adds a turn to a stored history before reading it
\* (add_conversation_turn() starts from an empty one and overwrites it).
ConversationKept ==
    calm /\ (\A t \in Threads : Free(t)) => conv = Latest /\ (known => history = Latest)

================================================================================
