----------------------------- MODULE ContextWindow -----------------------------
(***************************************************************************)
(* The conversation memory of one session, SummaryBufferWindow of          *)
(* common/context/window.py: a bounded deque of turns whose oldest chunk is*)
(* compacted into a rolling summary when the token estimate is over budget,*)
(* mirrored to Redis after every change and read back by the next process. *)
(*                                                                         *)
(* A turn is its number and its token count.  The rolling summary is the   *)
(* set of turns that went into it; its wording and its length are left out.*)
(* Changes happen under the lock; the mirroring reads the window without it*)
(***************************************************************************)
EXTENDS Integers, SequencesExt

CONSTANTS
    Threads,        \* the threads that use the window
    Costs,          \* token counts of turns
    MaxTokens, MaxTurns, Chunk,     \* max_tokens, max_turns, chunk_size
    MaxAdds,        \* bound on the turns added
    MaxFaults       \* bound on failed mirrorings, expiries and restarts

ASSUME ContextWindowAssumption ==
    /\ Costs \subseteq Nat \ {0}
    /\ MaxTokens \in Nat
    /\ Chunk \in Nat \ {0} /\ MaxTurns \in Nat /\ Chunk <= MaxTurns
    /\ MaxAdds \in Nat /\ MaxFaults \in Nat

VARIABLES
    buffer,         \* _buffer, oldest first
    total,          \* _total_tokens
    summary,        \* _rolling_summary
    stored,         \* ctx:{session} in Redis, or Nothing
    thread,         \* what each thread does: idle, or mirroring
    added,          \* number of turns added so far
    faults,         \* number of faults so far
    overlapped      \* history: a call began while another thread was in one

window == <<buffer, total, summary>>
vars == <<buffer, total, summary, stored, thread, added, faults, overlapped>>

Turns == [n : 1..MaxAdds, cost : Costs]
Nothing == [summary |-> {}, buffer |-> <<>>]
Idle == [stage |-> "idle", summary |-> {}, buffer |-> <<>>]

--------------------------------------------------------------------------------

\* The sum of their token counts, as the number of the tokens, each told apart.
Tokens(turns) == Cardinality(UNION {{i} \X (1..turns[i].cost) : i \in DOMAIN turns})

\* deque(maxlen=max_turns): appending to a full deque drops its oldest turn.
Kept(turns) == SubSeq(turns, Len(turns) - MaxTurns + 1, Len(turns))
Bounded(turns) == IF Len(turns) > MaxTurns THEN Kept(turns) ELSE turns

\* _compact(), after add has appended a turn: the window it leaves.
Compact(turns, tokens) ==
    IF tokens > MaxTokens /\ Len(turns) >= Chunk
      THEN LET old == SubSeq(turns, 1, Chunk) IN
           /\ buffer' = SubSeq(turns, Chunk + 1, Len(turns))
           /\ total' = tokens - Tokens(old)
           /\ summary' = summary \cup {turn.n : turn \in ToSet(old)}
      ELSE /\ buffer' = turns
           /\ total' = tokens
           /\ UNCHANGED summary

--------------------------------------------------------------------------------

Init ==
    /\ buffer = <<>> /\ total = 0 /\ summary = {}
    /\ stored = Nothing
    /\ thread = [t \in Threads |-> Idle]
    /\ added = 0 /\ faults = 0 /\ overlapped = FALSE

\* Seeded fault: the window is not mirrored after a change.
MirrorForgotten(t) == UNCHANGED thread

Mirror(t) == thread' = [thread EXCEPT ![t].stage = "mirror"]

Begin(t) ==
    /\ thread[t].stage = "idle"
    /\ overlapped' = (overlapped \/ \E u \in Threads \ {t} : thread[u].stage # "idle")

\* add(), up to the release of the lock.  One step: what an unlocked reader can
\* see of it half done, the summary without the chunk and the buffer without it
\* too, it also sees by reading the summary before the step and the buffer after.
Add(t, cost) ==
    /\ Begin(t)
    /\ added < MaxAdds
    /\ added' = added + 1
    /\ Compact(Bounded(Append(buffer, [n |-> added + 1, cost |-> cost])), total + cost)
    /\ Mirror(t)
    /\ UNCHANGED <<stored, faults>>

\* update_rolling_summary(): the text it adds is about no turn.
UpdateSummary(t) ==
    /\ Begin(t)
    /\ Mirror(t)
    /\ UNCHANGED <<window, stored, added, faults>>

\* _persist() builds its payload without the lock: the summary first,
ReadSummary(t) ==
    /\ thread[t].stage = "mirror"
    /\ thread' = [thread EXCEPT ![t].stage = "half", ![t].summary = summary]
    /\ UNCHANGED <<window, stored, added, faults, overlapped>>

\* then the buffer,
ReadBuffer(t) ==
    /\ thread[t].stage = "half"
    /\ thread' = [thread EXCEPT ![t].stage = "write", ![t].buffer = buffer]
    /\ UNCHANGED <<window, stored, added, faults, overlapped>>

\* Seeded fault: the summary is read after the buffer.
WriteLateSummary(t) ==
    /\ thread[t].stage = "write"
    /\ stored' = [summary |-> summary, buffer |-> thread[t].buffer]
    /\ thread' = [thread EXCEPT ![t] = Idle]
    /\ UNCHANGED <<window, added, faults, overlapped>>

\* then it sends the payload to Redis.
Write(t) ==
    /\ thread[t].stage = "write"
    /\ stored' = [summary |-> thread[t].summary, buffer |-> thread[t].buffer]
    /\ thread' = [thread EXCEPT ![t] = Idle]
    /\ UNCHANGED <<window, added, faults, overlapped>>

Fault ==
    /\ faults < MaxFaults
    /\ faults' = faults + 1

\* Any error of _persist is swallowed: Redis away, or the deque changed while it
\* was read.
MirrorFails(t) ==
    /\ thread[t].stage # "idle"
    /\ Fault
    /\ thread' = [thread EXCEPT ![t] = Idle]
    /\ UNCHANGED <<window, stored, added, overlapped>>

\* The ttl of the key.
Expire ==
    /\ Fault
    /\ stored' = Nothing
    /\ UNCHANGED <<window, thread, added, overlapped>>

\* Seeded fault: the turns read back are not counted.
RestartUncounted ==
    /\ Fault
    /\ buffer' = Bounded(stored.buffer)
    /\ total' = 0
    /\ summary' = stored.summary
    /\ thread' = [t \in Threads |-> Idle]
    /\ UNCHANGED <<stored, added, overlapped>>

\* The process ends and another makes the window anew: _load_from_redis().
Restart ==
    /\ Fault
    /\ buffer' = Bounded(stored.buffer)
    /\ total' = Tokens(stored.buffer)
    /\ summary' = stored.summary
    /\ thread' = [t \in Threads |-> Idle]
    /\ UNCHANGED <<stored, added, overlapped>>

Next ==
    \/ \E t \in Threads :
         \/ \E cost \in Costs : Add(t, cost)
         \/ UpdateSummary(t)
         \/ ReadSummary(t) \/ ReadBuffer(t) \/ Write(t) \/ MirrorFails(t)
    \/ Expire \/ Restart

Spec == Init /\ [][Next]_vars

--------------------------------------------------------------------------------

TypeOK ==
    /\ buffer \in Seq(Turns) /\ Len(buffer) <= MaxTurns
    /\ total \in Nat
    /\ summary \subseteq 1..MaxAdds
    /\ stored \in [summary : SUBSET (1..MaxAdds), buffer : Seq(Turns)]
    /\ thread \in [Threads -> [stage : {"idle", "mirror", "half", "write"},
                               summary : SUBSET (1..MaxAdds), buffer : Seq(Turns)]]
    /\ added \in 0..MaxAdds
    /\ faults \in 0..MaxFaults
    /\ overlapped \in BOOLEAN

\* The token estimate never falls short of the turns in the buffer, whatever is
\* evicted, compacted, mirrored and restored: a window over its budget is seen
\* to be over it.
EstimateCoversBuffer == total >= Tokens(buffer)

Ascending(turns) == \A i, j \in 1..Len(turns) : i < j => turns[i].n < turns[j].n
Older(numbers, turns) == \A n \in numbers, i \in 1..Len(turns) : n < turns[i].n

\* No agent reads a turn twice or out of order: the buffer is in the order of
\* the conversation and everything in the summary is older, in the window and
\* in what another process would restore, although the two are mirrored by
\* unlocked reads between which another thread may compact.
InOrder ==
    /\ Ascending(buffer) /\ Older(summary, buffer)
    /\ Ascending(stored.buffer) /\ Older(stored.summary, stored.buffer)

\* "persisted after every add()", "survives process restart" (README.md): Redis
\* holds the window whenever no thread is inside it, so a restart then loses
\* nothing, as long as no fault happened and no two calls overlapped (two that do
\* may write their mirrors in the other order).
MirrorIsCurrent ==
    /\ \A t \in Threads : thread[t].stage = "idle"
    /\ faults = 0 /\ ~overlapped
    => stored = [summary |-> summary, buffer |-> buffer]

================================================================================
