------------------------------ MODULE Porcupine ------------------------------
(***************************************************************************)
(* The linearizability checker of src/code/src/porcupine that the tests of *)
(* the services rely on, with the key/value model of src/code/src/models:  *)
(* one goroutine per partition searches for a linearization, and           *)
(* checkParallel collects their results against a timeout.                 *)
(*                                                                         *)
(* A goroutine's step is one iteration of its loop.  Bitsets are sets, and *)
(* the cache, a map from their hashes, is a set.  Nodes are numbered by    *)
(* their position in the list of entries.                                  *)
(***************************************************************************)
EXTENDS Integers, Sequences, FiniteSets, SequencesExt

CONSTANTS History,    \* the histories to check: sequences of Operations
          Nothing

ASSUME HistoryAssumption ==
    \A h \in History : \A a, b \in 1..Len(h) :
        /\ h[a].Call < h[a].Return
        /\ a # b => {h[a].Call, h[a].Return} \cap {h[b].Call, h[b].Return} = {}

VARIABLES history,    \* the history of this check
          entries,    \* per partition: its entries
          verbose,    \* computeInfo
          search,     \* per partition: the local variables of checkSingle
          kill, ok, timedOut,
          received,   \* the partitions whose results have been taken from the channel
          looping,    \* is checkParallel in its loop?
          verdict     \* what it returned, or Nothing

inputVars == <<history, entries, verbose>>
mainVars == <<ok, timedOut, received, looping, verdict>>
checkVars == <<inputVars, search, kill, mainVars>>

nil == -1
head == 0
-----------------------------------------------------------------------------
(* models/kv.go: the state is one key's value, a sequence of what was written. *)

Start == <<>>

Step(state, op) ==
    CASE op.Op = "get" -> [ok |-> op.Output = state, state |-> state]
      [] op.Op = "put" -> [ok |-> TRUE, state |-> op.Value]
      [] op.Op = "append" -> [ok |-> TRUE, state |-> state \o op.Value]

\* The keys' operations, in the order of the history; the order of the keys is immaterial.
Partition(h) ==
    SetToSeq({SelectSeq(h, LAMBDA op : op.Key = k) : k \in {h[n].Key : n \in 1..Len(h)}})

\* makeEntries(): a call and a return of each operation, sorted by time.  ids count from 0
\* in the code, from 1 here.
makeEntries(ops) ==
    LET unsorted == {[kind |-> "call", id |-> n, time |-> ops[n].Call, op |-> ops[n]] :
                        n \in 1..Len(ops)}
              \union {[kind |-> "return", id |-> n, time |-> ops[n].Return, op |-> ops[n]] :
                        n \in 1..Len(ops)}
    IN  SetToSortSeq(unsorted, LAMBDA a, b : a.time < b.time)

\* The same history as Events, numbered by whoever recorded them.
Events(h) ==
    LET sorted == makeEntries(h)
    IN  [k \in 1..Len(sorted) |-> [Kind |-> sorted[k].kind, Id |-> 10 * sorted[k].id,
                                   op |-> sorted[k].op]]

\* renumber(): ids in the order in which they first appear.
renumber(events) ==
    LET first(id) == CHOOSE k \in 1..Len(events) :
                        events[k].Id = id /\ \A j \in 1..(k - 1) : events[j].Id # id
        seen(k) == {events[j].Id : j \in 1..k}
    IN  [k \in 1..Len(events) |->
            [events[k] EXCEPT !.Id = Cardinality(seen(first(events[k].Id)))]]

\* convertEntries(): the position of an event is its time.
convertEntries(events) ==
    [k \in 1..Len(events) |-> [kind |-> events[k].Kind, id |-> events[k].Id, time |-> k,
                               op |-> events[k].op]]

\* checkOperations() and checkEvents(): the partitions' entries.  The model has no
\* PartitionEvent, so events must be those of one key.
EntriesOf(h) ==
    LET partitions == Partition(h)
    IN  {[i \in 1..Len(partitions) |-> makeEntries(partitions[i])]}
        \union (IF Len(partitions) = 1 THEN {<<convertEntries(renumber(Events(h)))>>} ELSE {})

\* Node n of a list of entries: for a call, its return; nil for a return.
match(es, n) ==
    IF es[n].kind = "return" THEN nil
    ELSE CHOOSE m \in 1..Len(es) : es[m].kind = "return" /\ es[m].id = es[n].id
-----------------------------------------------------------------------------
(* checkSingle *)

\* makeLinkedEntries() and what checkSingle sets up before its loop.
NewSearch(es) ==
    LET size == Len(es)
    IN  [next |-> [n \in 0..size |-> IF n = size THEN nil ELSE n + 1],
         prev |-> [n \in 0..size |-> n - 1],
         entry |-> 1,
         state |-> Start,
         linearized |-> {},
         cache |-> {},
         calls |-> <<>>,
         longest |-> [id \in 1..(size \div 2) |-> <<>>],
         result |-> Nothing]

\* match.prev.next = match.next and the like, on the two link functions.
Unlink(links, n) ==
    LET before == links.prev[n]
        after == links.next[n]
    IN  [next |-> [links.next EXCEPT ![before] = after],
         prev |-> IF after = nil THEN links.prev ELSE [links.prev EXCEPT ![after] = before]]

Relink(links, n) ==
    LET before == links.prev[n]
        after == links.next[n]
    IN  [next |-> [links.next EXCEPT ![before] = n],
         prev |-> IF after = nil THEN links.prev ELSE [links.prev EXCEPT ![after] = n]]

Links(s) == [next |-> s.next, prev |-> s.prev]

\* A call and its return leave the list, and come back in the opposite order.
lift(s, n, m) == Unlink(Unlink(Links(s), n), m)

unlift(s, n, m) == Relink(Relink(Links(s), m), n)

\* Variant: what matters is which operations are linearized.
cacheContainsSet(cache, linearized, state) == \E c \in cache : c[1] = linearized

cacheContains(cache, linearized, state) == <<linearized, state>> \in cache

Ids(es, calls) == [k \in 1..Len(calls) |-> es[calls[k].entry].id]

\* Variant: the first prefix that an operation is part of is kept.
LongerOnce(longest, ids) ==
    [id \in DOMAIN longest |->
        IF id \in {ids[k] : k \in 1..Len(ids)} /\ longest[id] = <<>>
        THEN ids ELSE longest[id]]

\* The longest prefixes after another dead end; <<>> is the nil of an operation without one.
Longer(longest, ids) ==
    [id \in DOMAIN longest |->
        IF id \in {ids[k] : k \in 1..Len(ids)}
           /\ Len(ids) > Len(longest[id])
        THEN ids ELSE longest[id]]

\* Variant: the search begins again at the first entry.
PassOverFromHead(s) == [s EXCEPT !.entry = s.next[head]]

\* entry = entry.next
PassOver(s) == [s EXCEPT !.entry = s.next[s.entry]]

\* The body of the loop for a call.
TryCall(s, es) ==
    LET n == s.entry
        id == es[n].id
        step == Step(s.state, es[n].op)
        linearized == s.linearized \union {id}
        links == lift(s, n, match(es, n))
    IN  IF step.ok /\ ~ cacheContains(s.cache, linearized, step.state)
        THEN [s EXCEPT !.cache = @ \union {<<linearized, step.state>>},
                       !.calls = Append(@, [entry |-> n, state |-> s.state]),
                       !.state = step.state,
                       !.linearized = linearized,
                       !.next = links.next,
                       !.prev = links.prev,
                       !.entry = links.next[head]]
        ELSE PassOver(s)

\* The body of the loop for a return: back to the last call that was tried.
Backtrack(s, es) ==
    IF s.calls = <<>> THEN [s EXCEPT !.result = FALSE]
    ELSE LET top == Last(s.calls)
             links == unlift(s, top.entry, match(es, top.entry))
         IN  [s EXCEPT !.longest = IF verbose THEN Longer(@, Ids(es, s.calls)) ELSE @,
                       !.state = top.state,
                       !.linearized = @ \ {es[top.entry].id},
                       !.calls = Front(@),
                       !.next = links.next,
                       !.prev = links.prev,
                       !.entry = links.next[top.entry]]

\* One iteration, or the return after the last one.
checkSingle(i) ==
    LET s == search[i]
        es == entries[i]
    IN  /\ s.result = Nothing
        /\ search' = [search EXCEPT ![i] =
              CASE s.next[head] = nil ->
                       [s EXCEPT !.result = TRUE,
                                 !.longest = [id \in DOMAIN @ |-> Ids(es, s.calls)]]
                [] s.next[head] # nil /\ kill -> [s EXCEPT !.result = FALSE]
                [] s.next[head] # nil /\ ~ kill /\ match(es, s.entry) # nil -> TryCall(s, es)
                [] s.next[head] # nil /\ ~ kill /\ match(es, s.entry) = nil -> Backtrack(s, es)]
        /\ UNCHANGED <<inputVars, kill, mainVars>>
-----------------------------------------------------------------------------
(* checkParallel *)

Partitions == 1..Len(entries)

\* case result := <-results
ReceiveResult(i) ==
    /\ looping
    /\ i \notin received /\ search[i].result # Nothing
    /\ received' = received \union {i}
    /\ ok' = (ok /\ search[i].result)
    /\ kill' = (kill \/ (~ ok' /\ ~ verbose))
    /\ looping' = ((ok' \/ verbose) /\ received' # Partitions)
    /\ UNCHANGED <<inputVars, search, timedOut, verdict>>

\* case <-timeoutChan
Timeout ==
    /\ looping
    /\ timedOut' = TRUE /\ kill' = TRUE /\ looping' = FALSE
    /\ UNCHANGED <<inputVars, search, ok, received, verdict>>

\* <-results: wait for the goroutines, whose results no longer count.
Drain(i) ==
    /\ ~ looping /\ verbose
    /\ i \notin received /\ search[i].result # Nothing
    /\ received' = received \union {i}
    /\ UNCHANGED <<inputVars, search, kill, ok, timedOut, looping, verdict>>

Verdict == IF ~ ok THEN "Illegal" ELSE IF timedOut THEN "Unknown" ELSE "Ok"

ReturnVerdict ==
    /\ ~ looping /\ verdict = Nothing
    /\ verbose => received = Partitions
    /\ verdict' = Verdict
    /\ UNCHANGED <<inputVars, search, kill, ok, timedOut, received, looping>>

CheckInit ==
    /\ history \in History
    /\ entries \in EntriesOf(history)
    /\ verbose \in BOOLEAN
    /\ search = [i \in 1..Len(entries) |-> NewSearch(entries[i])]
    /\ kill = FALSE /\ ok = TRUE /\ timedOut = FALSE
    /\ received = {} /\ looping = TRUE /\ verdict = Nothing

Work ==
    \/ \E i \in Partitions : checkSingle(i)
    \/ \E i \in Partitions : ReceiveResult(i)
    \/ \E i \in Partitions : Drain(i)
    \/ ReturnVerdict

CheckNext == Work \/ Timeout

\* The goroutines run; there may be no timeout.
CheckFairness == WF_checkVars(Work)
-----------------------------------------------------------------------------
(* What it means to be linearizable. *)

\* The operations of partition i, by id.
Ops(i) ==
    [id \in 1..(Len(entries[i]) \div 2) |->
        entries[i][CHOOSE k \in 1..Len(entries[i]) : entries[i][k].id = id].op]

\* The state after the operations ids, in this order, or Nothing if one of them could not
\* have returned what it did.
After(i, ids) ==
    FoldLeft(LAMBDA state, id : IF state = Nothing \/ ~ Step(state, Ops(i)[id]).ok THEN Nothing
                                ELSE Step(state, Ops(i)[id]).state,
             Start, ids)

\* ids is a linearization of some of the operations: no operation is left out, or comes
\* later, that returned before another in ids was called.
Legal(i, ids) ==
    /\ After(i, ids) # Nothing
    /\ \A k \in 1..Len(ids), a \in 1..Len(Ops(i)) :
           Ops(i)[a].Return < Ops(i)[ids[k]].Call => \E j \in 1..(k - 1) : ids[j] = a

Linearizations(i) ==
    {ids \in SetToAllKPermutations(1..Len(Ops(i))) : Legal(i, ids)}

IsLinearizable(i) == \E ids \in Linearizations(i) : Len(ids) = Len(Ops(i))

\* The verdict is right: Ok for a history that is linearizable, Illegal for one that is
\* not, Unknown only after a timeout.
VerdictIsRight ==
    CASE verdict = "Ok" -> \A i \in Partitions : IsLinearizable(i)
      [] verdict = "Illegal" -> \E i \in Partitions : ~ IsLinearizable(i)
      [] verdict = "Unknown" -> timedOut
      [] OTHER -> TRUE

\* "return longest linearizable prefixes that include each history element"
\* (checker.go:314): what a verbose check that was not cut short reports for an operation
\* is a linearization of as many operations as any that includes it.
LongestIsLongest ==
    verdict # Nothing /\ verbose /\ ~ timedOut =>
        \A i \in Partitions : \A id \in 1..Len(Ops(i)) :
            LET with == {ids \in Linearizations(i) : \E k \in 1..Len(ids) : ids[k] = id}
                reported == search[i].longest[id]
            IN  IF with = {} THEN reported = <<>>
                ELSE reported \in with /\ \A ids \in with : Len(ids) <= Len(reported)

\* Every check returns, also without a timeout, and so do the goroutines it started.
Terminates == <>(verdict # Nothing /\ \A i \in Partitions : search[i].result # Nothing)
=============================================================================
