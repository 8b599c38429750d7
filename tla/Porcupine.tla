----------------------------- MODULE Porcupine -----------------------------
(***************************************************************************)
(* The linearizability checker that the testers run on what the clerks did *)
(* (labs/src/porcupine, with the model of labs/src/models/kv.go).          *)
(*                                                                         *)
(* checkParallel starts a goroutine for every key.  Each runs checkSingle  *)
(* on the calls and returns of its key: it linearizes a call, lifts it     *)
(* with its return out of a doubly linked list, and backtracks when it     *)
(* meets the return of an operation that is not linearized.  A step of the *)
(* model is one iteration of that loop.  A node of the list is the         *)
(* position of its entry in the sorted history.                            *)
(***************************************************************************)
EXTENDS Integers, Sequences, FiniteSets, SequencesExt

CONSTANTS NumOps,      \* operations in a history
          Operation    \* the operations: records with key, type, value, output, call, return

VARIABLES history,     \* the operations, in the order they were logged
          verbose,     \* computeInfo
          timeout,     \* was a timeout given?
          search,      \* search[k]: the variables of checkSingle for key k
          pc,          \* pc[k]: "search", or "done" when its result was sent
          results,     \* the channel
          kill,
          main,        \* the variables of checkParallel
          result       \* what it returned

vars == <<history, verbose, timeout, search, pc, results, kill, main, result>>

Ids == 1 .. NumOps
Head0 == 0             \* headEntry
Nil == -1
Empty == <<>>          \* the empty string

-----------------------------------------------------------------------------
(* The model of models/kv.go. *)

\* Partition: one history for each key.
Keys == {history[i].key : i \in Ids}
OpsOf(k) == {i \in Ids : history[i].key = k}

\* Step: may operation i happen in state st, and the state after it.
StepOK(st, i) == history[i].type = "Get" => history[i].output = st

StepState(st, i) ==
    CASE history[i].type = "Get"    -> st
      [] history[i].type = "Put"    -> history[i].value
      [] history[i].type = "Append" -> st \o history[i].value

-----------------------------------------------------------------------------
(* Histories. *)

\* Calls come before returns of the same time.  sort.Sort leaves open how it
\* orders other entries of the same time; here the ids decide, and Init takes
\* the operations in every order.
Less(a, b) ==
    \/ a.time < b.time
    \/ a.time = b.time /\ a.kind = "call" /\ b.kind = "return"
    \/ a.time = b.time /\ a.kind = b.kind /\ a.id < b.id

makeEntries(k) ==
    LET E == {[kind |-> "call", id |-> i, time |-> history[i].call] : i \in OpsOf(k)}
             \cup {[kind |-> "return", id |-> i, time |-> history[i].return] : i \in OpsOf(k)}
    IN  [n \in 1 .. Cardinality(E) |-> CHOOSE e \in E : Cardinality({f \in E : Less(f, e)}) = n - 1]

\* The list after makeLinkedEntries and the insertion of headEntry.
makeLinkedEntries(n) ==
    [next |-> [p \in 0 .. n |-> IF p = n THEN Nil ELSE p + 1],
     prev |-> [p \in 0 .. n |-> IF p = 0 THEN Nil ELSE p - 1]]

\* A bitset is the set of the positions that are 1.
newBitset == {}
set(b, pos) == b \cup {pos}
clear(b, pos) == b \ {pos}

-----------------------------------------------------------------------------
(* checkSingle. *)

\* The call's return.
match(k, n) ==
    LET E == search[k].entries
    IN  CHOOSE m \in DOMAIN E : E[m].kind = "return" /\ E[m].id = E[n].id

lift(list, n, m) ==
    LET next1 == [list.next EXCEPT ![list.prev[n]] = list.next[n]]
        prev1 == [list.prev EXCEPT ![list.next[n]] = list.prev[n]]
    IN  [next |-> [next1 EXCEPT ![prev1[m]] = next1[m]],
         prev |-> IF next1[m] = Nil THEN prev1 ELSE [prev1 EXCEPT ![next1[m]] = prev1[m]]]

\* Bug: the entry after the return still points past it.
unliftNext(list, n, m) ==
    LET next1 == [list.next EXCEPT ![list.prev[m]] = m]
    IN  [next |-> [next1 EXCEPT ![list.prev[n]] = n],
         prev |-> [list.prev EXCEPT ![next1[n]] = n]]

unlift(list, n, m) ==
    LET next1 == [list.next EXCEPT ![list.prev[m]] = m]
        prev1 == IF list.next[m] = Nil THEN list.prev ELSE [list.prev EXCEPT ![list.next[m]] = m]
    IN  [next |-> [next1 EXCEPT ![prev1[n]] = n],
         prev |-> [prev1 EXCEPT ![next1[n]] = n]]

cacheContains(cache, linearized, state) == [linearized |-> linearized, state |-> state] \in cache

\* Bug: the first sequence found is kept.
LongerFirst(longest, calls) ==
    [i \in Ids |-> IF i \in Range(calls) /\ longest[i] = <<>> THEN calls ELSE longest[i]]

\* The longest linearizations found for the operations that are in calls now.
Longer(longest, calls) ==
    [i \in Ids |-> IF i \in Range(calls) /\ Len(calls) > Len(longest[i]) THEN calls ELSE longest[i]]

Searching(k) == pc[k] = "search" /\ search[k].list.next[Head0] # Nil /\ ~kill

CallAt(k) == search[k].entries[search[k].entry].kind = "call"
IdAt(k) == search[k].entries[search[k].entry].id

\* Can the call at hand be linearized next?
Fits(k) ==
    LET s == search[k]
    IN  /\ StepOK(s.state, IdAt(k))
        /\ ~cacheContains(s.cache, set(s.linearized, IdAt(k)), StepState(s.state, IdAt(k)))

Linearize(k) ==
    LET s == search[k]
        after == StepState(s.state, IdAt(k))
        now == set(s.linearized, IdAt(k))
        list == lift(s.list, s.entry, match(k, s.entry))
    IN  /\ Searching(k) /\ CallAt(k) /\ Fits(k)
        /\ search' = [search EXCEPT ![k] =
              [s EXCEPT !.cache = @ \cup {[linearized |-> now, state |-> after]},
                        !.calls = Append(@, [entry |-> s.entry, state |-> s.state]),
                        !.state = after,
                        !.linearized = now,
                        !.list = list,
                        !.entry = list.next[Head0]]]
        /\ UNCHANGED <<history, verbose, timeout, pc, results, kill, main, result>>

Skip(k) ==
    /\ Searching(k) /\ CallAt(k) /\ ~Fits(k)
    /\ search' = [search EXCEPT ![k].entry = search[k].list.next[@]]
    /\ UNCHANGED <<history, verbose, timeout, pc, results, kill, main, result>>

\* The ids of the operations in calls.
CallIds(k) == [n \in DOMAIN search[k].calls |-> search[k].entries[search[k].calls[n].entry].id]

Backtrack(k) ==
    LET s == search[k]
        top == s.calls[Len(s.calls)]
        list == unlift(s.list, top.entry, match(k, top.entry))
    IN  /\ Searching(k) /\ ~CallAt(k) /\ s.calls # <<>>
        /\ search' = [search EXCEPT ![k] =
              [s EXCEPT !.longest = IF verbose THEN Longer(@, CallIds(k)) ELSE @,
                        !.calls = SubSeq(@, 1, Len(@) - 1),
                        !.state = top.state,
                        !.linearized = clear(@, s.entries[top.entry].id),
                        !.list = list,
                        !.entry = list.next[top.entry]]]
        /\ UNCHANGED <<history, verbose, timeout, pc, results, kill, main, result>>

\* checkSingle returns, and its goroutine sends the result.
Send(k, ok) ==
    /\ pc' = [pc EXCEPT ![k] = "done"]
    /\ results' = Append(results, ok)
    /\ UNCHANGED <<history, verbose, timeout, kill, main, result>>

Succeed(k) ==
    /\ pc[k] = "search" /\ search[k].list.next[Head0] = Nil
    /\ search' = [search EXCEPT ![k].longest =
                    [i \in Ids |-> IF i \in OpsOf(k) THEN CallIds(k) ELSE @[i]]]
    /\ Send(k, TRUE)

Fail(k) ==
    /\ Searching(k) /\ ~CallAt(k) /\ search[k].calls = <<>>
    /\ Send(k, FALSE)
    /\ UNCHANGED search

Killed(k) ==
    /\ pc[k] = "search" /\ search[k].list.next[Head0] # Nil /\ kill
    /\ Send(k, FALSE)
    /\ UNCHANGED search

-----------------------------------------------------------------------------
(* checkParallel. *)

\* Bug: the loop waits for one result too many.
AllInLate(count) == count > Cardinality(Keys)

AllIn(count) == count >= Cardinality(Keys)

ReceiveResult ==
    LET ok == main.ok /\ results[1]
        count == main.count + 1
        stop == ~ok /\ ~verbose
    IN  /\ main.pc = "loop"
        /\ results # <<>>
        /\ results' = SubSeq(results, 2, Len(results))
        /\ main' = [main EXCEPT !.ok = ok, !.count = count,
                                !.pc = IF stop \/ AllIn(count) THEN "wait" ELSE "loop"]
        /\ kill' = (kill \/ stop)
        /\ UNCHANGED <<history, verbose, timeout, search, pc, result>>

TimeOut ==
    /\ main.pc = "loop"
    /\ timeout
    /\ main' = [main EXCEPT !.timedOut = TRUE, !.pc = "wait"]
    /\ kill' = TRUE
    /\ UNCHANGED <<history, verbose, timeout, search, pc, results, result>>

\* Bug: the results of killed goroutines count.
WaitForAllCounts ==
    /\ main.pc = "wait"
    /\ verbose /\ main.count < Cardinality(Keys)
    /\ results # <<>>
    /\ results' = SubSeq(results, 2, Len(results))
    /\ main' = [main EXCEPT !.count = @ + 1, !.ok = @ /\ results[1]]
    /\ UNCHANGED <<history, verbose, timeout, search, pc, kill, result>>

\* The results that are only waited for.
WaitForAll ==
    /\ main.pc = "wait"
    /\ verbose /\ main.count < Cardinality(Keys)
    /\ results # <<>>
    /\ results' = SubSeq(results, 2, Len(results))
    /\ main' = [main EXCEPT !.count = @ + 1]
    /\ UNCHANGED <<history, verbose, timeout, search, pc, kill, result>>

ReturnResult ==
    /\ main.pc = "wait"
    /\ verbose => main.count >= Cardinality(Keys)
    /\ main' = [main EXCEPT !.pc = "returned"]
    /\ result' = CASE ~main.ok                  -> "Illegal"
                   [] main.ok /\ main.timedOut  -> "Unknown"
                   [] main.ok /\ ~main.timedOut -> "Ok"
    /\ UNCHANGED <<history, verbose, timeout, search, pc, results, kill>>

-----------------------------------------------------------------------------
\* checkOperations, up to the start of the goroutines.
Init ==
    /\ history \in [Ids -> Operation]
    /\ verbose \in BOOLEAN /\ timeout \in BOOLEAN
    /\ search = [k \in Keys |->
          [entries |-> makeEntries(k), list |-> makeLinkedEntries(2 * Cardinality(OpsOf(k))),
           entry |-> 1, linearized |-> newBitset, state |-> Empty, calls |-> <<>>, cache |-> {},
           longest |-> [i \in Ids |-> <<>>]]]
    /\ pc = [k \in Keys |-> "search"]
    /\ results = <<>>
    /\ kill = FALSE
    /\ main = [pc |-> "loop", count |-> 0, ok |-> TRUE, timedOut |-> FALSE]
    /\ result = "none"

checkSingle(k) == Linearize(k) \/ Skip(k) \/ Backtrack(k) \/ Succeed(k) \/ Fail(k) \/ Killed(k)

checkParallel == ReceiveResult \/ TimeOut \/ WaitForAll \/ ReturnResult

Next == checkParallel \/ \E k \in Keys : checkSingle(k)

\* Goroutines that can go on do.
Fairness ==
    /\ WF_vars(checkParallel)
    /\ \A k \in {op.key : op \in Operation} : WF_vars(k \in Keys /\ checkSingle(k))

Spec == Init /\ [][Next]_vars /\ Fairness

-----------------------------------------------------------------------------
(* What linearizability means. *)

\* i returned before j was called.
Precedes(i, j) == history[i].return < history[j].call

\* The sequence of operations s is a prefix of a linearization, for a map that
\* holds the keys K: it has all that precedes its members, in order, and every
\* Get returns what the map holds.
Explains(s, K) ==
    LET values[n \in 0 .. Len(s)] ==
            IF n = 0 THEN [k \in K |-> Empty]
            ELSE [values[n - 1] EXCEPT ![history[s[n]].key] = StepState(@, s[n])]
    IN  /\ \A n \in DOMAIN s : \A i \in Ids :
              history[i].key \in K /\ Precedes(i, s[n]) => \E m \in 1 .. n - 1 : s[m] = i
        /\ \A n \in DOMAIN s : StepOK(values[n - 1][history[s[n]].key], s[n])

Linearizable == \E s \in SetToSeqs(Ids) : Explains(s, Keys)

-----------------------------------------------------------------------------
(* Properties. *)

\* checkOperations says Ok or Illegal only of a history of the whole map that
\* is, or is not, linearizable: partitioning by key, the cache and the result of
\* a goroutine that was killed do no harm (checkSingle, checkParallel).
VerdictIsRight ==
    /\ result = "Ok" => Linearizable
    /\ result = "Illegal" => ~Linearizable

\* However often calls were lifted out of the list and put back, the list is
\* the sorted history without the operations linearized now, in both
\* directions, and the loop stands at an entry of it (lift, unlift).
ListIsHistory ==
    \A k \in Keys :
       LET s == search[k]
           left == {n \in DOMAIN s.entries : s.entries[n].id \notin s.linearized}
           after(n) == {m \in left : m > n}
       IN  /\ \A n \in left \cup {Head0} :
                 LET m == s.list.next[n]
                 IN  IF after(n) = {} THEN m = Nil
                     ELSE m = Min(after(n)) /\ s.list.prev[m] = n
           /\ left # {} => s.entry \in left

\* For a key that has no linearization, each operation is reported with a
\* longest sequence that explains it, or with none if there is none (the
\* comment on `longest' in checkSingle).
PartialsAreLongest ==
    \A k \in Keys :
       verbose /\ pc[k] = "done" /\ ~kill =>
          LET partials == {s \in SetToAllKPermutations(OpsOf(k)) : Explains(s, {k})}
          IN  \A i \in OpsOf(k) :
                 LET with == {s \in partials : i \in Range(s)}
                     found == search[k].longest[i]
                 IN  IF with = {} THEN found = <<>>
                     ELSE found \in with /\ Len(found) = Max({Len(s) : s \in with})

\* The checker returns, and its goroutines end.
Terminates == <>(result # "none" /\ \A k \in Keys : pc[k] = "done")
=============================================================================
