---------------------------- MODULE EvdPromise ----------------------------
(***************************************************************************)
(* EvdPromise and EvdDeferred (evd-promise.c): the result of an            *)
(* asynchronous operation and the right to resolve it.  One deferred and   *)
(* its promise, on one main loop.  Listeners are application code: while   *)
(* one runs it may call back into either object.                           *)
(***************************************************************************)
EXTENDS Integers, Sequences

CONSTANTS
  Listener,   \* callbacks, each with a user_data of its own
  Value,      \* results
  Nothing,    \* no result, no user_data, no listener running
  MaxRef      \* bound on the references each party takes

ASSUME PromiseAssumption ==
  /\ Nothing \notin Listener /\ Nothing \notin Value
  /\ MaxRef \in Nat

VARIABLES
  d_ref,      \* references to the deferred, all the owner's
  d_completed,
  p_ref,      \* references to the promise
  app_ref,    \* those of the application
  p_completed, result, user_data,
  listeners,  \* closures attached and not yet called
  notifying,  \* evd_promise_notify_completion is on the stack
  running,    \* the listener on the stack
  complete_in_idle, \* an idle source will complete the deferred
  late,       \* closures with an idle source of their own
  added,      \* history: evd_promise_then calls, in order
  called,     \* history: callbacks called, in order
  early,      \* history: the deferred was freed before its completion was over
  undefined   \* freed memory was used, and nothing is known any more

memory == <<early, undefined>>

vars == <<d_ref, d_completed, p_ref, app_ref, p_completed, result, user_data,
          listeners, notifying, running, complete_in_idle, late, added, called, memory>>

B(p) == IF p THEN 1 ELSE 0

\* evd_deferred_new: the deferred owns a new promise.
Init ==
  /\ d_ref = 1 /\ d_completed = FALSE
  /\ p_ref = 1 /\ app_ref = 0
  /\ p_completed = FALSE /\ result = Nothing /\ user_data = Nothing
  /\ listeners = <<>> /\ notifying = FALSE /\ running = Nothing
  /\ complete_in_idle = FALSE /\ late = <<>>
  /\ added = <<>> /\ called = <<>>
  /\ early = FALSE /\ undefined = FALSE

\* Nothing of this library is on the stack.
Unwound == running = Nothing /\ ~notifying

\* Application code runs: from the main loop, or as a listener.
AppRuns == ~undefined /\ (Unwound \/ running # Nothing)

\* Somebody can reach the promise to call it.
Reachable == app_ref > 0 \/ d_ref > 0 \/ running # Nothing

-----------------------------------------------------------------------------
\* Deviation: the newest listener comes first.
Prepended(l) == <<l>> \o listeners

\* g_list_append
Attached(l) == Append(listeners, l)

\* closure->promise = g_object_ref (self)
ClosureRef == p_ref + 1

\* Whether a new listener finds the promise completed.
Completed == p_completed

evd_promise_then(l) ==
  /\ AppRuns /\ Reachable
  /\ \A i \in 1..Len(added) : added[i] # l
  /\ added' = Append(added, l)
  /\ p_ref' = ClosureRef
  /\ user_data' = l
  /\ IF Completed
     THEN late' = Append(late, l) /\ UNCHANGED listeners
     ELSE listeners' = Attached(l) /\ UNCHANGED late
  /\ UNCHANGED <<d_ref, d_completed, app_ref, p_completed, result, notifying,
                 running, complete_in_idle, called, memory>>

g_object_ref_promise ==
  /\ AppRuns /\ Reachable /\ app_ref < MaxRef
  /\ app_ref' = app_ref + 1 /\ p_ref' = p_ref + 1
  /\ UNCHANGED <<d_ref, d_completed, p_completed, result, user_data, listeners,
                 notifying, running, complete_in_idle, late, added, called, memory>>

g_object_unref_promise ==
  /\ AppRuns /\ app_ref > 0
  /\ app_ref' = app_ref - 1 /\ p_ref' = p_ref - 1
  /\ UNCHANGED <<d_ref, d_completed, p_completed, result, user_data, listeners,
                 notifying, running, complete_in_idle, late, added, called, memory>>

\* evd_deferred_set_result_* and _take_result_error.  g_return_if_fail is
\* compiled out of the default build (G_DISABLE_CHECKS).
evd_deferred_set_result(v) ==
  /\ AppRuns /\ d_ref > 0
  /\ result' = v
  /\ UNCHANGED <<d_ref, d_completed, p_ref, app_ref, p_completed, user_data,
                 listeners, notifying, running, complete_in_idle, late, added,
                 called, memory>>

evd_deferred_complete ==
  /\ AppRuns /\ d_ref > 0 /\ ~d_completed
  /\ d_completed' = TRUE
  /\ p_completed' = TRUE /\ notifying' = TRUE
  /\ UNCHANGED <<d_ref, p_ref, app_ref, result, user_data, listeners, running,
                 complete_in_idle, late, added, called, memory>>

evd_deferred_complete_in_idle ==
  /\ AppRuns /\ d_ref > 0 /\ ~d_completed
  /\ d_completed' = TRUE
  /\ complete_in_idle' = TRUE
  /\ UNCHANGED <<d_ref, p_ref, app_ref, p_completed, result, user_data,
                 listeners, notifying, running, late, added, called, memory>>

\* The idle source has no reference to the deferred it completes.
deferred_complete_in_idle_cb ==
  /\ Unwound /\ complete_in_idle
  /\ complete_in_idle' = FALSE
  /\ \/ d_ref > 0 /\ p_completed' = TRUE /\ notifying' = TRUE /\ UNCHANGED undefined
     \/ d_ref = 0 /\ undefined' = TRUE /\ UNCHANGED <<p_completed, notifying>>
  /\ UNCHANGED <<d_ref, d_completed, p_ref, app_ref, result, user_data,
                 listeners, running, late, added, called, early>>

\* One turn of the loop of evd_promise_notify_completion: the call ...
evd_promise_notify_completion ==
  /\ notifying /\ running = Nothing /\ listeners # <<>>
  /\ running' = Head(listeners) /\ user_data' = Head(listeners)
  /\ called' = Append(called, Head(listeners))
  /\ listeners' = Tail(listeners)
  /\ UNCHANGED <<d_ref, d_completed, p_ref, app_ref, p_completed, result,
                 notifying, complete_in_idle, late, added, memory>>

\* ... and the end of the loop, which reads the promise once more.  One that
\* went with its last closure was disposed of during the walk, which freed the
\* closures a second time.
evd_promise_notify_completion_end ==
  /\ notifying /\ running = Nothing /\ listeners = <<>>
  /\ notifying' = FALSE
  /\ undefined' = (p_ref = 0)
  /\ UNCHANGED <<d_ref, d_completed, p_ref, app_ref, p_completed, result,
                 user_data, listeners, running, complete_in_idle, late, added,
                 called, early>>

call_listener_in_idle ==
  /\ Unwound /\ late # <<>>
  /\ running' = Head(late)
  /\ called' = Append(called, Head(late))
  /\ late' = Tail(late)
  /\ UNCHANGED <<d_ref, d_completed, p_ref, app_ref, p_completed, result,
                 user_data, listeners, notifying, complete_in_idle, added, memory>>

\* Deviation: the closure's reference to the promise is not given back.
ClosureKept == p_ref

ClosureFreed == p_ref - 1

\* A listener returns and its closure is freed.
free_promise_closure ==
  /\ running # Nothing
  /\ running' = Nothing
  /\ p_ref' = ClosureFreed
  /\ UNCHANGED <<d_ref, d_completed, app_ref, p_completed, result, user_data,
                 listeners, notifying, complete_in_idle, late, added, called, memory>>

evd_deferred_ref ==
  /\ AppRuns /\ d_ref > 0 /\ d_ref < MaxRef
  /\ d_ref' = d_ref + 1
  /\ UNCHANGED <<d_completed, p_ref, app_ref, p_completed, result, user_data,
                 listeners, notifying, running, complete_in_idle, late, added,
                 called, memory>>

\* With the last reference the deferred gives back its promise.  The owner may
\* do so at any time: nothing in the code makes it wait for the completion.
evd_deferred_unref ==
  /\ AppRuns /\ d_ref > 0
  /\ d_ref' = d_ref - 1
  /\ p_ref' = p_ref - B(d_ref = 1)
  /\ early' = (early \/ (d_ref = 1 /\ (complete_in_idle \/ notifying)))
  /\ UNCHANGED <<d_completed, app_ref, p_completed, result, user_data,
                 listeners, notifying, running, complete_in_idle, late, added,
                 called, undefined>>

-----------------------------------------------------------------------------
MainLoop ==
  /\ ~undefined
  /\ \/ deferred_complete_in_idle_cb
     \/ call_listener_in_idle
     \/ evd_promise_notify_completion
     \/ evd_promise_notify_completion_end
     \/ free_promise_closure

Next ==
  \/ MainLoop
  \/ \E l \in Listener : evd_promise_then(l)
  \/ g_object_ref_promise
  \/ g_object_unref_promise
  \/ \E v \in Value : evd_deferred_set_result(v)
  \/ evd_deferred_complete
  \/ evd_deferred_complete_in_idle
  \/ evd_deferred_ref
  \/ evd_deferred_unref

Spec == Init /\ [][Next]_vars

\* A main loop runs its idle sources, and listeners return.
FairSpec == Spec /\ WF_vars(MainLoop)

-----------------------------------------------------------------------------
(* Properties.                                                             *)

TypeOK ==
  /\ d_ref \in Nat /\ p_ref \in Nat /\ app_ref \in Nat
  /\ d_completed \in BOOLEAN /\ p_completed \in BOOLEAN
  /\ result \in Value \cup {Nothing}
  /\ user_data \in Listener \cup {Nothing}
  /\ running \in Listener \cup {Nothing}
  /\ notifying \in BOOLEAN /\ complete_in_idle \in BOOLEAN
  /\ listeners \in Seq(Listener) /\ late \in Seq(Listener)
  /\ added \in Seq(Listener) /\ called \in Seq(Listener)
  /\ early \in BOOLEAN /\ undefined \in BOOLEAN

\* Listeners are called once each and in the order of their evd_promise_then
\* calls, whether they were attached before the completion, by a listener in
\* the middle of it, or after it.
CallsInOrder ==
  /\ Len(called) <= Len(added)
  /\ called = SubSeq(added, 1, Len(called))

\* A closure keeps the promise for its listener, whoever else let go of it; and
\* evd_promise_notify_completion and the idle source of a completion, which hold
\* no reference of their own, use a freed object in one case only: the owner gave
\* back its last reference to the deferred after it had asked for the completion
\* and before the completion was over.
NoFreedObjectUsed ==
  /\ running # Nothing \/ listeners # <<>> \/ late # <<>> => p_ref > 0
  /\ undefined => early

\* Every reference to the promise has a holder: the application, the deferred,
\* or a closure that has not been freed.
RefsExact ==
  p_ref = app_ref + B(d_ref > 0) + Len(listeners) + Len(late)
            + B(running # Nothing)

\* The references to the promise are exact, and neither object is used after the
\* last one unless the owner of the deferred lets go of it early.
ReferencesKept == RefsExact /\ NoFreedObjectUsed

\* Once an operation is completed every listener attached to its promise is
\* called, those attached later included, unless the completion used a freed
\* object.
AllNotified ==
  \A l \in Listener :
    (d_completed /\ \E i \in 1..Len(added) : added[i] = l)
      ~> undefined \/ \E i \in 1..Len(called) : called[i] = l

\* A listener that asks the promise for g_async_result_get_user_data when it
\* is called gets its own user_data.
UserDataOfListener ==
  [][running = Nothing /\ running' # Nothing => user_data' = running']_vars
=============================================================================
