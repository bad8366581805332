-------------------------- MODULE EvdPromise_proofs --------------------------
(***************************************************************************)
(* Proofs about EvdPromise, for any listeners and any number of            *)
(* references.                                                             *)
(***************************************************************************)
EXTENDS EvdPromise, TLAPS

\* Moving the head of one sequence to the end of another leaves their concatenation.
LEMMA HeadMoves ==
  ASSUME NEW S, NEW c \in Seq(S), NEW s \in Seq(S), s # <<>>
  PROVE  Append(c, Head(s)) \o Tail(s) = c \o s
  BY SMTT(40)

\* Appending to the second sequence appends to the concatenation.
LEMMA AppendConcat ==
  ASSUME NEW S, NEW c \in Seq(S), NEW s \in Seq(S), NEW x \in S
  PROVE  c \o Append(s, x) = Append(c \o s, x)
  OBVIOUS

\* Concatenation is associative.
LEMMA ConcatAssoc ==
  ASSUME NEW S, NEW a \in Seq(S), NEW b \in Seq(S), NEW c \in Seq(S)
  PROVE  (a \o b) \o c = a \o (b \o c)
  BY SMTT(40)

\* The empty sequence is neutral.
LEMMA ConcatEmpty ==
  ASSUME NEW S, NEW a \in Seq(S)
  PROVE  a \o <<>> = a /\ <<>> \o a = a
  OBVIOUS

\* A sequence is the prefix of its length of a concatenation.
LEMMA ConcatPrefix ==
  ASSUME NEW S, NEW a \in Seq(S), NEW b \in Seq(S)
  PROVE  /\ Len(a) <= Len(a \o b)
         /\ a = SubSeq(a \o b, 1, Len(a))
  OBVIOUS

\* The closures still to be called are what separates the two histories; the
\* attached ones come before those with a source of their own.
OrderInv ==
  /\ added = called \o (listeners \o late)
  /\ late # <<>> => p_completed
  /\ p_completed /\ listeners # <<>> => notifying

\* How far the completion has got.
PhaseInv ==
  /\ p_completed => d_completed /\ ~complete_in_idle
  /\ complete_in_idle => d_completed
  /\ notifying => p_completed

\* An owner that has not let go early still has the deferred while a completion
\* is asked for or under way, so that nothing freed was used.
OwnerInv ==
  /\ ~early => (notifying \/ complete_in_idle => d_ref > 0)
  /\ undefined => early

IInv == TypeOK /\ RefsExact /\ OrderInv /\ PhaseInv /\ OwnerInv

\* The terms of RefsExact are numbers.
LEMMA CountsNat ==
  ASSUME TypeOK
  PROVE  /\ p_ref \in Nat /\ app_ref \in Nat /\ d_ref \in Nat
         /\ Len(listeners) \in Nat /\ Len(late) \in Nat
         /\ B(d_ref > 0) = 1 <=> d_ref > 0
         /\ B(d_ref > 0) = 0 <=> ~(d_ref > 0)
         /\ B(running # Nothing) = 1 <=> running # Nothing
         /\ B(running # Nothing) = 0 <=> running = Nothing
         /\ B(d_ref > 0) \in {0, 1} /\ B(running # Nothing) \in {0, 1}
  BY DEF TypeOK, B

\* The initial state satisfies the inductive invariant.
LEMMA InitInv == Init => IInv
<1> SUFFICES ASSUME Init PROVE IInv
  BY Zenon
<1>1. TypeOK
  <2>1. d_ref \in Nat /\ p_ref \in Nat /\ app_ref \in Nat
    BY Zenon DEF Init
  <2>2. /\ listeners \in Seq(Listener) /\ late \in Seq(Listener)
        /\ added \in Seq(Listener) /\ called \in Seq(Listener)
    BY DEF Init
  <2> QED BY <2>1, <2>2, Zenon DEF Init, TypeOK
<1>2. RefsExact /\ PhaseInv /\ OwnerInv
  BY DEF Init, RefsExact, PhaseInv, OwnerInv, B
<1>3. OrderInv
  BY DEF Init, OrderInv
<1> QED BY <1>1, <1>2, <1>3, Zenon DEF IInv

\* Every step preserves the inductive invariant.
LEMMA NextInv ==
  ASSUME IInv, [Next]_vars
  PROVE  IInv'
<1> USE PromiseAssumption DEF IInv
<1>1. ASSUME deferred_complete_in_idle_cb
      PROVE  IInv'
  <2>1. TypeOK'
    BY <1>1, ZenonT(40) DEF deferred_complete_in_idle_cb, Unwound, TypeOK, memory
  <2>2. RefsExact'
    BY <1>1, Zenon DEF deferred_complete_in_idle_cb, Unwound, RefsExact, B
  <2>3. OrderInv'
    BY <1>1 DEF deferred_complete_in_idle_cb, Unwound, OrderInv
  <2>4. PhaseInv'
    BY <1>1 DEF deferred_complete_in_idle_cb, Unwound, PhaseInv
  <2>5. OwnerInv'
    BY <1>1 DEF deferred_complete_in_idle_cb, OwnerInv, TypeOK
  <2> QED BY <2>1, <2>2, <2>3, <2>4, <2>5, Zenon DEF IInv
<1>2. ASSUME call_listener_in_idle
      PROVE  IInv'
  <2>1. TypeOK'
    BY <1>2 DEF call_listener_in_idle, Unwound, TypeOK, memory
  <2>2. RefsExact'
    <3>1. /\ p_ref' = p_ref
          /\ app_ref' = app_ref
          /\ B(d_ref > 0)' = B(d_ref > 0)
          /\ Len(listeners') = Len(listeners)
          /\ Len(late') = Len(late) - 1
          /\ B(running # Nothing) = 0
          /\ B(running # Nothing)' = 1
      BY <1>2 DEF call_listener_in_idle, Unwound, TypeOK, B, memory
    <3>2. p_ref' = app_ref' + B(d_ref > 0)' + Len(listeners') + Len(late')
                     + B(running # Nothing)'
      <4>1. p_ref = app_ref + B(d_ref > 0) + Len(listeners) + Len(late)
                      + B(running # Nothing)
        BY Zenon DEF RefsExact
      <4> QED BY <3>1, <4>1, CountsNat, SMTT(40)
    <3> QED BY <3>2, Zenon DEF RefsExact
  <2>3. OrderInv'
    <3>1. listeners = <<>>
      BY <1>2, Zenon DEF call_listener_in_idle, Unwound, OrderInv
    <3>2. called' \o late' = called \o late
      BY <1>2, HeadMoves, Zenon DEF call_listener_in_idle, TypeOK, memory
    <3> QED
      BY <1>2, <3>1, <3>2, ConcatEmpty, SMTT(40) DEF call_listener_in_idle, TypeOK,
        OrderInv, memory
  <2>4. PhaseInv'
    BY <1>2, Zenon DEF call_listener_in_idle, Unwound, PhaseInv
  <2>5. OwnerInv'
    BY <1>2, Zenon DEF call_listener_in_idle, Unwound, OwnerInv, memory
  <2> QED BY <2>1, <2>2, <2>3, <2>4, <2>5 DEF IInv
<1>3. ASSUME evd_promise_notify_completion
      PROVE  IInv'
  <2>1. TypeOK'
    BY <1>3 DEF evd_promise_notify_completion, TypeOK, memory
  <2>2. RefsExact'
    <3>1. /\ p_ref' = p_ref
          /\ app_ref' = app_ref
          /\ B(d_ref > 0)' = B(d_ref > 0)
          /\ Len(late') = Len(late)
          /\ Len(listeners') = Len(listeners) - 1
          /\ B(running # Nothing) = 0
          /\ B(running # Nothing)' = 1
      BY <1>3 DEF evd_promise_notify_completion, TypeOK, B, memory
    <3>2. p_ref' = app_ref' + B(d_ref > 0)' + Len(listeners') + Len(late')
                     + B(running # Nothing)'
      <4>1. p_ref = app_ref + B(d_ref > 0) + Len(listeners) + Len(late)
                      + B(running # Nothing)
        BY DEF RefsExact
      <4> QED BY <3>1, <4>1, CountsNat, SMTT(40)
    <3> QED BY <3>2 DEF RefsExact
  <2>3. OrderInv'
    <3>1. called' \o listeners' = called \o listeners
      BY <1>3, HeadMoves, ZenonT(40) DEF evd_promise_notify_completion, TypeOK, memory
    <3>2. /\ called' \in Seq(Listener) /\ listeners' \in Seq(Listener)
          /\ late' = late /\ added' = added
      BY <1>3 DEF evd_promise_notify_completion, TypeOK, memory
    <3>3. added' = called' \o (listeners' \o late')
      <4>1. (called' \o listeners') \o late = called' \o (listeners' \o late)
        <5>1. late \in Seq(Listener)
          BY Zenon DEF TypeOK
        <5> QED BY ONLY <3>2, <5>1, ConcatAssoc, SMTT(40)
      <4>2. (called \o listeners) \o late = called \o (listeners \o late)
        BY ONLY ConcatAssoc, SMTT(40) DEF TypeOK
      <4> QED BY <3>1, <3>2, <4>1, <4>2, ZenonT(40) DEF OrderInv
    <3> QED
      BY <1>3, <3>3, Zenon DEF evd_promise_notify_completion, OrderInv
  <2>4. PhaseInv'
    BY <1>3, Zenon DEF evd_promise_notify_completion, PhaseInv
  <2>5. OwnerInv'
    BY <1>3, Zenon DEF evd_promise_notify_completion, OwnerInv, memory
  <2> QED BY <2>1, <2>2, <2>3, <2>4, <2>5 DEF IInv
<1>4. ASSUME evd_promise_notify_completion_end
      PROVE  IInv'
  <2>1. TypeOK'
    BY <1>4, ZenonT(40) DEF evd_promise_notify_completion_end, TypeOK
  <2>2. RefsExact'
    BY <1>4, Zenon DEF evd_promise_notify_completion_end, RefsExact, B
  <2>3. OrderInv'
    BY <1>4, Zenon DEF evd_promise_notify_completion_end, OrderInv
  <2>4. PhaseInv'
    BY <1>4, Zenon DEF evd_promise_notify_completion_end, PhaseInv
  <2>5. OwnerInv'
    <3>1. d_ref > 0 => p_ref > 0
      BY CountsNat DEF RefsExact
    <3>2. ~early => d_ref > 0
      BY <1>4, Zenon DEF evd_promise_notify_completion_end, OwnerInv
    <3>3. p_ref = 0 => early
      BY <3>1, <3>2, CountsNat
    <3> QED BY <1>4, <3>3, Zenon DEF evd_promise_notify_completion_end, OwnerInv
  <2> QED BY <2>1, <2>2, <2>3, <2>4, <2>5 DEF IInv
<1>5. ASSUME free_promise_closure
      PROVE  IInv'
  <2>1. TypeOK'
    BY <1>5 DEF free_promise_closure, ClosureFreed, TypeOK, RefsExact, B, memory
  <2>2. RefsExact'
    BY <1>5 DEF free_promise_closure, ClosureFreed, RefsExact, TypeOK, B, memory
  <2>3. OrderInv'
    BY <1>5, Zenon DEF free_promise_closure, ClosureFreed, OrderInv
  <2>4. PhaseInv'
    BY <1>5, Zenon DEF free_promise_closure, ClosureFreed, PhaseInv
  <2>5. OwnerInv'
    BY <1>5, Zenon DEF free_promise_closure, ClosureFreed, OwnerInv, memory
  <2> QED BY <2>1, <2>2, <2>3, <2>4, <2>5 DEF IInv
<1>6. ASSUME NEW l \in Listener, evd_promise_then(l)
      PROVE  IInv'
  <2>1. TypeOK'
    <3>1. p_ref' \in Nat
      BY <1>6 DEF evd_promise_then, ClosureRef, TypeOK, memory
    <3>2. /\ listeners' \in Seq(Listener) /\ late' \in Seq(Listener)
          /\ added' \in Seq(Listener)
      <4>1. /\ Append(listeners, l) \in Seq(Listener)
            /\ Append(late, l) \in Seq(Listener)
            /\ Append(added, l) \in Seq(Listener)
        BY DEF TypeOK
      <4> QED
        BY <1>6, <4>1, Zenon DEF evd_promise_then, Completed, Attached, TypeOK, memory
    <3> QED BY <1>6, <3>1, <3>2, Zenon DEF evd_promise_then, TypeOK, memory
  <2>2. RefsExact'
    <3>1. /\ p_ref' = p_ref + 1 /\ app_ref' = app_ref
          /\ B(d_ref > 0)' = B(d_ref > 0)
          /\ B(running # Nothing)' = B(running # Nothing)
      BY <1>6, Zenon DEF evd_promise_then, ClosureRef
    <3>2. /\ Len(Append(listeners, l)) = Len(listeners) + 1
          /\ Len(Append(late, l)) = Len(late) + 1
      BY DEF TypeOK
    <3>3. \/ listeners' = Append(listeners, l) /\ late' = late
          \/ listeners' = listeners /\ late' = Append(late, l)
      BY <1>6, Zenon DEF evd_promise_then, Completed, Attached
    <3>5. \/ Len(listeners') = Len(listeners) + 1 /\ Len(late') = Len(late)
          \/ Len(listeners') = Len(listeners) /\ Len(late') = Len(late) + 1
      BY <3>2, <3>3, Zenon
    <3>4. p_ref' = app_ref' + B(d_ref > 0)' + Len(listeners') + Len(late')
                     + B(running # Nothing)'
      <4>1. p_ref = app_ref + B(d_ref > 0) + Len(listeners) + Len(late)
                      + B(running # Nothing)
        BY Zenon DEF RefsExact
      <4>4. /\ p_ref \in Nat /\ app_ref \in Nat
            /\ Len(listeners) \in Nat /\ Len(late) \in Nat
            /\ B(d_ref > 0) \in Nat /\ B(running # Nothing) \in Nat
        BY CountsNat
      <4>2. CASE Len(listeners') = Len(listeners) + 1 /\ Len(late') = Len(late)
        BY ONLY SMTT(30), <3>1, <4>1, <4>2, <4>4
      <4>3. CASE Len(listeners') = Len(listeners) /\ Len(late') = Len(late) + 1
        BY ONLY SMTT(30), <3>1, <4>1, <4>3, <4>4
      <4> QED BY <3>5, <4>2, <4>3, Zenon
    <3> QED BY <3>4, Zenon DEF RefsExact
  <2>3. OrderInv'
    <3>1. CASE p_completed
      <4>1. listeners \o Append(late, l) = Append(listeners \o late, l)
        BY AppendConcat, SMTT(40) DEF TypeOK
      <4>2. called \o Append(listeners \o late, l)
              = Append(called \o (listeners \o late), l)
        BY AppendConcat, SMTT(40) DEF TypeOK
      <4> QED
        BY <1>6, <3>1, <4>1, <4>2, ZenonT(40) DEF evd_promise_then, Completed, OrderInv
    <3>2. CASE ~p_completed
      <4>1. late = <<>>
        BY <3>2, Zenon DEF OrderInv
      <4>2. called \o Append(listeners, l) = Append(called \o listeners, l)
        BY AppendConcat, SMTT(40) DEF TypeOK
      <4>3. /\ added' = Append(called \o listeners, l)
            /\ listeners' \in Seq(Listener)
        <5>1. added = called \o listeners
          BY <4>1, ConcatEmpty, Zenon DEF TypeOK, OrderInv
        <5>2. added' = Append(added, l) /\ listeners' = Append(listeners, l)
          BY <1>6, <3>2, Zenon DEF evd_promise_then, Completed, Attached
        <5> QED BY <5>1, <5>2 DEF TypeOK
      <4> QED
        BY <1>6, <3>2, <4>1, <4>2, <4>3, ConcatEmpty, ZenonT(40) DEF evd_promise_then,
          Completed, Attached, OrderInv
    <3> QED BY <3>1, <3>2, Zenon
  <2>4. PhaseInv'
    BY <1>6, Zenon DEF evd_promise_then, AppRuns, Reachable, Unwound, Completed,
      Attached, ClosureRef, PhaseInv
  <2>5. OwnerInv'
    BY <1>6, Zenon DEF evd_promise_then, AppRuns, Reachable, Unwound, Completed,
      Attached, ClosureRef, OwnerInv, memory
  <2> QED BY <2>1, <2>2, <2>3, <2>4, <2>5, Zenon DEF IInv
<1>7. ASSUME g_object_ref_promise
      PROVE  IInv'
  <2>1. TypeOK'
    BY <1>7 DEF g_object_ref_promise, TypeOK, memory
  <2>2. RefsExact'
    <3>1. /\ p_ref' = p_ref + 1
          /\ app_ref' = app_ref + 1
          /\ B(d_ref > 0)' = B(d_ref > 0)
          /\ B(running # Nothing)' = B(running # Nothing)
          /\ Len(listeners') = Len(listeners)
          /\ Len(late') = Len(late)
      BY <1>7, Zenon DEF g_object_ref_promise, TypeOK, B, memory
    <3>2. p_ref' = app_ref' + B(d_ref > 0)' + Len(listeners') + Len(late')
                     + B(running # Nothing)'
      <4>1. p_ref = app_ref + B(d_ref > 0) + Len(listeners) + Len(late)
                      + B(running # Nothing)
        BY DEF RefsExact
      <4> QED BY <3>1, <4>1, CountsNat, SMTT(40), ZenonT(40)
    <3> QED BY <3>2 DEF RefsExact
  <2>3. OrderInv'
    BY <1>7, Zenon DEF g_object_ref_promise, OrderInv
  <2>4. PhaseInv'
    BY <1>7, Zenon DEF g_object_ref_promise, PhaseInv
  <2>5. OwnerInv'
    BY <1>7, Zenon DEF g_object_ref_promise, OwnerInv, memory
  <2> QED BY <2>1, <2>2, <2>3, <2>4, <2>5 DEF IInv
<1>8. ASSUME g_object_unref_promise
      PROVE  IInv'
  <2>1. TypeOK'
    <3>1. app_ref' \in Nat
      BY <1>8 DEF g_object_unref_promise, TypeOK, memory
    <3>2. B(d_ref > 0) \in Nat /\ B(running # Nothing) \in Nat
      BY Zenon DEF B
    <3>3. p_ref' \in Nat
      <4>1. /\ p_ref \in Nat /\ app_ref \in Nat
            /\ Len(listeners) \in Nat /\ Len(late) \in Nat
        BY CountsNat, Zenon DEF IInv
      <4>2. p_ref = app_ref + B(d_ref > 0) + Len(listeners) + Len(late)
                      + B(running # Nothing)
        BY DEF IInv, RefsExact
      <4>3. p_ref >= app_ref
        BY <3>2, <4>1, <4>2
      <4>4. app_ref > 0 /\ p_ref' = p_ref - 1
        BY <1>8, Zenon DEF g_object_unref_promise
      <4> QED BY <4>1, <4>3, <4>4
    <3> QED BY <1>8, <3>1, <3>3, Zenon DEF g_object_unref_promise, TypeOK, memory
  <2>2. RefsExact'
    BY <1>8 DEF g_object_unref_promise, RefsExact, TypeOK, B, memory
  <2>3. OrderInv'
    BY <1>8, Zenon DEF g_object_unref_promise, OrderInv
  <2>4. PhaseInv'
    BY <1>8, Zenon DEF g_object_unref_promise, PhaseInv
  <2>5. OwnerInv'
    BY <1>8, Zenon DEF g_object_unref_promise, OwnerInv, memory
  <2> QED BY <2>1, <2>2, <2>3, <2>4, <2>5 DEF IInv
<1>9. ASSUME NEW v \in Value, evd_deferred_set_result(v)
      PROVE  IInv'
  <2>1. TypeOK'
    BY <1>9, Zenon DEF evd_deferred_set_result, TypeOK, memory
  <2>2. RefsExact'
    BY <1>9, Zenon DEF evd_deferred_set_result, RefsExact, B
  <2>3. OrderInv'
    BY <1>9, Zenon DEF evd_deferred_set_result, OrderInv
  <2>4. PhaseInv'
    BY <1>9, Zenon DEF evd_deferred_set_result, PhaseInv
  <2>5. OwnerInv'
    BY <1>9, Zenon DEF evd_deferred_set_result, OwnerInv, memory
  <2> QED BY <2>1, <2>2, <2>3, <2>4, <2>5, Zenon DEF IInv
<1>10. ASSUME evd_deferred_complete
      PROVE  IInv'
  <2>1. TypeOK'
    BY <1>10, Zenon DEF evd_deferred_complete, TypeOK, memory
  <2>2. RefsExact'
    BY <1>10, Zenon DEF evd_deferred_complete, RefsExact, B
  <2>3. OrderInv'
    BY <1>10, Zenon DEF evd_deferred_complete, OrderInv
  <2>4. PhaseInv'
    BY <1>10, Zenon DEF evd_deferred_complete, PhaseInv
  <2>5. OwnerInv'
    BY <1>10, Zenon DEF evd_deferred_complete, OwnerInv, memory
  <2> QED BY <2>1, <2>2, <2>3, <2>4, <2>5 DEF IInv
<1>11. ASSUME evd_deferred_complete_in_idle
      PROVE  IInv'
  <2>1. TypeOK'
    BY <1>11, Zenon DEF evd_deferred_complete_in_idle, TypeOK, memory
  <2>2. RefsExact'
    BY <1>11, Zenon DEF evd_deferred_complete_in_idle, RefsExact, B
  <2>3. OrderInv'
    BY <1>11, Zenon DEF evd_deferred_complete_in_idle, OrderInv
  <2>4. PhaseInv'
    BY <1>11, Zenon DEF evd_deferred_complete_in_idle, PhaseInv
  <2>5. OwnerInv'
    BY <1>11, Zenon DEF evd_deferred_complete_in_idle, OwnerInv, memory
  <2> QED BY <2>1, <2>2, <2>3, <2>4, <2>5 DEF IInv
<1>12. ASSUME evd_deferred_ref
      PROVE  IInv'
  <2>1. TypeOK'
    BY <1>12 DEF evd_deferred_ref, TypeOK, memory
  <2>2. RefsExact'
    <3>1. /\ d_ref > 0
          /\ d_ref' = d_ref + 1
          /\ B(d_ref > 0) = 1
          /\ B(d_ref > 0)' = 1
          /\ p_ref' = p_ref
          /\ app_ref' = app_ref
          /\ B(running # Nothing)' = B(running # Nothing)
          /\ Len(listeners') = Len(listeners)
          /\ Len(late') = Len(late)
      BY <1>12 DEF evd_deferred_ref, TypeOK, B, memory
    <3>2. p_ref' = app_ref' + B(d_ref > 0)' + Len(listeners') + Len(late')
                     + B(running # Nothing)'
      <4>1. p_ref = app_ref + B(d_ref > 0) + Len(listeners) + Len(late)
                      + B(running # Nothing)
        BY DEF RefsExact
      <4> QED BY <3>1, <4>1, CountsNat, Zenon
    <3> QED BY <3>2 DEF RefsExact
  <2>3. OrderInv'
    BY <1>12, Zenon DEF evd_deferred_ref, OrderInv
  <2>4. PhaseInv'
    BY <1>12, Zenon DEF evd_deferred_ref, PhaseInv
  <2>5. OwnerInv'
    BY <1>12 DEF evd_deferred_ref, OwnerInv, TypeOK, memory
  <2> QED BY <2>1, <2>2, <2>3, <2>4, <2>5 DEF IInv
<1>13. ASSUME evd_deferred_unref
      PROVE  IInv'
  <2>1. TypeOK'
    BY <1>13 DEF evd_deferred_unref, TypeOK, RefsExact, B
  <2>2. RefsExact'
    <3>1. /\ d_ref > 0 /\ d_ref' = d_ref - 1
          /\ p_ref' = p_ref - B(d_ref = 1)
          /\ app_ref' = app_ref /\ listeners' = listeners /\ late' = late
          /\ B(running # Nothing)' = B(running # Nothing)
      BY <1>13, Zenon DEF evd_deferred_unref
    <3>2. B(d_ref > 0)' = B(d_ref > 0) - B(d_ref = 1)
      BY <3>1, CountsNat DEF B
    <3>3. B(d_ref = 1) \in {0, 1} /\ B(d_ref > 0) \in {0, 1}
      BY Zenon DEF B
    <3>4. B(running # Nothing) \in {0, 1}
      BY Zenon DEF B
    <3> QED BY <3>1, <3>2, <3>3, <3>4, CountsNat, SMTT(40) DEF RefsExact
  <2>3. OrderInv'
    BY <1>13, Zenon DEF evd_deferred_unref, OrderInv
  <2>4. PhaseInv'
    BY <1>13, Zenon DEF evd_deferred_unref, PhaseInv
  <2>5. OwnerInv'
    BY <1>13 DEF evd_deferred_unref, OwnerInv, TypeOK
  <2> QED BY <2>1, <2>2, <2>3, <2>4, <2>5 DEF IInv
<1>14. ASSUME UNCHANGED vars PROVE IInv'
  BY <1>14, ZenonT(40) DEF vars, memory, IInv, TypeOK, RefsExact, OrderInv, PhaseInv, OwnerInv, B
<1> QED
  BY <1>1, <1>2, <1>3, <1>4, <1>5, <1>6, <1>7, <1>8, <1>9, <1>10, <1>11,
    <1>12, <1>13, <1>14, Zenon DEF Next, MainLoop

\* IInv holds in every reachable state.
THEOREM Invariance == Spec => []IInv
<1>1. IInv /\ [Next]_vars => IInv'
  BY NextInv, Zenon
<1> QED BY InitInv, <1>1, PTL DEF Spec

\* The state of the promise and the deferred stays in its type.
THEOREM TypeCorrect == Spec => []TypeOK
<1>1. IInv => TypeOK
  BY Zenon DEF IInv
<1> QED BY Invariance, <1>1, PTL

\* Listeners are called once each, in the order of the evd_promise_then calls,
\* for any number of listeners attached at any time.
THEOREM OrderKept == Spec => []CallsInOrder
<1>1. IInv => CallsInOrder
  <2> SUFFICES ASSUME IInv PROVE CallsInOrder
    BY Zenon
  <2>1. listeners \o late \in Seq(Listener)
    BY DEF IInv, TypeOK
  <2> QED BY <2>1, ConcatPrefix, Zenon DEF IInv, TypeOK, OrderInv, CallsInOrder
<1> QED BY Invariance, <1>1, PTL

\* The promise has as many references as holders.
THEOREM ReferencesCounted == Spec => []RefsExact
<1>1. IInv => RefsExact
  BY Zenon DEF IInv
<1> QED BY Invariance, <1>1, PTL

\* Listeners of any number keep the promise, and the completion uses a freed
\* object only when the owner gave back its last reference to the deferred
\* before the completion it had asked for was over.
THEOREM ObjectsAlive == Spec => []NoFreedObjectUsed
<1>1. IInv => NoFreedObjectUsed
  <2> SUFFICES ASSUME IInv PROVE NoFreedObjectUsed
    BY Zenon
  <2>1. running # Nothing => p_ref > 0
    BY CountsNat DEF IInv, RefsExact
  <2>2. /\ listeners # <<>> => Len(listeners) > 0
        /\ late # <<>> => Len(late) > 0
    BY DEF IInv, TypeOK
  <2>3. Len(listeners) > 0 \/ Len(late) > 0 => p_ref > 0
    BY CountsNat DEF IInv, RefsExact
  <2> QED BY <2>1, <2>2, <2>3, Zenon DEF IInv, OwnerInv, NoFreedObjectUsed
<1> QED BY Invariance, <1>1, PTL

\* The references to the promise are exact, and neither object is used after it
\* is freed unless the owner of the deferred lets go of it early.
THEOREM ReferencesAlwaysKept == Spec => []ReferencesKept
<1>1. RefsExact /\ NoFreedObjectUsed => ReferencesKept
  BY Zenon DEF ReferencesKept
<1> QED BY <1>1, ReferencesCounted, ObjectsAlive, PTL
=============================================================================
