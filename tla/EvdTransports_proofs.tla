------------------------ MODULE EvdTransports_proofs ------------------------
(***************************************************************************)
(* Proofs about the long polling transport and the life of the peers it    *)
(* serves, EvdLongpollingServer and EvdPeerManager.                        *)
(*                                                                         *)
(* EvdLongpollingServer, for any connections, any number of messages and   *)
(* any faults: the messages of a peer reach its client in order and none   *)
(* is lost that the code could have kept.  The argument is about the log:  *)
(* the frames written and then those in the backlog.  Whatever an action   *)
(* writes, puts back or pushes, the log stays as it is or the message      *)
(* being sent is appended to it.                                           *)
(*                                                                         *)
(* EvdPeerManager, for every set of peers: a function of the code changes  *)
(* what belongs to one peer, its view.  The lemmas give the view that each *)
(* function leaves, and the invariant PeersInv is one of views.            *)
(***************************************************************************)
EXTENDS EvdLongpollingServer, EvdPeerManager, TLAPS

\* The messages of a sequence.
Elements(s) == {s[i] : i \in DOMAIN s}

\* Only a client that leaves takes a connection away.
GoneLeft == \A c \in Conn : conn[c] = "gone" => ClientMayLeave

\* The connection whose content the application is looking at is not one a
\* message could be sent to.
ReceivingPosts == receiving # None => conn[receiving] = "posting"

\* Every message is in the log, unless the client may leave.
Logged == ~ClientMayLeave => Elements(Log) = 1..sent

IInv ==
  /\ TypeOK /\ GoneLeft /\ ReceivingPosts
  /\ InOrder /\ Logged /\ NotBothWaiting

-----------------------------------------------------------------------------
\* Sequences.

\* A sequence over a set is one over any larger set.
LEMMA SeqLarger ==
  ASSUME NEW S, NEW T, S \subseteq T, NEW s \in Seq(S)
  PROVE  s \in Seq(T)
  OBVIOUS

\* The elements of a concatenation are those of its parts.
LEMMA ConcatRange ==
  ASSUME NEW S, NEW a \in Seq(S), NEW b \in Seq(S)
  PROVE  Elements(a \o b) = Elements(a) \cup Elements(b)
<1>1. ASSUME NEW i \in DOMAIN a PROVE \E j \in DOMAIN (a \o b) : a[i] = (a \o b)[j]
  OBVIOUS
<1>2. ASSUME NEW i \in DOMAIN b PROVE \E j \in DOMAIN (a \o b) : b[i] = (a \o b)[j]
  <2>1. Len(a) + i \in DOMAIN (a \o b) /\ (a \o b)[Len(a) + i] = b[i]
    OBVIOUS
  <2> QED BY <2>1, Zenon
<1>3. ASSUME NEW j \in DOMAIN (a \o b)
      PROVE  (\E i \in DOMAIN a : a[i] = (a \o b)[j]) \/ (\E i \in DOMAIN b : b[i] = (a \o b)[j])
  <2>1. CASE j <= Len(a)
    BY <2>1
  <2>2. CASE j > Len(a)
    <3>1. j - Len(a) \in DOMAIN b /\ (a \o b)[j] = b[j - Len(a)]
      BY <2>2
    <3> QED BY <3>1, Zenon
  <2> QED BY <2>1, <2>2
<1> DEFINE c == a \o b
           C == Elements(c)
<1> USE DEF Elements
<1>4. \A x : x \in C => x \in Elements(a) \/ x \in Elements(b)
  BY <1>3, Zenon
<1>5. \A i \in DOMAIN a : a[i] \in C
  BY <1>1, Zenon
<1>6. \A i \in DOMAIN b : b[i] \in C
  BY <1>2, Zenon
<1> QED BY <1>4, <1>5, <1>6, ZenonT(40)

\* Appending adds one element.
LEMMA AppendRange ==
  ASSUME NEW S, NEW s \in Seq(S), NEW x \in S
  PROVE  Elements(Append(s, x)) = Elements(s) \cup {x}
<1>1. \A i \in DOMAIN s : i \in DOMAIN Append(s, x) /\ Append(s, x)[i] = s[i]
  OBVIOUS
<1>2. Len(s) + 1 \in DOMAIN Append(s, x) /\ Append(s, x)[Len(s) + 1] = x
  OBVIOUS
<1>3. \A i \in DOMAIN Append(s, x) : i \in DOMAIN s \/ i = Len(s) + 1
  OBVIOUS
<1> QED BY <1>1, <1>2, <1>3, Zenon DEF Elements

\* An increasing sequence stays one when something larger is appended.
LEMMA AppendIncreasing ==
  ASSUME NEW n \in Nat, NEW s \in Seq(1..n),
         \A i, j \in DOMAIN s : i < j => s[i] < s[j]
  PROVE  \A i, j \in DOMAIN Append(s, n + 1) :
           i < j => Append(s, n + 1)[i] < Append(s, n + 1)[j]
<1> DEFINE t == Append(s, n + 1)
<1> TAKE i, j \in DOMAIN t
<1> HAVE i < j
<1>1. i \in DOMAIN s /\ t[i] = s[i] /\ s[i] \in 1..n
  BY SMTT(40)
<1>2. CASE j \in DOMAIN s
  BY <1>1, <1>2
<1>3. CASE j = Len(s) + 1
  BY <1>1, <1>3
<1> QED BY <1>2, <1>3

\* Concatenation is associative, and the empty sequence is neutral.
LEMMA ConcatAssoc ==
  ASSUME NEW S, NEW a \in Seq(S), NEW b \in Seq(S), NEW c \in Seq(S)
  PROVE  (a \o b) \o c = a \o (b \o c)
  BY SMTT(40)

\* An empty part does not change a concatenation.
LEMMA ConcatEmpty ==
  ASSUME NEW S, NEW a \in Seq(S)
  PROVE  a \o <<>> = a /\ <<>> \o a = a
  OBVIOUS

\* Appending to the second part appends to the concatenation.
LEMMA ConcatAppend ==
  ASSUME NEW S, NEW a \in Seq(S), NEW b \in Seq(S), NEW x \in S
  PROVE  a \o Append(b, x) = Append(a \o b, x) /\ b \o <<x>> = Append(b, x)
  OBVIOUS

\* A sequence cut in two is the concatenation of the parts.
LEMMA CutInTwo ==
  ASSUME NEW S, NEW s \in Seq(S), NEW k \in 0..(Len(s) - 1)
  PROVE  /\ SubSeq(s, 1, k) \in Seq(S) /\ SubSeq(s, k + 2, Len(s)) \in Seq(S)
         /\ <<s[k + 1]>> \o SubSeq(s, k + 2, Len(s)) \in Seq(S)
         /\ SubSeq(s, 1, k) \o (<<s[k + 1]>> \o SubSeq(s, k + 2, Len(s))) = s
<1>1. SubSeq(s, 1, k) \in Seq(S) /\ Len(SubSeq(s, 1, k)) = k
  OBVIOUS
<1>2. SubSeq(s, k + 2, Len(s)) \in Seq(S) /\ Len(SubSeq(s, k + 2, Len(s))) = Len(s) - k - 1
  OBVIOUS
<1>3. <<s[k + 1]>> \in Seq(S) /\ Len(<<s[k + 1]>>) = 1
  OBVIOUS
<1> DEFINE b == <<s[k + 1]>> \o SubSeq(s, k + 2, Len(s))
<1>4. b \in Seq(S) /\ Len(b) = Len(s) - k /\ \A i \in 1..Len(b) : b[i] = s[k + i]
  BY <1>2, <1>3
<1> HIDE DEF b
<1>5. \A i \in 1..k : SubSeq(s, 1, k)[i] = s[i]
  OBVIOUS
<1>6. SubSeq(s, 1, k) \o b = s
  BY <1>1, <1>4, <1>5, SMTT(80)
<1> QED BY <1>1, <1>2, <1>4, <1>6, ZenonT(40) DEF b

\* So it is when something comes before.
LEMMA CutAfter ==
  ASSUME NEW S, NEW d \in Seq(S), NEW s \in Seq(S), NEW k \in 0..(Len(s) - 1)
  PROVE  (d \o SubSeq(s, 1, k)) \o (<<s[k + 1]>> \o SubSeq(s, k + 2, Len(s))) = d \o s
<1> DEFINE a == SubSeq(s, 1, k)
           b == <<s[k + 1]>> \o SubSeq(s, k + 2, Len(s))
<1>1. a \in Seq(S) /\ b \in Seq(S)
  BY CutInTwo, Zenon
<1>2. a \o b = s
  BY CutInTwo, ZenonT(40)
<1> HIDE DEF a, b
<1>3. (d \o a) \o b = d \o (a \o b)
  BY <1>1, ConcatAssoc, SMTT(80)
<1> QED BY <1>2, <1>3, ZenonT(40) DEF a, b

-----------------------------------------------------------------------------
\* What evd_longpolling_server_actual_send can do.

\* The headers fail and nothing is written; everything is written; or the
\* write of a frame fails and the log is what it was.
SendsOrKeeps(o, c, msg, S) ==
  /\ o.conn \in {"gone", "flushing"} /\ o.result \in BOOLEAN
  /\ o.conn = "gone" => conn[c] = "gone" \/ ClientMayLeave
  /\ o.delivered \in Seq(S) /\ o.backlog \in Seq(S)
  /\ \/ /\ o.result /\ o.conn = "gone"
        /\ o.delivered = delivered /\ o.backlog = backlog
     \/ /\ o.result
        /\ o.delivered = delivered \o (backlog \o msg) /\ o.backlog = <<>>
     \/ /\ ~o.result /\ WriteMayFail
        /\ o.delivered \o o.backlog = Log

\* Every outcome of a delivery sends a part in order or keeps all of it.
LEMMA OutcomeCases ==
  ASSUME NEW S, delivered \in Seq(S), backlog \in Seq(S),
         NEW msg \in Seq(S), Len(msg) <= 1, NEW c, NEW o \in Outcome(c, msg)
  PROVE  SendsOrKeeps(o, c, msg, S)
<1> USE DEF SendsOrKeeps
<1> DEFINE all == backlog \o msg
           Wrote(k) == delivered \o SubSeq(all, 1, k)
           AllWritten == [delivered |-> Wrote(Len(all)), backlog |-> <<>>,
                          result |-> TRUE, conn |-> "flushing"]
           Rest(k) == IF k < Len(backlog)
                      THEN evd_peer_unshift_message(
                             SubSeq(backlog, k + 2, Len(backlog)), backlog[k + 1])
                      ELSE <<>>
           FrameFails(k) == [delivered |-> Wrote(k), backlog |-> Rest(k),
                             result |-> FALSE, conn |-> "flushing"]
<1>1. \/ o = HeadersFail /\ (conn[c] = "gone" \/ ClientMayLeave)
      \/ o = AllWritten
      \/ WriteMayFail /\ \E k \in 0..(Len(all) - 1) : o = FrameFails(k)
  BY ZenonT(40) DEF Outcome
<1>2. CASE o = HeadersFail /\ (conn[c] = "gone" \/ ClientMayLeave)
  BY <1>2, Zenon DEF HeadersFail
<1>3. CASE o = AllWritten
  <2>1. all \in Seq(S) /\ SubSeq(all, 1, Len(all)) = all
    OBVIOUS
  <2> QED BY <1>3, <2>1, SMTT(40)
<1>4. CASE WriteMayFail /\ \E k \in 0..(Len(all) - 1) : o = FrameFails(k)
  <2> PICK k \in 0..(Len(all) - 1) : o = FrameFails(k)
    BY <1>4, ZenonT(40)
  <2>1. CASE k < Len(backlog)
    <3>1. SubSeq(all, 1, k) = SubSeq(backlog, 1, k)
      BY <2>1
    <3>2. k \in 0..(Len(backlog) - 1)
      BY <2>1
    <3>3. /\ SubSeq(backlog, 1, k) \in Seq(S) /\ Rest(k) \in Seq(S)
          /\ SubSeq(backlog, 1, k) \o Rest(k) = backlog
      BY <2>1, <3>2, CutInTwo, ZenonT(40) DEF evd_peer_unshift_message
    <3>4. Wrote(k) \o Rest(k) = Log
      <4>1. (delivered \o SubSeq(backlog, 1, k)) \o Rest(k) = delivered \o backlog
        BY <2>1, <3>2, CutAfter, ZenonT(40) DEF evd_peer_unshift_message
      <4> QED BY <3>1, <4>1, ZenonT(40) DEF Log
    <3>5. Wrote(k) \in Seq(S)
      BY <3>1, <3>3
    <3> HIDE DEF Wrote, Rest
    <3> QED BY <1>4, <3>3, <3>4, <3>5, Zenon
  <2>2. CASE ~(k < Len(backlog))
    <3>1. k = Len(backlog) /\ SubSeq(all, 1, k) = backlog
      BY <2>2
    <3>2. Wrote(k) \in Seq(S) /\ Rest(k) = <<>> /\ Wrote(k) \o Rest(k) = Log
      BY <2>2, <3>1, ConcatEmpty, SMTT(40) DEF Log
    <3> HIDE DEF Wrote, Rest
    <3> QED BY <1>4, <3>2
  <2> QED BY <2>1, <2>2, ZenonT(40)
<1> QED BY <1>1, <1>2, <1>3, <1>4, ZenonT(40)

-----------------------------------------------------------------------------
\* The log keeps its order and its messages when it stays as it is or the
\* message being sent is appended, and its order when that message is dropped.
LEMMA LogStep ==
  ASSUME IInv, faults' = faults, LogGrows
  PROVE  InOrder' /\ Logged'
<1>1. sent \in Nat /\ Log \in Seq(1..sent)
  BY DEF IInv, TypeOK, Log
<1>2. \A i, j \in DOMAIN Log : i < j => Log[i] < Log[j]
  BY Zenon DEF IInv, InOrder, Log
<1>3. InOrder' <=> \A i, j \in DOMAIN Log' : i < j => Log'[i] < Log'[j]
  BY Zenon DEF InOrder, Log
<1>4. ClientMayLeave' = ClientMayLeave
  BY Zenon DEF ClientMayLeave
<1>5. CASE sent' = sent /\ Log' = Log
  BY <1>2, <1>3, <1>4, <1>5, Zenon DEF IInv, Logged
<1>6. CASE sent' = sent + 1 /\ Log' = Append(Log, sent + 1)
  <2>1. InOrder'
    <3> HIDE DEF Log
    <3> QED BY <1>1, <1>2, <1>3, <1>6, AppendIncreasing, Zenon
  <2>2. Logged'
    <3>1. Log \in Seq(1..(sent + 1)) /\ sent + 1 \in 1..(sent + 1)
      BY <1>1, SeqLarger
    <3>2. Elements(Log') = Elements(Log) \cup {sent + 1}
      BY <1>6, <3>1, AppendRange
    <3>3. (1..sent) \cup {sent + 1} = 1..(sent + 1)
      BY <1>1
    <3> QED BY <1>4, <1>6, <3>2, <3>3, ZenonT(40) DEF IInv, Logged
  <2> QED BY <2>1, <2>2, Zenon
<1>7. CASE sent' = sent + 1 /\ Log' = Log /\ ClientMayLeave
  BY <1>2, <1>3, <1>4, <1>7, Zenon DEF Logged
<1> QED BY <1>5, <1>6, <1>7, Zenon DEF LogGrows

\* The response to a request leaves the log as it is; if nothing fails it
\* empties the backlog.
LEMMA BacklogSent ==
  ASSUME IInv, NEW c \in Conn, SendBacklog(c)
  PROVE  /\ backlog' \in Seq(1..sent) /\ delivered' \in Seq(1..sent)
         /\ Log' = Log
         /\ \E x \in {"gone", "flushing"} :
              /\ conn' = [conn EXCEPT ![c] = x]
              /\ x = "gone" => ClientMayLeave
         /\ faults = {} => backlog' = <<>>
<1>1. delivered \in Seq(1..sent) /\ backlog \in Seq(1..sent) /\ conn \in [Conn -> ConnState]
  BY Zenon DEF IInv, TypeOK
<1>2. <<>> \in Seq(1..sent) /\ Len(<<>>) <= 1
  OBVIOUS
<1>3. PICK o \in Outcome(c, <<>>) :
        delivered' = o.delivered /\ backlog' = o.backlog /\ conn' = [conn EXCEPT ![c] = o.conn]
  BY ZenonT(40) DEF SendBacklog
<1>4. SendsOrKeeps(o, c, <<>>, 1..sent)
  BY <1>1, <1>2, OutcomeCases, ZenonT(40)
<1>5. o.conn = "gone" => ClientMayLeave
  BY <1>4, Zenon DEF IInv, GoneLeft, SendsOrKeeps
<1>6. Log' = Log
  <2>1. Log' = o.delivered \o o.backlog
    BY <1>3, Zenon DEF Log
  <2>2. backlog \o <<>> = backlog /\ (delivered \o backlog) \o <<>> = delivered \o backlog
    BY <1>1, ConcatEmpty
  <2> QED BY <1>4, <2>1, <2>2, ZenonT(40) DEF Log, SendsOrKeeps
<1>7. faults = {} => backlog' = <<>>
  BY <1>3, <1>4, <1>5, Zenon DEF ClientMayLeave, WriteMayFail, SendsOrKeeps
<1> QED BY <1>3, <1>4, <1>5, <1>6, <1>7, ZenonT(40) DEF SendsOrKeeps

-----------------------------------------------------------------------------
\* Every action keeps the invariant.

\* A message is appended to the log, or dropped when the client may leave.
LEMMA SendKeeps ==
  ASSUME IInv, evd_transport_send
  PROVE  IInv' /\ LogGrows
<1> DEFINE T == 1..(sent + 1)
<1>1. /\ sent \in Nat /\ sent < MaxMsg /\ sent' = sent + 1
      /\ UNCHANGED <<faults, closed, receiving>>
  BY DEF IInv, TypeOK, evd_transport_send
<1>2. /\ delivered \in Seq(T) /\ backlog \in Seq(T)
      /\ <<sent + 1>> \in Seq(T) /\ Len(<<sent + 1>>) <= 1 /\ sent + 1 \in T
  BY <1>1, SeqLarger DEF IInv, TypeOK
<1>3. CASE conns = <<>>
  <2>1. /\ backlog' = Append(backlog, sent + 1)
        /\ UNCHANGED <<conns, conn, delivered>>
    BY <1>1, <1>3, Zenon DEF evd_transport_send, evd_peer_push_message
  <2>2. backlog' \in Seq(T) /\ delivered' \in Seq(T)
    BY <1>2, <2>1
  <2>3. Log' = Append(Log, sent + 1)
    BY <1>2, <2>1, ConcatAppend, SMTT(40) DEF Log
  <2>4. LogGrows /\ InOrder' /\ Logged'
    BY <1>1, <2>3, LogStep, Zenon DEF LogGrows
  <2>5. TypeOK'
    BY <1>1, <2>1, <2>2, LongpollingAssumption DEF IInv, TypeOK
  <2>6. GoneLeft' /\ ReceivingPosts' /\ NotBothWaiting'
    BY <1>1, <1>3, <2>1, Zenon DEF IInv, GoneLeft, ReceivingPosts, NotBothWaiting, ClientMayLeave
  <2> QED BY <2>4, <2>5, <2>6, Zenon DEF IInv
<1>4. CASE conns # <<>>
  <2> DEFINE c == Head(conns)
  <2>1. PICK o \in Outcome(c, <<sent + 1>>) :
          /\ conns' = Tail(conns)
          /\ delivered' = o.delivered
          /\ backlog' = IF o.result THEN o.backlog ELSE Append(o.backlog, sent + 1)
          /\ conn' = [conn EXCEPT ![c] = o.conn]
    BY <1>1, <1>4, Zenon DEF evd_transport_send, evd_peer_push_message, PopConn
  <2>2. SendsOrKeeps(o, c, <<sent + 1>>, T)
    BY <1>2, OutcomeCases, ZenonT(40)
  <2>3. conns \in Seq(Conn) /\ c \in Conn /\ conn \in [Conn -> ConnState]
    BY <1>4 DEF IInv, TypeOK
  <2>4. o.conn = "gone" => ClientMayLeave
    BY <2>2, <2>3, Zenon DEF SendsOrKeeps, IInv, GoneLeft
  <2>5. backlog' \in Seq(T) /\ delivered' \in Seq(T)
    <3>1. o.delivered \in Seq(T) /\ o.backlog \in Seq(T)
      BY <2>2, Zenon DEF SendsOrKeeps
    <3>2. Append(o.backlog, sent + 1) \in Seq(T)
      BY <1>2, <3>1
    <3> QED BY <2>1, <3>1, <3>2, ZenonT(40)
  <2>6. Log' = Append(Log, sent + 1) \/ (Log' = Log /\ ClientMayLeave)
    <3>1. CASE o.result /\ o.delivered = delivered /\ o.backlog = backlog /\ o.conn = "gone"
      BY <2>1, <2>4, <3>1, Zenon DEF Log
    <3>2. CASE /\ o.result /\ o.backlog = <<>>
               /\ o.delivered = delivered \o (backlog \o <<sent + 1>>)
      <4>1. o.delivered = Append(Log, sent + 1) /\ Log \in Seq(T)
        BY <1>2, <3>2, ConcatAppend, SMTT(40) DEF Log
      <4>2. Append(Log, sent + 1) \o <<>> = Append(Log, sent + 1)
        BY <1>2, <4>1, ConcatEmpty
      <4> QED BY <2>1, <3>2, <4>1, <4>2, Zenon DEF Log
    <3>3. CASE ~o.result /\ o.delivered \o o.backlog = Log
      <4>1. o.delivered \o Append(o.backlog, sent + 1) = Append(o.delivered \o o.backlog, sent + 1)
        <5>1. o.delivered \in Seq(T) /\ o.backlog \in Seq(T)
          BY <2>2 DEF SendsOrKeeps
        <5>2. PICK d \in Seq(T), b \in Seq(T) : d = o.delivered /\ b = o.backlog
          BY <5>1, Zenon
        <5>3. sent + 1 \in T
          BY <1>2, Zenon
        <5> HIDE DEF T
        <5>4. d \o Append(b, sent + 1) = Append(d \o b, sent + 1)
          BY <5>3, ConcatAppend, SMTT(40)
        <5> QED BY <5>2, <5>4, ZenonT(40)
      <4> QED BY <2>1, <3>3, <4>1, ZenonT(40) DEF Log
    <3> QED BY <2>2, <3>1, <3>2, <3>3, ZenonT(40) DEF SendsOrKeeps
  <2>7. LogGrows /\ InOrder' /\ Logged'
    BY <1>1, <2>6, LogStep, Zenon DEF LogGrows
  <2>8. TypeOK'
    <3>1. /\ faults' \in Environments /\ closed' \in BOOLEAN
          /\ receiving' \in Conn \cup {None} /\ sent' \in 0..MaxMsg
      BY <1>1, LongpollingAssumption DEF IInv, TypeOK
    <3>2. conn' \in [Conn -> ConnState]
      BY <2>1, <2>2, <2>3, Zenon DEF SendsOrKeeps, ConnState
    <3>3. /\ conns' \in Seq(Conn)
          /\ \A i \in DOMAIN conns' : i + 1 \in DOMAIN conns /\ conns'[i] = conns[i + 1]
      BY <1>4, <2>1, <2>3
    <3>4. \A i, j \in DOMAIN conns' : conns'[i] = conns'[j] => i = j
      <4> TAKE i, j \in DOMAIN conns'
      <4>1. i \in Nat /\ j \in Nat
        BY <3>3
      <4> QED BY <3>3, <4>1, SMTT(40) DEF IInv, TypeOK
    <3>5. \A i \in DOMAIN conns' : conn'[conns'[i]] \in {"waiting", "gone"}
      <4> TAKE i \in DOMAIN conns'
      <4>1. i \in Nat /\ i > 0 /\ i + 1 \in DOMAIN conns /\ 1 \in DOMAIN conns /\ c = conns[1]
        BY <1>4, <2>3, <3>3
      <4>2. conns[i + 1] # c /\ conns[i + 1] \in Conn
        BY <2>3, <4>1, SMTT(40) DEF IInv, TypeOK
      <4> QED BY <2>1, <2>3, <3>3, <4>1, <4>2, Zenon DEF IInv, TypeOK
    <3> QED BY <1>1, <2>5, <3>1, <3>2, <3>3, <3>4, <3>5, Zenon DEF TypeOK
  <2>9. GoneLeft'
    BY <1>1, <2>1, <2>2, <2>3, <2>4, Zenon DEF IInv, GoneLeft, ClientMayLeave, SendsOrKeeps
  <2>10. ReceivingPosts'
    <3>1. conn[c] # "posting"
      BY <1>4, <2>3 DEF IInv, TypeOK
    <3> QED BY <1>1, <2>1, <2>3, <3>1, Zenon DEF IInv, TypeOK, ReceivingPosts
  <2>11. NotBothWaiting'
    <3>1. faults = {} => backlog = <<>> /\ ~ClientMayLeave /\ ~WriteMayFail
      BY <1>4, Zenon DEF IInv, NotBothWaiting, ClientMayLeave, WriteMayFail
    <3> QED BY <1>1, <2>1, <2>2, <2>4, <3>1, ZenonT(40) DEF NotBothWaiting, SendsOrKeeps
  <2> QED BY <2>7, <2>8, <2>9, <2>10, <2>11, Zenon DEF IInv
<1> QED BY <1>3, <1>4, Zenon

\* Answering a request whose connection holds no "receive".
LEMMA AnswerKeeps ==
  ASSUME IInv, NEW c \in Conn, SendBacklog(c), conn[c] \in {"idle", "posting"},
         receiving' = None, UNCHANGED <<faults, closed, conns, sent>>
  PROVE  IInv' /\ LogGrows
<1>1. /\ backlog' \in Seq(1..sent) /\ delivered' \in Seq(1..sent)
      /\ Log' = Log
      /\ faults = {} => backlog' = <<>>
  BY BacklogSent, Zenon
<1>2. PICK x \in {"gone", "flushing"} :
        conn' = [conn EXCEPT ![c] = x] /\ (x = "gone" => ClientMayLeave)
  BY BacklogSent, Zenon
<1>3. LogGrows /\ InOrder' /\ Logged'
  BY <1>1, LogStep, Zenon DEF LogGrows
<1>4. TypeOK'
  <2>1. \A i \in DOMAIN conns : conns[i] \in Conn /\ conns[i] # c
    BY DEF IInv, TypeOK
  <2> QED BY <1>1, <1>2, <2>1, Zenon DEF IInv, TypeOK, ConnState
<1>5. GoneLeft' /\ ReceivingPosts'
  BY <1>2, Zenon DEF IInv, TypeOK, GoneLeft, ReceivingPosts, ClientMayLeave
<1>6. NotBothWaiting'
  BY <1>1, Zenon DEF NotBothWaiting
<1> QED BY <1>3, <1>4, <1>5, <1>6, Zenon DEF IInv

\* A receive request is answered from the backlog or waits.
LEMMA ReceiveKeeps ==
  ASSUME IInv, NEW c \in Conn, request_receive(c)
  PROVE  IInv' /\ LogGrows
<1>1. conn[c] = "idle" /\ receiving = None /\ UNCHANGED <<faults, closed, receiving, sent>>
  BY Zenon DEF request_receive
<1>2. CASE backlog # <<>> /\ SendBacklog(c) /\ UNCHANGED conns
  BY <1>1, <1>2, AnswerKeeps, Zenon
<1>3. CASE /\ backlog = <<>> /\ conns' = Append(conns, c)
           /\ conn' = [conn EXCEPT ![c] = "waiting"] /\ UNCHANGED <<backlog, delivered>>
  <2>1. Log' = Log
    BY <1>3, Zenon DEF Log
  <2>2. LogGrows /\ InOrder' /\ Logged'
    BY <1>1, <2>1, LogStep, Zenon DEF LogGrows
  <2>3. \A i \in DOMAIN conns : conns[i] \in Conn /\ conns[i] # c
    <3>1. \A i \in DOMAIN conns : conn[conns[i]] \in {"waiting", "gone"}
      BY Zenon DEF IInv, TypeOK
    <3>2. \A i \in DOMAIN conns : conns[i] \in Conn
      BY DEF IInv, TypeOK
    <3> QED BY <1>1, <3>1, <3>2, Zenon
  <2>4. TypeOK'
    <3>1. conns \in Seq(Conn) /\ conns' \in Seq(Conn)
      BY <1>3 DEF IInv, TypeOK
    <3>2. \A i \in DOMAIN conns' :
            (i \in DOMAIN conns /\ conns'[i] = conns[i]) \/ (i = Len(conns) + 1 /\ conns'[i] = c)
      BY <1>3, <3>1
    <3>3. \A i, j \in DOMAIN conns' : conns'[i] = conns'[j] => i = j
      BY <2>3, <3>2, ZenonT(40) DEF IInv, TypeOK
    <3>4. conn' \in [Conn -> ConnState]
      BY <1>3, Zenon DEF IInv, TypeOK, ConnState
    <3>5. \A i \in DOMAIN conns' : conn'[conns'[i]] \in {"waiting", "gone"}
      BY <1>3, <2>3, <3>2, Zenon DEF IInv, TypeOK
    <3> QED BY <1>1, <1>3, <3>1, <3>3, <3>4, <3>5, Zenon DEF IInv, TypeOK
  <2>5. GoneLeft' /\ ReceivingPosts' /\ NotBothWaiting'
    BY <1>1, <1>3, Zenon DEF IInv, TypeOK, GoneLeft, ReceivingPosts, NotBothWaiting, ClientMayLeave
  <2> QED BY <2>2, <2>4, <2>5, Zenon DEF IInv
<1> QED BY <1>2, <1>3, Zenon DEF request_receive, Receive

\* A close request releases every connection and loses no message.
LEMMA CloseKeeps ==
  ASSUME IInv, NEW c \in Conn, request_close(c)
  PROVE  IInv' /\ LogGrows
<1>1. /\ conns' = <<>> /\ closed' = TRUE /\ receiving = None
      /\ conn' = [d \in Conn |-> IF conn[d] # "gone" /\ (d = c \/ Held(d))
                                 THEN "flushing" ELSE conn[d]]
      /\ UNCHANGED <<faults, backlog, receiving, sent, delivered>>
  BY Zenon DEF request_close
<1>2. Log' = Log
  BY <1>1, Zenon DEF Log
<1>3. LogGrows /\ InOrder' /\ Logged'
  BY <1>1, <1>2, LogStep, Zenon DEF LogGrows
<1>4. TypeOK'
  BY <1>1 DEF IInv, TypeOK, ConnState
<1>5. GoneLeft' /\ ReceivingPosts' /\ NotBothWaiting'
  BY <1>1, Zenon DEF IInv, TypeOK, GoneLeft, ReceivingPosts, NotBothWaiting, ClientMayLeave
<1> QED BY <1>3, <1>4, <1>5 DEF IInv

\* The other actions change what one connection does, while no content is
\* with the application, and leave the messages alone.
LEMMA ConnectionKeeps ==
  ASSUME IInv, NEW c \in Conn, NEW x \in ConnState, receiving = None,
         conn' = [conn EXCEPT ![c] = x], x = "gone" => ClientMayLeave,
         x \in {"waiting", "gone"} \/ ~Held(c),
         UNCHANGED <<faults, closed, conns, backlog, receiving, sent, delivered>>
  PROVE  IInv' /\ LogGrows
<1>1. Log' = Log
  BY Zenon DEF Log
<1>2. LogGrows /\ InOrder' /\ Logged'
  BY <1>1, LogStep, Zenon DEF LogGrows
<1>3. TypeOK'
  BY DEF IInv, TypeOK, Held
<1>4. GoneLeft' /\ ReceivingPosts' /\ NotBothWaiting'
  BY Zenon DEF IInv, TypeOK, GoneLeft, ReceivingPosts, NotBothWaiting, ClientMayLeave
<1> QED BY <1>2, <1>3, <1>4, Zenon DEF IInv

\* A new peer is in order.
LEMMA InitInv == Init => IInv
<1> SUFFICES ASSUME Init PROVE IInv
  BY Zenon
<1>1. TypeOK
  <2>1. conns = <<>> /\ DOMAIN conns = {}
    BY DEF Init
  <2>2. conn \in [Conn -> ConnState]
    BY Zenon DEF Init, ConnState
  <2>3. sent \in 0..MaxMsg
    BY LongpollingAssumption DEF Init
  <2>4. conns \in Seq(Conn) /\ backlog \in Seq(1..sent) /\ delivered \in Seq(1..sent)
    BY DEF Init
  <2>5. faults \in Environments /\ closed \in BOOLEAN /\ receiving \in Conn \cup {None}
    BY ZenonT(40) DEF Init
  <2> QED BY <2>1, <2>2, <2>3, <2>4, <2>5, Zenon DEF TypeOK
<1>2. Log = <<>>
  BY DEF Init, Log
<1>3. InOrder /\ Logged
  BY <1>2 DEF Init, InOrder, Logged, Log, Elements
<1>4. GoneLeft /\ ReceivingPosts /\ NotBothWaiting
  BY Zenon DEF Init, GoneLeft, ReceivingPosts, NotBothWaiting
<1> QED BY <1>1, <1>3, <1>4, Zenon DEF IInv

\* Every request, send and connection event keeps the invariant and the log.
LEMMA NextInv == IInv /\ [Next]_vars => IInv' /\ LogGrows
<1> SUFFICES ASSUME IInv, [Next]_vars PROVE IInv' /\ LogGrows
  BY Zenon
<1>1. CASE evd_transport_send
  BY <1>1, SendKeeps, Zenon
<1>2. CASE evd_peer_close
  <2>1. Log' = Log
    BY <1>2, Zenon DEF evd_peer_close, Log
  <2>2. LogGrows /\ InOrder' /\ Logged'
    BY <1>2, <2>1, LogStep, Zenon DEF evd_peer_close, LogGrows
  <2>3. TypeOK' /\ GoneLeft' /\ ReceivingPosts' /\ NotBothWaiting'
    BY <1>2, Zenon DEF evd_peer_close, IInv, TypeOK, GoneLeft, ReceivingPosts, NotBothWaiting, ClientMayLeave
  <2> QED BY <2>2, <2>3, Zenon DEF IInv
<1>3. CASE conn_on_content_read_end
  <2>1. receiving \in Conn /\ conn[receiving] = "posting"
    BY <1>3, Zenon DEF conn_on_content_read_end, IInv, TypeOK, ReceivingPosts
  <2> QED BY <1>3, <2>1, AnswerKeeps, Zenon DEF conn_on_content_read_end
<1>4. ASSUME NEW c \in Conn, request_receive(c) PROVE IInv' /\ LogGrows
  BY <1>4, ReceiveKeeps, Zenon
<1>5. ASSUME NEW c \in Conn, request_send(c) PROVE IInv' /\ LogGrows
  <2>1. ~Held(c)
    BY <1>5, Zenon DEF request_send, IInv, TypeOK, Held
  <2> QED BY <1>5, <2>1, ConnectionKeeps, ZenonT(40) DEF request_send, ConnState
<1>6. ASSUME NEW c \in Conn, request_close(c) PROVE IInv' /\ LogGrows
  BY <1>6, CloseKeeps
<1>7. ASSUME NEW c \in Conn, request_not_found(c) PROVE IInv' /\ LogGrows
  <2>1. ~Held(c)
    BY <1>7, Zenon DEF request_not_found, IInv, TypeOK, Held
  <2> QED BY <1>7, <2>1, ConnectionKeeps, ZenonT(40) DEF request_not_found, ConnState
<1>8. ASSUME NEW c \in Conn, conn_on_content_read(c) PROVE IInv' /\ LogGrows
  <2>1. Log' = Log
    BY <1>8, Zenon DEF conn_on_content_read, Log
  <2>2. LogGrows /\ InOrder' /\ Logged'
    BY <1>8, <2>1, LogStep, Zenon DEF conn_on_content_read, LogGrows
  <2>3. TypeOK' /\ GoneLeft' /\ ReceivingPosts' /\ NotBothWaiting'
    BY <1>8, Zenon DEF conn_on_content_read, IInv, TypeOK, GoneLeft, ReceivingPosts, NotBothWaiting, ClientMayLeave
  <2> QED BY <2>2, <2>3, Zenon DEF IInv
<1>9. ASSUME NEW c \in Conn, connection_on_flush(c) PROVE IInv' /\ LogGrows
  <2>1. ~Held(c)
    BY <1>9, ZenonT(40) DEF connection_on_flush, IInv, TypeOK, Held
  <2> QED BY <1>9, <2>1, ConnectionKeeps, ZenonT(40) DEF connection_on_flush, ConnState
<1>10. ASSUME NEW c \in Conn, connection_closed(c) PROVE IInv' /\ LogGrows
  BY <1>10, ConnectionKeeps, ZenonT(40) DEF connection_closed, ConnState
<1>11. ASSUME NEW c \in Conn, connection_new(c) PROVE IInv' /\ LogGrows
  BY <1>11, ConnectionKeeps, ZenonT(40) DEF connection_new, ConnState
<1>12. CASE UNCHANGED vars
  <2>1. Log' = Log /\ faults' = faults /\ sent' = sent
    BY <1>12, Zenon DEF vars, Log
  <2>2. LogGrows /\ InOrder' /\ Logged'
    BY <2>1, LogStep, Zenon DEF LogGrows
  <2>3. TypeOK' /\ GoneLeft' /\ ReceivingPosts' /\ NotBothWaiting'
    BY <1>12, Zenon DEF vars, IInv, TypeOK, GoneLeft, ReceivingPosts, NotBothWaiting, ClientMayLeave
  <2> QED BY <2>2, <2>3 DEF IInv
<1> QED
  BY <1>1, <1>2, <1>3, <1>4, <1>5, <1>6, <1>7, <1>8, <1>9, <1>10, <1>11, <1>12, Zenon DEF Next

\* The invariant gives what the server owes.
LEMMA InvKeeps == IInv => MessagesKept
<1> SUFFICES ASSUME IInv PROVE MessagesKept
  BY Zenon
<1>1. delivered \in Seq(1..sent) /\ backlog \in Seq(1..sent)
  BY Zenon DEF IInv, TypeOK
<1>2. Elements(Log) = Written \cup Waiting
  <2>1. Elements(delivered \o backlog) = Elements(delivered) \cup Elements(backlog)
    BY <1>1, ConcatRange, ZenonT(40)
  <2> QED BY <2>1, Zenon DEF Log, Written, Waiting, Elements
<1>3. NoneLost
  BY <1>2, Zenon DEF IInv, Logged, NoneLost
<1> QED BY <1>3, Zenon DEF IInv, MessagesKept

\* The invariant holds in every state of the server.
LEMMA InvAlways == Spec => []IInv
  BY InitInv, NextInv, PTL DEF Spec

-----------------------------------------------------------------------------
\* The state of the server stays well formed: a connection is in the list of
\* those that hold a "receive" at most once (request_handler).
THEOREM TypeCorrect == Spec => []TypeOK
<1>1. IInv => TypeOK
  BY Zenon DEF IInv
<1> QED BY <1>1, InvAlways, PTL

\* For any connections, messages and faults, what the client is sent is in
\* order and without repetition, no message is lost while no connection goes
\* away, and without faults a "receive" is never held while there is a backlog
\* (evd_longpolling_server_actual_send, evd_transport_send).
THEOREM MessagesAlwaysKept == Spec => []MessagesKept
  BY InvAlways, InvKeeps, PTL

\* For any connections, messages and faults, no step reorders, repeats or takes
\* back a message (evd_peer_unshift_message, evd_peer_push_message).
THEOREM LogAlwaysGrows == Spec => LogOnlyGrows
<1>1. IInv /\ [Next]_vars => [LogGrows]_vars
  BY NextInv, Zenon
<1> QED BY <1>1, InvAlways, PTL DEF Spec, LogOnlyGrows

-----------------------------------------------------------------------------
\* The view of a peer.

Fields ==
  {"mode", "obj", "refs", "closed", "table", "pending", "held", "notify", "idle",
   "elapsed", "sources", "misuse", "added", "news", "closes", "lasts"}

Shape(s) == DOMAIN s = Fields /\ s = [f \in DOMAIN s |-> s[f]]

Typed(s) ==
  /\ Shape(s) /\ s.mode \in Modes
  /\ s.obj \in [Peer -> {"none", "live", "freed"}] /\ s.refs \in [Peer -> Int]
  /\ s.closes \in [Peer -> Int] /\ s.lasts \in [Peer -> Int] /\ s.news \in [Peer -> Int]
  /\ s.closed \in SUBSET Peer /\ s.table \in SUBSET Peer /\ s.pending \in SUBSET Peer
  /\ s.held \in SUBSET Peer /\ s.notify \in SUBSET Peer /\ s.idle \in SUBSET Peer
  /\ s.added \in SUBSET Peer
  /\ s.elapsed \in BOOLEAN /\ s.misuse \in BOOLEAN /\ s.sources \in Int

\* 1 if p is in S.
Has(S, p) == Count(p \in S)

\* The parts of a view, unchanged.
SameRefs(s, t, p) == t.obj[p] = s.obj[p] /\ t.refs[p] = s.refs[p]

SameCounts(s, t, p) ==
  t.closes[p] = s.closes[p] /\ t.lasts[p] = s.lasts[p] /\ t.news[p] = s.news[p]

SameOwners(s, t, p) ==
  /\ Has(t.closed, p) = Has(s.closed, p) /\ Has(t.table, p) = Has(s.table, p)
  /\ Has(t.pending, p) = Has(s.pending, p) /\ Has(t.held, p) = Has(s.held, p)

SamePlans(s, t, p) ==
  /\ Has(t.notify, p) = Has(s.notify, p) /\ Has(t.idle, p) = Has(s.idle, p)
  /\ Has(t.added, p) = Has(s.added, p)

SameView(s, t, p) ==
  SameRefs(s, t, p) /\ SameCounts(s, t, p) /\ SameOwners(s, t, p) /\ SamePlans(s, t, p)

\* Has counts 0 or 1.
LEMMA HasIs ==
  ASSUME NEW S, NEW p
  PROVE  Has(S, p) \in 0..1 /\ (p \in S => Has(S, p) = 1) /\ (p \notin S => Has(S, p) = 0)
  BY DEF Has, Count

\* What belongs to no peer.
SameRest(s, t) ==
  /\ t.mode = s.mode /\ t.elapsed = s.elapsed /\ t.misuse = s.misuse
  /\ t.sources = s.sources

\* Only the view of p changes.
Turns(s, t, p) ==
  Typed(t) /\ SameRest(s, t) /\ \A q \in Peer : q # p => SameView(s, t, q)

\* The types of what a view holds.
LEMMA ViewType ==
  ASSUME NEW s, NEW p \in Peer, Typed(s)
  PROVE  /\ s.obj[p] \in {"none", "live", "freed"} /\ s.refs[p] \in Int
         /\ s.closes[p] \in Int /\ s.lasts[p] \in Int /\ s.news[p] \in Int
         /\ Has(s.closed, p) \in 0..1 /\ Has(s.table, p) \in 0..1
         /\ Has(s.pending, p) \in 0..1 /\ Has(s.held, p) \in 0..1
         /\ Has(s.notify, p) \in 0..1 /\ Has(s.idle, p) \in 0..1
         /\ Has(s.added, p) \in 0..1
  BY HasIs, Zenon DEF Typed

\* Two changes of one view are one.
LEMMA TurnsTwice ==
  ASSUME NEW s, NEW t, NEW u, NEW p, Turns(s, t, p), Turns(t, u, p)
  PROVE  Turns(s, u, p)
<1>1. Typed(u) /\ SameRest(s, u)
  BY Zenon DEF Turns, SameRest
<1>2. ASSUME NEW q \in Peer, q # p PROVE SameView(s, u, q)
  <2>1. SameView(s, t, q) /\ SameView(t, u, q)
    BY <1>2, Zenon DEF Turns
  <2> QED BY <2>1, Zenon DEF SameView, SameRefs, SameCounts, SameOwners, SamePlans
<1> QED BY <1>1, <1>2, Zenon DEF Turns

\* Doing nothing changes no view.
LEMMA TurnsNot ==
  ASSUME NEW s, NEW p, Typed(s)
  PROVE  Turns(s, s, p) /\ SameView(s, s, p)
  BY Zenon DEF Turns, SameRest, SameView, SameRefs, SameCounts, SameOwners, SamePlans

-----------------------------------------------------------------------------
\* The four parts of a view, changed.

\* A set with or without p.
Put(S, p, k) == IF k = 1 THEN S \cup {p} ELSE S \ {p}

\* What comes of it.
Holds(S, p, k, U) ==
  /\ U \in SUBSET Peer /\ Has(U, p) = k
  /\ \A q \in Peer : q # p => Has(U, q) = Has(S, q)

PutArgs(S, p, k) == S \in SUBSET Peer /\ p \in Peer /\ k \in 0..1

\* Put decides on p alone.
LEMMA PutIn ==
  ASSUME NEW S, NEW p, NEW k, PutArgs(S, p, k)
  PROVE  Holds(S, p, k, Put(S, p, k))
<1>0. S \in SUBSET Peer /\ p \in Peer /\ k \in 0..1
  BY Zenon DEF PutArgs
<1>1. CASE k = 1
  <2>1. /\ Put(S, p, k) \in SUBSET Peer /\ p \in Put(S, p, k)
        /\ \A q \in Peer : q # p => (q \in Put(S, p, k) <=> q \in S)
    BY <1>0, <1>1, Zenon DEF Put
  <2> QED BY <1>1, <2>1, HasIs, Zenon DEF Holds
<1>2. CASE k = 0
  <2>1. /\ Put(S, p, k) \in SUBSET Peer /\ p \notin Put(S, p, k)
        /\ \A q \in Peer : q # p => (q \in Put(S, p, k) <=> q \in S)
    BY <1>0, <1>2 DEF Put
  <2> QED BY <1>2, <2>1, HasIs, Zenon DEF Holds
<1>3. k = 0 \/ k = 1
  BY <1>0
<1> QED BY <1>1, <1>2, <1>3, Zenon

\* Putting p where it was changes nothing.
LEMMA PutBack ==
  ASSUME NEW S, NEW p
  PROVE  Put(S, p, Has(S, p)) = S
<1>1. CASE p \in S
  BY <1>1, HasIs DEF Put
<1>2. CASE p \notin S
  BY <1>2, HasIs DEF Put
<1> QED BY <1>1, <1>2, Zenon

\* Setting an entry to what it was changes nothing.
LEMMA SetBack ==
  ASSUME NEW X, NEW f \in [Peer -> X], NEW p \in Peer
  PROVE  [f EXCEPT ![p] = f[p]] = f
  OBVIOUS

\* Setting an entry of a function over the peers.
LEMMA SetAt ==
  ASSUME NEW X, NEW f \in [Peer -> X], NEW p \in Peer, NEW x \in X
  PROVE  /\ [f EXCEPT ![p] = x] \in [Peer -> X] /\ [f EXCEPT ![p] = x][p] = x
         /\ \A q \in Peer : q # p => [f EXCEPT ![p] = x][q] = f[q]
  BY Zenon

\* The object and its references.
SetsRefs(s, t, p, o, r) ==
  t = [s EXCEPT !.obj = [s.obj EXCEPT ![p] = o], !.refs = [s.refs EXCEPT ![p] = r]]

\* Setting the object and the count of p turns that part of its view alone.
LEMMA SetRefs ==
  ASSUME NEW s, NEW t, NEW p \in Peer, NEW o \in {"none", "live", "freed"}, NEW r \in Int,
         Typed(s), SetsRefs(s, t, p, o, r)
  PROVE  /\ Turns(s, t, p) /\ t.obj[p] = o /\ t.refs[p] = r
         /\ SameCounts(s, t, p) /\ SameOwners(s, t, p) /\ SamePlans(s, t, p)
<1> DEFINE f == [s.obj EXCEPT ![p] = o]
           g == [s.refs EXCEPT ![p] = r]
<1>1. Shape(s) /\ t = [s EXCEPT !.obj = f, !.refs = g]
  BY Zenon DEF Typed, SetsRefs
<1>2. /\ f \in [Peer -> {"none", "live", "freed"}] /\ f[p] = o
      /\ \A q \in Peer : q # p => f[q] = s.obj[q]
  BY SetAt, Zenon DEF Typed
<1>3. g \in [Peer -> Int] /\ g[p] = r /\ \A q \in Peer : q # p => g[q] = s.refs[q]
  BY SetAt, Zenon DEF Typed
<1> HIDE DEF f, g
<1>4. Shape(t)
  BY <1>1, Zenon DEF Shape
<1>5. /\ t.mode = s.mode /\ t.obj = f /\ t.refs = g /\ t.closed = s.closed
      /\ t.table = s.table /\ t.pending = s.pending /\ t.held = s.held
      /\ t.notify = s.notify /\ t.idle = s.idle /\ t.elapsed = s.elapsed
      /\ t.sources = s.sources /\ t.misuse = s.misuse /\ t.added = s.added
      /\ t.news = s.news /\ t.closes = s.closes /\ t.lasts = s.lasts
  BY ONLY <1>1 DEF Shape, Fields
<1>6. Typed(t) /\ SameRest(s, t)
  BY <1>2, <1>3, <1>4, <1>5, Zenon DEF Typed, SameRest
<1>7. /\ t.obj[p] = o /\ t.refs[p] = r /\ t.closed = s.closed
      /\ t.table = s.table /\ t.pending = s.pending /\ t.held = s.held
      /\ t.notify = s.notify /\ t.idle = s.idle /\ t.added = s.added
      /\ t.news = s.news /\ t.closes = s.closes /\ t.lasts = s.lasts
  BY <1>2, <1>3, <1>5, Zenon
<1>8. \A q \in Peer : q # p => SameView(s, t, q)
  BY ONLY <1>2, <1>3, <1>5, Zenon
     DEF SameView, SameRefs, SameCounts, SameOwners, SamePlans
<1> QED BY <1>6, <1>7, <1>8, Zenon
        DEF Turns, SameRefs, SameCounts, SameOwners, SamePlans

\* The signals that were emitted for it.
SetsCounts(s, t, p, c, l, n) ==
  t = [s EXCEPT !.closes = [s.closes EXCEPT ![p] = c], !.lasts = [s.lasts EXCEPT ![p] = l],
                !.news = [s.news EXCEPT ![p] = n]]

\* The same for the signals counted.
LEMMA SetCounts ==
  ASSUME NEW s, NEW t, NEW p \in Peer, NEW c \in Int, NEW l \in Int, NEW n \in Int,
         Typed(s), SetsCounts(s, t, p, c, l, n)
  PROVE  /\ Turns(s, t, p) /\ t.closes[p] = c /\ t.lasts[p] = l /\ t.news[p] = n
         /\ SameRefs(s, t, p) /\ SameOwners(s, t, p) /\ SamePlans(s, t, p)
<1> DEFINE f == [s.closes EXCEPT ![p] = c]
           g == [s.lasts EXCEPT ![p] = l]
           h == [s.news EXCEPT ![p] = n]
<1>1. Shape(s) /\ t = [s EXCEPT !.closes = f, !.lasts = g, !.news = h]
  BY Zenon DEF Typed, SetsCounts
<1>2. f \in [Peer -> Int] /\ f[p] = c /\ \A q \in Peer : q # p => f[q] = s.closes[q]
  BY SetAt, Zenon DEF Typed
<1>3. g \in [Peer -> Int] /\ g[p] = l /\ \A q \in Peer : q # p => g[q] = s.lasts[q]
  BY SetAt, Zenon DEF Typed
<1>4. h \in [Peer -> Int] /\ h[p] = n /\ \A q \in Peer : q # p => h[q] = s.news[q]
  BY SetAt, Zenon DEF Typed
<1> HIDE DEF f, g, h
<1>5. Shape(t)
  BY <1>1, Zenon DEF Shape
<1>6. /\ t.mode = s.mode /\ t.obj = s.obj /\ t.refs = s.refs /\ t.closed = s.closed
      /\ t.table = s.table /\ t.pending = s.pending /\ t.held = s.held
      /\ t.notify = s.notify /\ t.idle = s.idle /\ t.elapsed = s.elapsed
      /\ t.sources = s.sources /\ t.misuse = s.misuse /\ t.added = s.added
      /\ t.news = h /\ t.closes = f /\ t.lasts = g
  BY ONLY <1>1 DEF Shape, Fields
<1>7. Typed(t) /\ SameRest(s, t)
  BY <1>2, <1>3, <1>4, <1>5, <1>6, Zenon DEF Typed, SameRest
<1>8. /\ t.obj = s.obj /\ t.refs = s.refs /\ t.closed = s.closed
      /\ t.table = s.table /\ t.pending = s.pending /\ t.held = s.held
      /\ t.notify = s.notify /\ t.idle = s.idle /\ t.added = s.added
      /\ t.news[p] = n /\ t.closes[p] = c /\ t.lasts[p] = l
  BY <1>2, <1>3, <1>4, <1>6, Zenon
<1>9. \A q \in Peer : q # p => SameView(s, t, q)
  BY ONLY <1>2, <1>3, <1>4, <1>6, Zenon
     DEF SameView, SameRefs, SameCounts, SameOwners, SamePlans
<1> QED BY <1>7, <1>8, <1>9, Zenon
        DEF Turns, SameRefs, SameCounts, SameOwners, SamePlans

\* Whether it is closed and who has it.
SetsOwners(s, t, p, c, b, w, h) ==
  /\ t = [s EXCEPT !.closed = Put(s.closed, p, c), !.table = Put(s.table, p, b),
                   !.pending = Put(s.pending, p, w), !.held = Put(s.held, p, h)]
  /\ Typed(s) /\ p \in Peer /\ c \in 0..1 /\ b \in 0..1 /\ w \in 0..1 /\ h \in 0..1

OwnersSet(s, t, p, c, b, w, h) ==
  /\ Turns(s, t, p) /\ Has(t.closed, p) = c /\ Has(t.table, p) = b
  /\ Has(t.pending, p) = w /\ Has(t.held, p) = h
  /\ SameRefs(s, t, p) /\ SameCounts(s, t, p) /\ SamePlans(s, t, p)

\* The same for the sets that own p, and for its being closed.
LEMMA SetOwners ==
  ASSUME NEW s, NEW t, NEW p, NEW c, NEW b, NEW w, NEW h, SetsOwners(s, t, p, c, b, w, h)
  PROVE  OwnersSet(s, t, p, c, b, w, h)
<1> DEFINE C == Put(s.closed, p, c)
           T == Put(s.table, p, b)
           W == Put(s.pending, p, w)
           H == Put(s.held, p, h)
<1>0. Typed(s) /\ p \in Peer /\ c \in 0..1 /\ b \in 0..1 /\ w \in 0..1 /\ h \in 0..1
  BY Zenon DEF SetsOwners
<1>1. Shape(s) /\ t = [s EXCEPT !.closed = C, !.table = T, !.pending = W, !.held = H]
  BY <1>0, Zenon DEF Typed, SetsOwners
<1>2. Holds(s.closed, p, c, C)
  BY <1>0, PutIn, Zenon DEF Typed, PutArgs
<1>3. Holds(s.table, p, b, T)
  BY <1>0, PutIn, Zenon DEF Typed, PutArgs
<1>4. Holds(s.pending, p, w, W)
  BY <1>0, PutIn, Zenon DEF Typed, PutArgs
<1>5. Holds(s.held, p, h, H)
  BY <1>0, PutIn, Zenon DEF Typed, PutArgs
<1> HIDE DEF C, T, W, H
<1>6. Shape(t)
  BY <1>1, Zenon DEF Shape
<1>7. /\ t.mode = s.mode /\ t.obj = s.obj /\ t.refs = s.refs /\ t.closed = C
      /\ t.table = T /\ t.pending = W /\ t.held = H
      /\ t.notify = s.notify /\ t.idle = s.idle /\ t.elapsed = s.elapsed
      /\ t.sources = s.sources /\ t.misuse = s.misuse /\ t.added = s.added
      /\ t.news = s.news /\ t.closes = s.closes /\ t.lasts = s.lasts
  BY ONLY <1>1 DEF Shape, Fields
<1>8. Typed(t) /\ SameRest(s, t)
  BY <1>0, <1>2, <1>3, <1>4, <1>5, <1>6, <1>7, Zenon DEF Typed, SameRest, Holds
<1>9. /\ t.obj = s.obj /\ t.refs = s.refs /\ Has(t.closed, p) = c
      /\ Has(t.table, p) = b /\ Has(t.pending, p) = w /\ Has(t.held, p) = h
      /\ t.notify = s.notify /\ t.idle = s.idle /\ t.added = s.added
      /\ t.news = s.news /\ t.closes = s.closes /\ t.lasts = s.lasts
  BY <1>2, <1>3, <1>4, <1>5, <1>7, Zenon DEF Holds
<1>10. \A q \in Peer : q # p => SameView(s, t, q)
  BY ONLY <1>2, <1>3, <1>4, <1>5, <1>7, Zenon
     DEF SameView, SameRefs, SameCounts, SameOwners, SamePlans, Holds
<1> QED BY <1>8, <1>9, <1>10, Zenon
        DEF OwnersSet, Turns, SameRefs, SameCounts, SameOwners, SamePlans

\* What is to be done with it.
SetsPlans(s, t, p, n, i, a) ==
  /\ t = [s EXCEPT !.notify = Put(s.notify, p, n), !.idle = Put(s.idle, p, i),
                   !.added = Put(s.added, p, a)]
  /\ Typed(s) /\ p \in Peer /\ n \in 0..1 /\ i \in 0..1 /\ a \in 0..1

PlansSet(s, t, p, n, i, a) ==
  /\ Turns(s, t, p) /\ Has(t.notify, p) = n /\ Has(t.idle, p) = i
  /\ Has(t.added, p) = a
  /\ SameRefs(s, t, p) /\ SameCounts(s, t, p) /\ SameOwners(s, t, p)

\* The same for what is planned for p.
LEMMA SetPlans ==
  ASSUME NEW s, NEW t, NEW p, NEW n, NEW i, NEW a, SetsPlans(s, t, p, n, i, a)
  PROVE  PlansSet(s, t, p, n, i, a)
<1> DEFINE N == Put(s.notify, p, n)
           I == Put(s.idle, p, i)
           A == Put(s.added, p, a)
<1>0. Typed(s) /\ p \in Peer /\ n \in 0..1 /\ i \in 0..1 /\ a \in 0..1
  BY Zenon DEF SetsPlans
<1>1. Shape(s) /\ t = [s EXCEPT !.notify = N, !.idle = I, !.added = A]
  BY <1>0, Zenon DEF Typed, SetsPlans
<1>2. Holds(s.notify, p, n, N)
  BY <1>0, PutIn, Zenon DEF Typed, PutArgs
<1>3. Holds(s.idle, p, i, I)
  BY <1>0, PutIn, Zenon DEF Typed, PutArgs
<1>4. Holds(s.added, p, a, A)
  BY <1>0, PutIn, Zenon DEF Typed, PutArgs
<1> HIDE DEF N, I, A
<1>5. Shape(t)
  BY <1>1, Zenon DEF Shape
<1>6. /\ t.mode = s.mode /\ t.obj = s.obj /\ t.refs = s.refs /\ t.closed = s.closed
      /\ t.table = s.table /\ t.pending = s.pending /\ t.held = s.held
      /\ t.notify = N /\ t.idle = I /\ t.elapsed = s.elapsed
      /\ t.sources = s.sources /\ t.misuse = s.misuse /\ t.added = A
      /\ t.news = s.news /\ t.closes = s.closes /\ t.lasts = s.lasts
  BY ONLY <1>1 DEF Shape, Fields
<1>7. Typed(t) /\ SameRest(s, t)
  BY <1>0, <1>2, <1>3, <1>4, <1>5, <1>6, Zenon DEF Typed, SameRest, Holds
<1>8. /\ t.obj = s.obj /\ t.refs = s.refs /\ t.closed = s.closed
      /\ t.table = s.table /\ t.pending = s.pending /\ t.held = s.held
      /\ Has(t.notify, p) = n /\ Has(t.idle, p) = i /\ Has(t.added, p) = a
      /\ t.news = s.news /\ t.closes = s.closes /\ t.lasts = s.lasts
  BY <1>2, <1>3, <1>4, <1>6, Zenon DEF Holds
<1>9. \A q \in Peer : q # p => SameView(s, t, q)
  BY ONLY <1>2, <1>3, <1>4, <1>6, Zenon
     DEF SameView, SameRefs, SameCounts, SameOwners, SamePlans, Holds
<1> QED BY <1>7, <1>8, <1>9, Zenon
        DEF PlansSet, Turns, SameRefs, SameCounts, SameOwners, SamePlans

-----------------------------------------------------------------------------
\* What the functions do to the view of a peer.

\* g_object_ref adds one to the count.
LEMMA RefStep ==
  ASSUME NEW s, NEW p \in Peer, Typed(s)
  PROVE  LET t == g_object_ref(s, p)
         IN /\ Turns(s, t, p) /\ t.obj[p] = s.obj[p] /\ t.refs[p] = s.refs[p] + 1
            /\ SameCounts(s, t, p) /\ SameOwners(s, t, p) /\ SamePlans(s, t, p)
<1> DEFINE t == g_object_ref(s, p)
           r == s.refs[p] + 1
<1>1. Shape(s) /\ t = [s EXCEPT !.refs = [s.refs EXCEPT ![p] = r]]
  BY Zenon DEF g_object_ref, Typed
<1>2. s.obj = [s.obj EXCEPT ![p] = s.obj[p]]
  BY SetBack, Zenon DEF Typed
<1>3. SetsRefs(s, t, p, s.obj[p], r)
  <2>1. [s EXCEPT !.refs = [s.refs EXCEPT ![p] = r]]
          = [s EXCEPT !.obj = s.obj, !.refs = [s.refs EXCEPT ![p] = r]]
    BY ONLY <1>1, ZenonT(40) DEF Shape, Fields
  <2> QED BY <1>1, <1>2, <2>1, Zenon DEF SetsRefs
<1>4. s.obj[p] \in {"none", "live", "freed"} /\ s.refs[p] \in Int
  BY ViewType, Zenon
<1>5. r \in Int
  BY <1>4
<1> HIDE DEF t, r
<1>6. /\ Turns(s, t, p) /\ t.obj[p] = s.obj[p] /\ t.refs[p] = r
      /\ SameCounts(s, t, p) /\ SameOwners(s, t, p) /\ SamePlans(s, t, p)
  BY <1>3, <1>4, <1>5, SetRefs, Zenon
<1> QED BY <1>6, Zenon DEF t, r

\* A reference is dropped; with the last one the peer is freed.
Unreffed(s, t, p) ==
  /\ Turns(s, t, p) /\ t.refs[p] = s.refs[p] - 1
  /\ t.obj[p] = (IF s.refs[p] = 1 THEN "freed" ELSE s.obj[p])
  /\ SameCounts(s, t, p) /\ SameOwners(s, t, p) /\ SamePlans(s, t, p)

\* g_object_unref takes one off, and frees the peer at the last.
LEMMA UnrefStep ==
  ASSUME NEW s, NEW p \in Peer, Typed(s)
  PROVE  Unreffed(s, g_object_unref(s, p), p)
<1> DEFINE t == g_object_unref(s, p)
           r == s.refs[p] - 1
           o == IF s.refs[p] = 1 THEN "freed" ELSE s.obj[p]
<1>1. s.obj[p] \in {"none", "live", "freed"} /\ s.refs[p] \in Int /\ Shape(s)
  BY ViewType, Zenon DEF Typed
<1>2. r \in Int /\ (s.refs[p] = 1 => r = 0)
  BY <1>1
<1>3. o \in {"none", "live", "freed"}
  BY <1>1, Zenon
<1>4. SetsRefs(s, t, p, o, r)
  <2>1. CASE s.refs[p] = 1
    <3>1. t = [s EXCEPT !.refs = [s.refs EXCEPT ![p] = 0], !.obj = [s.obj EXCEPT ![p] = "freed"]]
      BY <2>1, Zenon DEF g_object_unref
    <3>2. t = [s EXCEPT !.obj = [s.obj EXCEPT ![p] = "freed"], !.refs = [s.refs EXCEPT ![p] = 0]]
      BY ONLY <1>1, <3>1, ZenonT(40) DEF Shape, Fields
    <3>3. o = "freed" /\ r = 0
      BY <1>2, <2>1, Zenon
    <3> QED BY <3>2, <3>3, Zenon DEF SetsRefs
  <2>2. CASE s.refs[p] # 1
    <3>1. t = [s EXCEPT !.refs = [s.refs EXCEPT ![p] = r]]
      BY <2>2, Zenon DEF g_object_unref
    <3>2. t = [s EXCEPT !.obj = s.obj, !.refs = [s.refs EXCEPT ![p] = r]]
      BY ONLY <1>1, <3>1, ZenonT(40) DEF Shape, Fields
    <3>3. s.obj = [s.obj EXCEPT ![p] = s.obj[p]] /\ o = s.obj[p]
      BY <2>2, SetBack, Zenon DEF Typed
    <3> QED BY <3>2, <3>3, Zenon DEF SetsRefs
  <2> QED BY <2>1, <2>2, Zenon
<1> HIDE DEF t, r, o
<1>5. /\ Turns(s, t, p) /\ t.obj[p] = o /\ t.refs[p] = r
      /\ SameCounts(s, t, p) /\ SameOwners(s, t, p) /\ SamePlans(s, t, p)
  BY <1>2, <1>3, <1>4, SetRefs, Zenon
<1> QED BY <1>5, Zenon DEF t, r, o, Unreffed

\* Owners as they were.
LEMMA OwnersBack ==
  ASSUME NEW s, NEW p
  PROVE  /\ Put(s.closed, p, Has(s.closed, p)) = s.closed
         /\ Put(s.table, p, Has(s.table, p)) = s.table
         /\ Put(s.pending, p, Has(s.pending, p)) = s.pending
         /\ Put(s.held, p, Has(s.held, p)) = s.held
  BY PutBack, Zenon

\* evd_peer_close sets the peer's closed flag.
LEMMA MarkStep ==
  ASSUME NEW s, NEW p \in Peer, Typed(s)
  PROVE  LET t == MarkClosed(s, p)
         IN /\ Turns(s, t, p) /\ Has(t.closed, p) = 1 /\ Has(t.table, p) = Has(s.table, p)
            /\ Has(t.pending, p) = Has(s.pending, p) /\ Has(t.held, p) = Has(s.held, p)
            /\ SameRefs(s, t, p) /\ SameCounts(s, t, p) /\ SamePlans(s, t, p)
<1> DEFINE t == MarkClosed(s, p)
<1>1. Shape(s) /\ t = [s EXCEPT !.closed = Put(s.closed, p, 1)]
  BY Zenon DEF MarkClosed, Typed, Put
<1>2. t = [s EXCEPT !.closed = Put(s.closed, p, 1), !.table = s.table,
                    !.pending = s.pending, !.held = s.held]
  BY ONLY <1>1, ZenonT(40) DEF Shape, Fields
<1>3. /\ 1 \in 0..1 /\ Has(s.table, p) \in 0..1 /\ Has(s.pending, p) \in 0..1
      /\ Has(s.held, p) \in 0..1
  BY HasIs
<1>4. SetsOwners(s, t, p, 1, Has(s.table, p), Has(s.pending, p), Has(s.held, p))
  BY <1>2, <1>3, OwnersBack, Zenon DEF SetsOwners
<1>5. OwnersSet(s, t, p, 1, Has(s.table, p), Has(s.pending, p), Has(s.held, p))
  BY <1>4, SetOwners, Zenon
<1> QED BY <1>5, Zenon DEF OwnersSet

\* The peer leaves the table, whose reference is dropped.
Removed(s, t, p) ==
  /\ Turns(s, t, p) /\ t.refs[p] = s.refs[p] - 1
  /\ t.obj[p] = (IF s.refs[p] = 1 THEN "freed" ELSE s.obj[p])
  /\ Has(t.closed, p) = Has(s.closed, p) /\ Has(t.table, p) = 0
  /\ Has(t.pending, p) = Has(s.pending, p) /\ Has(t.held, p) = Has(s.held, p)
  /\ SameCounts(s, t, p) /\ SamePlans(s, t, p)

\* Leaving the table drops the reference that the table has.
LEMMA RemoveStep ==
  ASSUME NEW s, NEW p \in Peer, Typed(s)
  PROVE  Removed(s, TableRemove(s, p), p)
<1> DEFINE x == [s EXCEPT !.table = Put(s.table, p, 0)]
           t == TableRemove(s, p)
<1>1. Put(s.table, p, 0) = s.table \ {p}
  BY DEF Put
<1>2. t = g_object_unref(x, p)
  BY <1>1, Zenon DEF TableRemove
<1>3. Shape(s)
  BY Zenon DEF Typed
<1>4. x = [s EXCEPT !.closed = s.closed, !.table = Put(s.table, p, 0),
                    !.pending = s.pending, !.held = s.held]
  BY ONLY <1>3, ZenonT(40) DEF Shape, Fields
<1>5. /\ 0 \in 0..1 /\ Has(s.closed, p) \in 0..1 /\ Has(s.pending, p) \in 0..1
      /\ Has(s.held, p) \in 0..1
  BY HasIs
<1>6. SetsOwners(s, x, p, Has(s.closed, p), 0, Has(s.pending, p), Has(s.held, p))
  BY <1>4, <1>5, OwnersBack, ZenonT(40) DEF SetsOwners
<1>7. OwnersSet(s, x, p, Has(s.closed, p), 0, Has(s.pending, p), Has(s.held, p))
  BY <1>6, SetOwners, Zenon
<1> HIDE DEF x, t
<1>8. Typed(x)
  BY <1>7, Zenon DEF OwnersSet, Turns
<1>9. Unreffed(x, t, p)
  BY <1>2, <1>8, UnrefStep, Zenon
<1>10. Turns(s, t, p)
  BY <1>7, <1>9, TurnsTwice, Zenon DEF OwnersSet, Unreffed
<1> QED BY <1>7, <1>9, <1>10, Zenon
        DEF OwnersSet, Removed, Unreffed, SameRefs, SameCounts, SameOwners, SamePlans, t

\* Signals are emitted.
Emitted(s, t, p, c, l, n) ==
  /\ Turns(s, t, p) /\ t.closes[p] = s.closes[p] + c /\ t.lasts[p] = s.lasts[p] + l
  /\ t.news[p] = s.news[p] + n
  /\ SameRefs(s, t, p) /\ SameOwners(s, t, p) /\ SamePlans(s, t, p)

\* An emission counts one signal.
LEMMA EmitStep ==
  ASSUME NEW s, NEW p \in Peer, Typed(s)
  PROVE  /\ Emitted(s, [s EXCEPT !.closes[p] = s.closes[p] + 1], p, 1, 0, 0)
         /\ Emitted(s, [s EXCEPT !.lasts[p] = s.lasts[p] + 1], p, 0, 1, 0)
         /\ Emitted(s, [s EXCEPT !.news[p] = s.news[p] + 1], p, 0, 0, 1)
<1> DEFINE C(x) == [s.closes EXCEPT ![p] = x]
           L(x) == [s.lasts EXCEPT ![p] = x]
           N(x) == [s.news EXCEPT ![p] = x]
           c == s.closes[p]
           l == s.lasts[p]
           n == s.news[p]
<1>1. Shape(s)
  BY Zenon DEF Typed
<1>2. C(c) = s.closes /\ L(l) = s.lasts /\ N(n) = s.news
  BY SetBack, Zenon DEF Typed
<1>3. c \in Int /\ l \in Int /\ n \in Int
  BY ViewType, Zenon
<1> HIDE DEF c, l, n
<1>4. /\ c + 1 \in Int /\ l + 1 \in Int /\ n + 1 \in Int
      /\ c = c + 0 /\ l = l + 0 /\ n = n + 0
  BY <1>3
<1>5. Emitted(s, [s EXCEPT !.closes[p] = c + 1], p, 1, 0, 0)
  <2> DEFINE t == [s EXCEPT !.closes[p] = c + 1]
  <2>1. t = [s EXCEPT !.closes = C(c + 1), !.lasts = s.lasts, !.news = s.news]
    BY ONLY <1>1, Zenon DEF Shape, Fields
  <2>2. SetsCounts(s, t, p, c + 1, l, n)
    BY <1>2, <2>1, Zenon DEF SetsCounts
  <2> HIDE DEF t
  <2>3. /\ Turns(s, t, p) /\ t.closes[p] = c + 1 /\ t.lasts[p] = l /\ t.news[p] = n
        /\ SameRefs(s, t, p) /\ SameOwners(s, t, p) /\ SamePlans(s, t, p)
    BY <1>3, <1>4, <2>2, SetCounts, Zenon
  <2> QED BY <1>4, <2>3, Zenon DEF t, c, l, n, Emitted
<1>6. Emitted(s, [s EXCEPT !.lasts[p] = l + 1], p, 0, 1, 0)
  <2> DEFINE t == [s EXCEPT !.lasts[p] = l + 1]
  <2>1. t = [s EXCEPT !.closes = s.closes, !.lasts = L(l + 1), !.news = s.news]
    BY ONLY <1>1, Zenon DEF Shape, Fields
  <2>2. SetsCounts(s, t, p, c, l + 1, n)
    BY <1>2, <2>1, Zenon DEF SetsCounts
  <2> HIDE DEF t
  <2>3. /\ Turns(s, t, p) /\ t.closes[p] = c /\ t.lasts[p] = l + 1 /\ t.news[p] = n
        /\ SameRefs(s, t, p) /\ SameOwners(s, t, p) /\ SamePlans(s, t, p)
    BY <1>3, <1>4, <2>2, SetCounts, Zenon
  <2> QED BY <1>4, <2>3, Zenon DEF t, c, l, n, Emitted
<1>7. Emitted(s, [s EXCEPT !.news[p] = n + 1], p, 0, 0, 1)
  <2> DEFINE t == [s EXCEPT !.news[p] = n + 1]
  <2>1. t = [s EXCEPT !.closes = s.closes, !.lasts = s.lasts, !.news = N(n + 1)]
    BY ONLY <1>1, Zenon DEF Shape, Fields
  <2>2. SetsCounts(s, t, p, c, l, n + 1)
    BY <1>2, <2>1, Zenon DEF SetsCounts
  <2> HIDE DEF t
  <2>3. /\ Turns(s, t, p) /\ t.closes[p] = c /\ t.lasts[p] = l /\ t.news[p] = n + 1
        /\ SameRefs(s, t, p) /\ SameOwners(s, t, p) /\ SamePlans(s, t, p)
    BY <1>3, <1>4, <2>2, SetCounts, Zenon
  <2> QED BY <1>4, <2>3, Zenon DEF t, c, l, n, Emitted
<1> QED BY <1>5, <1>6, <1>7, Zenon DEF c, l, n

\* What a close leaves alone.
CloseFrame(s, t, p) ==
  /\ Turns(s, t, p) /\ t.news[p] = s.news[p]
  /\ Has(t.pending, p) = Has(s.pending, p) /\ Has(t.held, p) = Has(s.held, p)
  /\ SamePlans(s, t, p)

\* Two parts of a close are one.
LEMMA FrameTwice ==
  ASSUME NEW s, NEW t, NEW u, NEW p, CloseFrame(s, t, p), CloseFrame(t, u, p)
  PROVE  CloseFrame(s, u, p)
<1>1. Turns(s, u, p)
  BY TurnsTwice, Zenon DEF CloseFrame
<1> QED BY <1>1, Zenon DEF CloseFrame, SamePlans

\* A step that leaves counts and plans alone is part of a close.
LEMMA FrameOf ==
  ASSUME NEW s, NEW t, NEW p, Turns(s, t, p), SameCounts(s, t, p), SamePlans(s, t, p),
         Has(t.pending, p) = Has(s.pending, p), Has(t.held, p) = Has(s.held, p)
  PROVE  CloseFrame(s, t, p)
  BY Zenon DEF CloseFrame, SameCounts

\* The view of a peer the transport has closed.
TransportClosed(s, t, p) ==
  /\ CloseFrame(s, t, p) /\ Has(t.closed, p) = 1 /\ Has(t.table, p) = 0
  /\ t.closes[p] = s.closes[p] + Has(s.table, p) /\ t.lasts[p] = s.lasts[p] + 1
  /\ t.refs[p] = s.refs[p] - Has(s.table, p)
  /\ t.obj[p] = (IF t.refs[p] = 0 THEN "freed" ELSE "live")

\* The same of one the manager has closed.
ManagerClosed(s, t, p) ==
  /\ CloseFrame(s, t, p) /\ Has(t.table, p) = 0 /\ t.lasts[p] = s.lasts[p]
  /\ t.closes[p] = s.closes[p] + Has(s.table, p)
  /\ t.refs[p] = s.refs[p] - Has(s.table, p) /\ t.obj[p] = s.obj[p]

\* The manager closes a peer of its table: it leaves, and is signalled once.
LEMMA ManagerCloseStep ==
  ASSUME NEW s, NEW p \in Peer, Typed(s), s.refs[p] > 1
  PROVE  ManagerClosed(s, ManagerClosePeer(s, p), p)
<1> DEFINE t == ManagerClosePeer(s, p)
           a == TableRemove(s, p)
           b == MarkClosed(a, p)
<1>0. s.refs[p] \in Int /\ s.closes[p] \in Int
  BY ViewType, Zenon
<1>1. CASE p \notin s.table
  <2>1. t = s /\ Has(s.table, p) = 0
    BY <1>1, HasIs, Zenon DEF ManagerClosePeer
  <2>2. s.closes[p] = s.closes[p] + 0 /\ s.refs[p] = s.refs[p] - 0
    BY <1>0
  <2>3. Turns(s, s, p) /\ SameView(s, s, p)
    BY TurnsNot, Zenon
  <2> QED BY <2>1, <2>2, <2>3, Zenon
          DEF ManagerClosed, CloseFrame, SameView, SameCounts, SameOwners, SamePlans
<1>2. CASE p \in s.table
  <2>1. t = [b EXCEPT !.closes[p] = b.closes[p] + 1] /\ Has(s.table, p) = 1
    BY <1>2, HasIs, Zenon DEF ManagerClosePeer
  <2>2. Removed(s, a, p)
    BY RemoveStep, Zenon
  <2>3. Typed(a)
    BY <2>2, Zenon DEF Removed, Turns
  <2> HIDE DEF a
  <2>4. /\ Turns(a, b, p) /\ Has(b.closed, p) = 1 /\ Has(b.table, p) = Has(a.table, p)
        /\ Has(b.pending, p) = Has(a.pending, p) /\ Has(b.held, p) = Has(a.held, p)
        /\ SameRefs(a, b, p) /\ SameCounts(a, b, p) /\ SamePlans(a, b, p)
    BY <2>3, MarkStep, Zenon
  <2>5. Typed(b)
    BY <2>4, Zenon DEF Turns
  <2> HIDE DEF b, t
  <2>6. Emitted(b, t, p, 1, 0, 0)
    BY <2>1, <2>5, EmitStep, Zenon
  <2>7. CloseFrame(s, a, p) /\ CloseFrame(a, b, p)
    BY <2>2, <2>4, FrameOf, Zenon DEF Removed
  <2>8. CloseFrame(b, t, p)
    <3>1. t.news[p] = b.news[p]
      <4>1. t.news[p] = b.news[p] + 0 /\ b.news[p] \in Int
        BY <2>5, <2>6, ViewType, Zenon DEF Emitted
      <4> QED BY <4>1
    <3> QED BY <2>6, <3>1, Zenon DEF Emitted, CloseFrame, SameOwners
  <2>9. CloseFrame(s, t, p)
    BY <2>7, <2>8, FrameTwice, Zenon
  <2>10. a.refs[p] = s.refs[p] - 1 /\ a.obj[p] = s.obj[p]
    <3>1. s.refs[p] # 1
      BY <1>0
    <3> QED BY <2>2, <3>1, Zenon DEF Removed
  <2>11. t.refs[p] = s.refs[p] - 1 /\ t.obj[p] = s.obj[p] /\ Has(t.table, p) = 0
    BY <2>2, <2>4, <2>6, <2>10, Zenon DEF Removed, Emitted, SameRefs, SameOwners
  <2>12. t.closes[p] = s.closes[p] + 1 /\ t.lasts[p] = b.lasts[p] + 0 /\ b.lasts[p] = s.lasts[p]
    BY <2>2, <2>4, <2>6, Zenon DEF Removed, Emitted, SameCounts
  <2>13. t.lasts[p] = s.lasts[p]
    <3>1. b.lasts[p] \in Int
      BY <2>5, ViewType, Zenon
    <3> QED BY <2>12, <3>1
  <2> QED BY <2>1, <2>9, <2>11, <2>12, <2>13, Zenon DEF ManagerClosed, t
<1> QED BY <1>1, <1>2, Zenon

\* The transport's close, which marks the peer and tells the manager.
LEMMA TransportCloseStep ==
  ASSUME NEW s, NEW p \in Peer, Typed(s), s.refs[p] > 0, s.obj[p] = "live"
  PROVE  TransportClosed(s, evd_transport_close_peer(s, p), p)
<1> DEFINE a == g_object_ref(s, p)
           b == ManagerClosePeer(a, p)
           c == MarkClosed(b, p)
           d == [c EXCEPT !.lasts[p] = c.lasts[p] + 1]
           t == g_object_unref(d, p)
<1>0. s.refs[p] \in Int /\ s.closes[p] \in Int /\ Has(s.table, p) \in 0..1
  BY ViewType, Zenon
<1>1. /\ Turns(s, a, p) /\ a.obj[p] = s.obj[p] /\ a.refs[p] = s.refs[p] + 1
      /\ SameCounts(s, a, p) /\ SameOwners(s, a, p) /\ SamePlans(s, a, p)
  BY RefStep, Zenon
<1>2. Typed(a) /\ a.refs[p] > 1
  BY <1>0, <1>1 DEF Turns
<1> HIDE DEF a
<1>3. ManagerClosed(a, b, p)
  BY <1>2, ManagerCloseStep, Zenon
<1>4. Typed(b)
  BY <1>3, Zenon DEF ManagerClosed, CloseFrame, Turns
<1> HIDE DEF b
<1>5. /\ Turns(b, c, p) /\ Has(c.closed, p) = 1 /\ Has(c.table, p) = Has(b.table, p)
      /\ Has(c.pending, p) = Has(b.pending, p) /\ Has(c.held, p) = Has(b.held, p)
      /\ SameRefs(b, c, p) /\ SameCounts(b, c, p) /\ SamePlans(b, c, p)
  BY <1>4, MarkStep, Zenon
<1>6. Typed(c)
  BY <1>5, Zenon DEF Turns
<1> HIDE DEF c
<1>7. Emitted(c, d, p, 0, 1, 0)
  BY <1>6, EmitStep, Zenon
<1>8. Typed(d)
  BY <1>7, Zenon DEF Emitted, Turns
<1> HIDE DEF d
<1>9. Unreffed(d, t, p)
  BY <1>8, UnrefStep, Zenon
<1> HIDE DEF t
<1>10. t = evd_transport_close_peer(s, p)
  BY Zenon DEF evd_transport_close_peer, t, d, c, b, a
<1>11. CloseFrame(s, a, p) /\ CloseFrame(b, c, p) /\ CloseFrame(d, t, p) /\ CloseFrame(a, b, p)
  BY <1>1, <1>3, <1>5, <1>9, FrameOf, Zenon DEF SameOwners, Unreffed, ManagerClosed
<1>12. CloseFrame(c, d, p)
  <2>1. d.news[p] = c.news[p] + 0 /\ c.news[p] \in Int
    BY <1>6, <1>7, ViewType, Zenon DEF Emitted
  <2>2. d.news[p] = c.news[p]
    BY <2>1
  <2> QED BY <1>7, <2>2, Zenon DEF Emitted, CloseFrame, SameOwners
<1>13. CloseFrame(s, t, p)
  <2>1. CloseFrame(s, b, p)
    BY <1>11, FrameTwice, Zenon
  <2>2. CloseFrame(s, c, p)
    BY <1>11, <2>1, FrameTwice, Zenon
  <2>3. CloseFrame(s, d, p)
    BY <1>12, <2>2, FrameTwice, Zenon
  <2> QED BY <1>11, <2>3, FrameTwice, Zenon
<1>14. Has(t.closed, p) = 1 /\ Has(t.table, p) = 0
  BY <1>3, <1>5, <1>7, <1>9, Zenon DEF ManagerClosed, Emitted, Unreffed, SameOwners
<1>15. Has(a.table, p) = Has(s.table, p)
  BY <1>1, Zenon DEF SameOwners
<1>16. t.closes[p] = s.closes[p] + Has(s.table, p)
  <2>1. /\ a.closes[p] = s.closes[p] /\ b.closes[p] = a.closes[p] + Has(a.table, p)
        /\ c.closes[p] = b.closes[p] /\ d.closes[p] = c.closes[p] + 0
        /\ t.closes[p] = d.closes[p] /\ c.closes[p] \in Int
    BY <1>1, <1>3, <1>5, <1>6, <1>7, <1>9, ViewType, Zenon
       DEF ManagerClosed, Emitted, Unreffed, SameCounts
  <2> QED BY <1>15, <2>1
<1>17. t.lasts[p] = s.lasts[p] + 1
  BY <1>1, <1>3, <1>5, <1>7, <1>9, Zenon DEF ManagerClosed, Emitted, Unreffed, SameCounts
<1>18. d.refs[p] = s.refs[p] + 1 - Has(s.table, p) /\ d.obj[p] = "live"
  <2>1. /\ a.refs[p] = s.refs[p] + 1 /\ b.refs[p] = a.refs[p] - Has(a.table, p)
        /\ c.refs[p] = b.refs[p] /\ d.refs[p] = c.refs[p] /\ a.obj[p] = "live"
        /\ b.obj[p] = a.obj[p] /\ c.obj[p] = b.obj[p] /\ d.obj[p] = c.obj[p]
    BY <1>1, <1>3, <1>5, <1>7, Zenon DEF ManagerClosed, Emitted, SameRefs
  <2>2. d.refs[p] = a.refs[p] - Has(a.table, p)
    BY <2>1, Zenon
  <2>3. d.obj[p] = "live"
    BY <2>1, Zenon
  <2>4. a.refs[p] = s.refs[p] + 1
    BY <2>1, Zenon
  <2> QED BY ONLY <1>0, <1>15, <2>2, <2>3, <2>4
<1>19. t.refs[p] = s.refs[p] - Has(s.table, p) /\ (t.refs[p] = 0 <=> d.refs[p] = 1)
  <2>1. t.refs[p] = d.refs[p] - 1
    BY <1>9, Zenon DEF Unreffed
  <2> QED BY <1>0, <1>18, <2>1
<1>20. t.obj[p] = (IF t.refs[p] = 0 THEN "freed" ELSE "live")
  BY <1>9, <1>18, <1>19, Zenon DEF Unreffed
<1> QED BY <1>10, <1>13, <1>14, <1>16, <1>17, <1>19, <1>20, Zenon DEF TransportClosed

-----------------------------------------------------------------------------
\* The invariant.

\* The references to p are those of its owners and n that a function has, and
\* they keep it alive.
Owned(s, p, n) ==
  /\ s.refs[p] = Has(s.table, p) + Has(s.pending, p) + Has(s.held, p) + n
  /\ s.refs[p] > 0 <=> s.obj[p] = "live"
  /\ s.obj[p] = "none" =>
       /\ Has(s.closed, p) = 0 /\ Has(s.notify, p) = 0 /\ Has(s.idle, p) = 0
       /\ Has(s.added, p) = 0

\* A peer is added once, announced at most once and not yet while the source
\* of notify_new_peer waits.
Announced(s, p) ==
  /\ Has(s.table, p) = 1 => Has(s.added, p) = 1
  /\ Has(s.added, p) = 0 => s.news[p] = 0 /\ Has(s.notify, p) = 0 /\ s.closes[p] = 0
  /\ Has(s.notify, p) = 1 => s.news[p] = 0
  /\ s.news[p] \in 0..1

\* The transport has emitted "peer-closed" for the peers that are closed, the
\* manager for those that have left the table.
Signalled(s, p) ==
  s.mode # "again" =>
    /\ s.lasts[p] = Has(s.closed, p) /\ s.closes[p] \in 0..1
    /\ Has(s.table, p) = 1 => s.closes[p] = 0
    /\ Has(s.added, p) = 1 /\ Has(s.table, p) = 0 /\ ~s.misuse =>
         s.closes[p] = 1 /\ s.lasts[p] = 1

\* The modes in which a freed peer may be used.
Lax == {"early", "slow", "borrow"}

\* What an application that waits for "new-peer" may count on; if a validation
\* also is over in time and the application closes no peer it merely looked up,
\* a peer to announce is in the table and not idle.
Promised(s, p) ==
  /\ s.mode # "early" /\ Has(s.table, p) = 1 => Has(s.closed, p) = 0
  /\ s.mode \notin Lax =>
       ~s.misuse /\ (Has(s.notify, p) = 1 => Has(s.table, p) = 1 /\ Has(s.idle, p) = 0)

Core(s, p, n) == Owned(s, p, n) /\ Announced(s, p) /\ Signalled(s, p) /\ Promised(s, p)

\* A peer that may be added to the table.
Fresh(s, p) ==
  /\ Has(s.added, p) = 0 /\ (s.mode # "early" => Has(s.closed, p) = 0)
  /\ s.mode \notin Lax => Has(s.idle, p) = 0

Waits(s, p) == Has(s.pending, p) = 1 => Fresh(s, p)

Inv(s) ==
  /\ Typed(s) /\ s.sources \in 0..MaxSources
  /\ \A p \in Peer : Core(s, p, 0) /\ Waits(s, p)
-----------------------------------------------------------------------------
\* A peer closes.

\* evd_peer_close: nothing, or the transport closes it.
PeerCloses(s, t, p) ==
  IF Has(s.closed, p) = 1 THEN t = s ELSE TransportClosed(s, t, p)

\* evd_peer_close closes an open peer and leaves a closed one alone.
LEMMA PeerCloseStep ==
  ASSUME NEW s, NEW p \in Peer, Typed(s), s.refs[p] > 0, s.obj[p] = "live"
  PROVE  PeerCloses(s, PeerClose(s, p), p)
<1> DEFINE a == MarkClosed(s, p)
           t == evd_transport_close_peer(a, p)
<1>1. CASE p \in s.closed
  BY <1>1, HasIs, Zenon DEF PeerClose, PeerCloses
<1>2. CASE p \notin s.closed
  <2>1. PeerClose(s, p) = t /\ Has(s.closed, p) = 0
    BY <1>2, HasIs, Zenon DEF PeerClose
  <2>2. /\ Turns(s, a, p) /\ Has(a.closed, p) = 1 /\ Has(a.table, p) = Has(s.table, p)
        /\ Has(a.pending, p) = Has(s.pending, p) /\ Has(a.held, p) = Has(s.held, p)
        /\ SameRefs(s, a, p) /\ SameCounts(s, a, p) /\ SamePlans(s, a, p)
    BY MarkStep, Zenon
  <2> HIDE DEF a
  <2>3. Typed(a) /\ a.refs[p] > 0 /\ a.obj[p] = "live"
    BY <2>2, Zenon DEF Turns, SameRefs
  <2>4. TransportClosed(a, t, p)
    BY <2>3, TransportCloseStep, Zenon
  <2> HIDE DEF t
  <2>5. CloseFrame(s, t, p)
    BY <2>2, <2>4, FrameOf, FrameTwice, Zenon DEF TransportClosed
  <2>6. TransportClosed(s, t, p)
    BY <2>2, <2>4, <2>5, Zenon DEF TransportClosed, SameRefs, SameCounts
  <2>7. Has(s.closed, p) # 1
    BY <2>1
  <2> QED BY <2>1, <2>6, <2>7, Zenon DEF PeerCloses
<1> QED BY <1>1, <1>2, Zenon

\* close_peer_internal of a peer that has left the table.
InternalClosed(s, t, p) ==
  /\ CloseFrame(s, t, p) /\ Has(t.closed, p) = 1 /\ Has(t.table, p) = 0
  /\ t.closes[p] = s.closes[p] + 1
  /\ t.lasts[p] = s.lasts[p] + (1 - Has(s.closed, p))
  /\ t.refs[p] = s.refs[p] /\ t.obj[p] = "live"

\* close_peer_internal on a peer that has left the table.
LEMMA InternalStep ==
  ASSUME NEW s, NEW p \in Peer, Typed(s), s.refs[p] > 0, s.obj[p] = "live",
         Has(s.table, p) = 0
  PROVE  InternalClosed(s, close_peer_internal(s, p), p)
<1> DEFINE a == PeerClose(s, p)
           t == [a EXCEPT !.closes[p] = a.closes[p] + 1]
<1>0. t = close_peer_internal(s, p)
  BY Zenon DEF close_peer_internal
<1>1. PeerCloses(s, a, p)
  BY PeerCloseStep, Zenon
<1> HIDE DEF a
<1>2. /\ s.refs[p] \in Int /\ s.closes[p] \in Int /\ s.lasts[p] \in Int
      /\ Has(s.closed, p) \in 0..1
  BY ViewType, Zenon
<1>3. /\ CloseFrame(s, a, p) /\ Has(a.closed, p) = 1 /\ Has(a.table, p) = 0
      /\ a.closes[p] = s.closes[p] /\ a.lasts[p] = s.lasts[p] + (1 - Has(s.closed, p))
      /\ a.refs[p] = s.refs[p] /\ a.obj[p] = "live"
  <2>1. CASE Has(s.closed, p) = 1
    <3>1. a = s /\ s.lasts[p] = s.lasts[p] + (1 - 1)
      BY <1>1, <1>2, <2>1 DEF PeerCloses
    <3>2. CloseFrame(s, s, p)
      BY TurnsNot, FrameOf, Zenon DEF SameView, SameOwners
    <3> QED BY <2>1, <3>1, <3>2, Zenon
  <2>2. CASE Has(s.closed, p) = 0
    <3>0. Has(s.closed, p) # 1
      BY <2>2
    <3>1. TransportClosed(s, a, p)
      BY <1>1, <3>0, Zenon DEF PeerCloses
    <3>2. /\ CloseFrame(s, a, p) /\ Has(a.closed, p) = 1 /\ Has(a.table, p) = 0
          /\ a.closes[p] = s.closes[p] + 0 /\ a.lasts[p] = s.lasts[p] + 1
          /\ a.refs[p] = s.refs[p] - 0
          /\ a.obj[p] = (IF a.refs[p] = 0 THEN "freed" ELSE "live")
      BY <3>1, Zenon DEF TransportClosed
    <3>3. /\ a.closes[p] = s.closes[p] /\ a.refs[p] = s.refs[p] /\ a.refs[p] # 0
          /\ a.lasts[p] = s.lasts[p] + (1 - Has(s.closed, p))
      BY <1>2, <2>2, <3>2
    <3> QED BY <3>2, <3>3, Zenon
  <2>3. Has(s.closed, p) = 0 \/ Has(s.closed, p) = 1
    BY <1>2
  <2> QED BY <2>1, <2>2, <2>3, Zenon
<1>4. Typed(a)
  BY <1>3, Zenon DEF CloseFrame, Turns
<1>5. Emitted(a, t, p, 1, 0, 0)
  BY <1>4, EmitStep, Zenon
<1> HIDE DEF t
<1>6. t.news[p] = a.news[p] /\ t.lasts[p] = a.lasts[p]
  <2>1. /\ t.news[p] = a.news[p] + 0 /\ t.lasts[p] = a.lasts[p] + 0
        /\ a.news[p] \in Int /\ a.lasts[p] \in Int
    BY <1>4, <1>5, ViewType, Zenon DEF Emitted
  <2> QED BY <2>1
<1>7. CloseFrame(a, t, p)
  BY <1>5, <1>6, Zenon DEF Emitted, CloseFrame, SameOwners
<1>8. CloseFrame(s, t, p)
  BY <1>3, <1>7, FrameTwice, Zenon
<1>9. /\ Has(t.closed, p) = 1 /\ Has(t.table, p) = 0 /\ t.closes[p] = s.closes[p] + 1
      /\ t.refs[p] = s.refs[p] /\ t.obj[p] = "live"
  BY <1>3, <1>5, Zenon DEF Emitted, SameOwners, SameRefs
<1>10. t.lasts[p] = s.lasts[p] + (1 - Has(s.closed, p))
  BY <1>3, <1>6, Zenon
<1> QED BY <1>0, <1>8, <1>9, <1>10, Zenon DEF InternalClosed

\* The end of a peer that was in the table: it is closed, the manager emits
\* "peer-closed" once more, and the transport if it was not closed before; the
\* reference of the table is dropped.
Ended(s, t, p) ==
  /\ t.news[p] = s.news[p] /\ Has(t.pending, p) = Has(s.pending, p)
  /\ Has(t.held, p) = Has(s.held, p) /\ SamePlans(s, t, p)
  /\ Has(t.closed, p) = 1 /\ Has(t.table, p) = 0
  /\ t.closes[p] = s.closes[p] + 1
  /\ t.lasts[p] = s.lasts[p] + (1 - Has(s.closed, p))
  /\ t.refs[p] = s.refs[p] - 1
  /\ t.obj[p] = (IF s.refs[p] = 1 THEN "freed" ELSE "live")

\* A peer that the clean-up took off the table is closed and dropped.
LEMMA CloseRemovedStep ==
  ASSUME NEW s, NEW p \in Peer, Typed(s), s.refs[p] > 0, s.obj[p] = "live",
         Has(s.table, p) = 0
  PROVE  Turns(s, CloseRemoved(s, p), p) /\ Ended(s, CloseRemoved(s, p), p)
<1> DEFINE a == close_peer_internal(s, p)
           t == g_object_unref(a, p)
<1>0. t = CloseRemoved(s, p)
  BY Zenon DEF CloseRemoved
<1>1. InternalClosed(s, a, p)
  BY InternalStep, Zenon
<1>2. Typed(a)
  BY <1>1, Zenon DEF InternalClosed, CloseFrame, Turns
<1> HIDE DEF a
<1>3. Unreffed(a, t, p)
  BY <1>2, UnrefStep, Zenon
<1> HIDE DEF t
<1>4. CloseFrame(a, t, p)
  BY <1>3, FrameOf, Zenon DEF Unreffed, SameOwners
<1>5. CloseFrame(s, t, p)
  BY <1>1, <1>4, FrameTwice, Zenon DEF InternalClosed
<1> QED BY <1>0, <1>1, <1>3, <1>5, Zenon
        DEF InternalClosed, Unreffed, Ended, CloseFrame, SameCounts, SameOwners
-----------------------------------------------------------------------------
\* The invariant of one peer.

\* Between the steps of a function that is at p, with n references.
Mid(s, p, n) ==
  /\ Typed(s) /\ s.sources \in 0..MaxSources /\ p \in Peer /\ n \in Nat
  /\ Core(s, p, n)
  /\ \A q \in Peer : q # p => Core(s, q, 0) /\ Waits(s, q)

SameMode(s, t) == t.mode = s.mode /\ t.misuse = s.misuse

\* The invariant of a peer is one of its view.
LEMMA CoreSame ==
  ASSUME NEW s, NEW t, NEW p, NEW n, SameView(s, t, p), SameMode(s, t)
  PROVE  (Core(s, p, n) => Core(t, p, n)) /\ (Waits(s, p) => Waits(t, p))
<1>1. Owned(s, p, n) => Owned(t, p, n)
  BY Zenon DEF Owned, SameView, SameRefs, SameOwners, SamePlans
<1>2. Announced(s, p) => Announced(t, p)
  BY Zenon DEF Announced, SameView, SameCounts, SameOwners, SamePlans
<1>3. Signalled(s, p) => Signalled(t, p)
  BY Zenon DEF Signalled, SameView, SameCounts, SameOwners, SamePlans, SameMode
<1>4. Promised(s, p) => Promised(t, p)
  BY Zenon DEF Promised, SameView, SameOwners, SamePlans, SameMode
<1>5. Waits(s, p) => Waits(t, p)
  BY Zenon DEF Waits, Fresh, SameView, SameOwners, SamePlans, SameMode
<1> QED BY <1>1, <1>2, <1>3, <1>4, <1>5, Zenon DEF Core

\* In the middle of a handler only the peer at hand must be looked at.
LEMMA MidTurn ==
  ASSUME NEW s, NEW t, NEW p, NEW n, NEW k \in Nat,
         Mid(s, p, n), Turns(s, t, p), Core(t, p, k)
  PROVE  Mid(t, p, k)
<1>1. SameMode(s, t) /\ Typed(t) /\ t.sources = s.sources
  BY Zenon DEF Turns, SameRest, SameMode
<1>2. ASSUME NEW q \in Peer, q # p PROVE Core(t, q, 0) /\ Waits(t, q)
  <2>1. SameView(s, t, q) /\ Core(s, q, 0) /\ Waits(s, q)
    BY <1>2, Zenon DEF Turns, Mid
  <2> QED BY <1>1, <2>1, CoreSame, Zenon
<1> QED BY <1>1, <1>2, Zenon DEF Mid

\* A handler starts with the invariant...
LEMMA MidOf ==
  ASSUME NEW s, NEW p \in Peer, Inv(s)
  PROVE  Mid(s, p, 0) /\ Waits(s, p)
<1>1. 0 \in Nat
  OBVIOUS
<1> QED BY <1>1, Zenon DEF Mid, Inv

\* ...and ends with it, once it holds no reference of its own.
LEMMA InvOf ==
  ASSUME NEW s, NEW p \in Peer, Mid(s, p, 0), Waits(s, p)
  PROVE  Inv(s)
  BY Zenon DEF Mid, Inv

\* The types of what the invariant is about.
Numbers(s, p) ==
  /\ s.refs[p] \in Int /\ s.closes[p] \in Int /\ s.lasts[p] \in Int /\ s.news[p] \in Int
  /\ Has(s.closed, p) \in 0..1 /\ Has(s.table, p) \in 0..1
  /\ Has(s.pending, p) \in 0..1 /\ Has(s.held, p) \in 0..1
  /\ Has(s.notify, p) \in 0..1 /\ Has(s.idle, p) \in 0..1
  /\ Has(s.added, p) \in 0..1

\* The counts of a typed manager are numbers.
LEMMA NumbersOf ==
  ASSUME NEW s, NEW p \in Peer, Typed(s)
  PROVE  Numbers(s, p)
  BY ViewType, Zenon DEF Numbers

\* A close of p announces nothing that is still to be announced.
MayClose(s, p) == s.mode \in Lax \/ Has(s.notify, p) = 0

\* The transport closes p.
LEMMA CloseCore ==
  ASSUME NEW s, NEW t, NEW p, NEW n, Numbers(s, p), Numbers(t, p), n \in Nat,
         Core(s, p, n), TransportClosed(s, t, p), SameMode(s, t), MayClose(s, p),
         s.refs[p] > 0, s.mode = "again" \/ Has(s.closed, p) = 0
  PROVE  Core(t, p, n)
<1>1. Owned(t, p, n)
  <2>1. /\ s.refs[p] = Has(s.table, p) + Has(s.pending, p) + Has(s.held, p) + n
        /\ t.refs[p] = s.refs[p] - Has(s.table, p)
        /\ Has(t.table, p) = 0 /\ Has(t.pending, p) = Has(s.pending, p)
        /\ Has(t.held, p) = Has(s.held, p)
        /\ t.obj[p] = (IF t.refs[p] = 0 THEN "freed" ELSE "live")
    BY Zenon DEF Core, Owned, TransportClosed, CloseFrame
  <2> QED BY ONLY <2>1, Numbers(s, p), n \in Nat DEF Owned, Numbers
<1>2. Announced(t, p)
  <2>1. /\ Announced(s, p) /\ Has(t.table, p) = 0 /\ t.news[p] = s.news[p]
        /\ SamePlans(s, t, p) /\ t.closes[p] = s.closes[p] + Has(s.table, p)
    BY Zenon DEF Core, TransportClosed, CloseFrame
  <2> QED BY ONLY <2>1, Numbers(s, p) DEF Announced, Numbers, SamePlans
<1>3. Signalled(t, p)
  <2>1. /\ Signalled(s, p) /\ Announced(s, p) /\ Has(t.table, p) = 0 /\ Has(t.closed, p) = 1
        /\ SamePlans(s, t, p) /\ t.closes[p] = s.closes[p] + Has(s.table, p)
        /\ t.lasts[p] = s.lasts[p] + 1 /\ SameMode(s, t)
        /\ s.mode = "again" \/ Has(s.closed, p) = 0
    BY Zenon DEF Core, TransportClosed, CloseFrame
  <2> QED BY ONLY <2>1, Numbers(s, p) DEF Signalled, Announced, Numbers, SamePlans, SameMode
<1>4. Promised(t, p)
  <2>1. /\ Promised(s, p) /\ Has(t.table, p) = 0 /\ SamePlans(s, t, p) /\ SameMode(s, t)
        /\ MayClose(s, p)
    BY Zenon DEF Core, TransportClosed, CloseFrame
  <2> QED BY ONLY <2>1 DEF Promised, MayClose, SamePlans, SameMode
<1> QED BY <1>1, <1>2, <1>3, <1>4, Zenon DEF Core

\* The peer leaves the table and is closed.
LEMMA EndCore ==
  ASSUME NEW s, NEW t, NEW p, NEW n, Numbers(s, p), Numbers(t, p), n \in Nat,
         Core(s, p, n), Ended(s, t, p), SameMode(s, t), MayClose(s, p), Has(s.table, p) = 1
  PROVE  Core(t, p, n)
<1>1. Owned(t, p, n)
  <2>1. /\ s.refs[p] = Has(s.table, p) + Has(s.pending, p) + Has(s.held, p) + n
        /\ t.refs[p] = s.refs[p] - 1
        /\ Has(t.table, p) = 0 /\ Has(t.pending, p) = Has(s.pending, p)
        /\ Has(t.held, p) = Has(s.held, p)
        /\ t.obj[p] = (IF s.refs[p] = 1 THEN "freed" ELSE "live")
    BY Zenon DEF Core, Owned, Ended
  <2> QED BY ONLY <2>1, Numbers(s, p), n \in Nat, Has(s.table, p) = 1 DEF Owned, Numbers
<1>2. Announced(t, p)
  <2>1. /\ Announced(s, p) /\ Has(t.table, p) = 0 /\ t.news[p] = s.news[p]
        /\ SamePlans(s, t, p) /\ Has(s.table, p) = 1
    BY Zenon DEF Core, Ended
  <2> QED BY ONLY <2>1, Numbers(s, p) DEF Announced, Numbers, SamePlans
<1>3. Signalled(t, p)
  <2>1. /\ Signalled(s, p) /\ Has(t.table, p) = 0 /\ Has(t.closed, p) = 1
        /\ t.closes[p] = s.closes[p] + 1 /\ Has(s.table, p) = 1
        /\ t.lasts[p] = s.lasts[p] + (1 - Has(s.closed, p)) /\ SameMode(s, t)
    BY Zenon DEF Core, Ended
  <2> QED BY ONLY <2>1, Numbers(s, p) DEF Signalled, Numbers, SameMode
<1>4. Promised(t, p)
  <2>1. /\ Promised(s, p) /\ Has(t.table, p) = 0 /\ SamePlans(s, t, p) /\ SameMode(s, t)
        /\ MayClose(s, p)
    BY Zenon DEF Core, Ended
  <2> QED BY ONLY <2>1 DEF Promised, MayClose, SamePlans, SameMode
<1> QED BY <1>1, <1>2, <1>3, <1>4, Zenon DEF Core
-----------------------------------------------------------------------------
\* The cleanup.

\* The peers of the table are alive.
TableLives(s) == \A p \in Peer : Has(s.table, p) = 1 => s.refs[p] > 0 /\ s.obj[p] = "live"

\* A peer that stays, or one that is closed or idle and comes to its end.
Cleans(s, t, p) ==
  \/ SameView(s, t, p)
  \/ /\ Has(s.table, p) = 1 /\ (Has(s.closed, p) = 1 \/ Has(s.idle, p) = 1)
     /\ Ended(s, t, p)

Cleaned(s, t) ==
  /\ Typed(t) /\ SameMode(s, t) /\ t.sources = s.sources
  /\ \A p \in Peer : Cleans(s, t, p)

\* The clean-up does to every peer what it does to it alone.
LEMMA CleanStep ==
  ASSUME NEW s, Typed(s), TableLives(s)
  PROVE  Cleaned(s, evd_peer_manager_cleanup_peers(s))
<1> DEFINE dead == {p \in s.table : ~evd_peer_is_alive(s, p)}
           swept == [s EXCEPT !.elapsed = FALSE, !.table = s.table \ dead]
           After(p) == IF p \in dead THEN CloseRemoved(swept, p) ELSE swept
           O == [p \in Peer |-> After(p).obj[p]]
           R == [p \in Peer |-> After(p).refs[p]]
           C == [p \in Peer |-> After(p).closes[p]]
           L == [p \in Peer |-> After(p).lasts[p]]
           t == [swept EXCEPT !.closed = swept.closed \cup dead, !.obj = O, !.refs = R,
                              !.closes = C, !.lasts = L]
<1>1. CASE ~s.elapsed
  <2>1. evd_peer_manager_cleanup_peers(s) = s
    BY <1>1, Zenon DEF evd_peer_manager_cleanup_peers
  <2>2. \A p \in Peer : SameView(s, s, p)
    BY TurnsNot, Zenon
  <2> QED BY <2>1, <2>2, Zenon DEF Cleaned, Cleans, SameMode
<1>2. CASE s.elapsed
  <2>1. t = evd_peer_manager_cleanup_peers(s)
    BY <1>2, Zenon DEF evd_peer_manager_cleanup_peers
  <2>2. Shape(s) /\ Shape(swept) /\ Shape(t)
    BY ZenonT(40) DEF Typed, Shape
  <2>3. dead \subseteq s.table /\ \A p \in dead : p \in s.closed \/ p \in s.idle
    BY Zenon DEF evd_peer_is_alive
  <2> HIDE DEF dead
  <2>4. /\ swept.mode = s.mode /\ swept.obj = s.obj /\ swept.refs = s.refs
        /\ swept.closed = s.closed /\ swept.table = s.table \ dead
        /\ swept.pending = s.pending /\ swept.held = s.held /\ swept.notify = s.notify
        /\ swept.idle = s.idle /\ swept.elapsed = FALSE /\ swept.sources = s.sources
        /\ swept.misuse = s.misuse /\ swept.added = s.added /\ swept.news = s.news
        /\ swept.closes = s.closes /\ swept.lasts = s.lasts
    BY ONLY <2>2, ZenonT(40) DEF Shape, Fields
  <2> HIDE DEF swept
  <2>5. s.table \ dead \in SUBSET Peer /\ s.closed \cup dead \in SUBSET Peer
    BY <2>3, Zenon DEF Typed
  <2>6. Typed(swept)
    BY <2>2, <2>4, <2>5, Zenon DEF Typed
  <2>7. ASSUME NEW p \in dead
        PROVE  /\ p \in Peer /\ Has(s.table, p) = 1
               /\ Has(s.closed, p) = 1 \/ Has(s.idle, p) = 1
               /\ Typed(CloseRemoved(swept, p)) /\ Ended(swept, CloseRemoved(swept, p), p)
    <3>1. p \in Peer /\ p \in s.table /\ (p \in s.closed \/ p \in s.idle)
      BY <2>3, Zenon DEF Typed
    <3>2. Has(s.table, p) = 1 /\ (Has(s.closed, p) = 1 \/ Has(s.idle, p) = 1)
      BY <3>1, HasIs, Zenon
    <3>3. Has(swept.table, p) = 0
      BY <2>4, HasIs, Zenon
    <3>4. swept.refs[p] > 0 /\ swept.obj[p] = "live"
      BY <2>4, <3>1, <3>2, Zenon DEF TableLives
    <3> QED BY <2>6, <3>1, <3>2, <3>3, <3>4, CloseRemovedStep, Zenon DEF Turns
  <2>8. ASSUME NEW p \in Peer PROVE Typed(After(p))
    BY <2>6, <2>7, Zenon
  <2>9. ASSUME NEW p \in Peer
        PROVE  /\ After(p).obj[p] \in {"none", "live", "freed"} /\ After(p).refs[p] \in Int
               /\ After(p).closes[p] \in Int /\ After(p).lasts[p] \in Int
    <3> DEFINE x == After(p)
    <3>1. Typed(x)
      BY <2>8, Zenon
    <3> HIDE DEF x
    <3>2. /\ x.obj[p] \in {"none", "live", "freed"} /\ x.refs[p] \in Int
          /\ x.closes[p] \in Int /\ x.lasts[p] \in Int
      BY <3>1, ViewType, Zenon
    <3> QED BY <3>2, Zenon DEF x
  <2>10. /\ O \in [Peer -> {"none", "live", "freed"}] /\ R \in [Peer -> Int]
         /\ C \in [Peer -> Int] /\ L \in [Peer -> Int]
    <3> HIDE DEF After
    <3> QED BY <2>9, Zenon
  <2>11. \A p \in Peer : /\ O[p] = After(p).obj[p] /\ R[p] = After(p).refs[p]
                         /\ C[p] = After(p).closes[p] /\ L[p] = After(p).lasts[p]
    <3> HIDE DEF After
    <3> QED BY Zenon
  <2> HIDE DEF O, R, C, L
  <2>12. /\ t.mode = swept.mode /\ t.obj = O /\ t.refs = R /\ t.closed = swept.closed \cup dead
         /\ t.table = swept.table /\ t.pending = swept.pending /\ t.held = swept.held
         /\ t.notify = swept.notify /\ t.idle = swept.idle /\ t.elapsed = swept.elapsed
         /\ t.sources = swept.sources /\ t.misuse = swept.misuse /\ t.added = swept.added
         /\ t.news = swept.news /\ t.closes = C /\ t.lasts = L
    BY ONLY <2>2 DEF Shape, Fields
  <2> HIDE DEF t
  <2>13. Typed(t)
    BY <2>2, <2>4, <2>5, <2>6, <2>10, <2>12, Zenon DEF Typed
  <2>14. SameMode(s, t) /\ t.sources = s.sources
    BY <2>4, <2>12, Zenon DEF SameMode
  <2>15. ASSUME NEW p \in Peer PROVE Cleans(s, t, p)
    <3>1. /\ t.obj[p] = After(p).obj[p] /\ t.refs[p] = After(p).refs[p]
          /\ t.closes[p] = After(p).closes[p] /\ t.lasts[p] = After(p).lasts[p]
          /\ t.news = s.news /\ t.pending = s.pending /\ t.held = s.held
          /\ t.notify = s.notify /\ t.idle = s.idle /\ t.added = s.added
          /\ t.closed = s.closed \cup dead /\ t.table = s.table \ dead
      BY <2>4, <2>11, <2>12, Zenon
    <3>2. CASE p \notin dead
      <4>1. After(p) = swept
        BY <3>2, Zenon
      <4> HIDE DEF After
      <4>2. /\ t.obj[p] = s.obj[p] /\ t.refs[p] = s.refs[p]
            /\ t.closes[p] = s.closes[p] /\ t.lasts[p] = s.lasts[p]
        BY <2>4, <3>1, <4>1, Zenon
      <4>3. (p \in t.closed <=> p \in s.closed) /\ (p \in t.table <=> p \in s.table)
        BY <3>1, <3>2, Zenon
      <4>4. Has(t.closed, p) = Has(s.closed, p) /\ Has(t.table, p) = Has(s.table, p)
        BY <4>3, HasIs, Zenon
      <4> QED BY <3>1, <4>2, <4>4, Zenon
              DEF Cleans, SameView, SameRefs, SameCounts, SameOwners, SamePlans
    <3>3. CASE p \in dead
      <4> DEFINE x == CloseRemoved(swept, p)
      <4>1. After(p) = x
        BY <3>3, Zenon
      <4>2. /\ Has(s.table, p) = 1 /\ (Has(s.closed, p) = 1 \/ Has(s.idle, p) = 1)
            /\ Ended(swept, x, p)
        BY <2>7, <3>3, Zenon
      <4> HIDE DEF After, x
      <4>3. p \in t.closed /\ p \notin t.table
        BY <3>1, <3>3, Zenon
      <4>4. Has(t.closed, p) = 1 /\ Has(t.table, p) = 0
        BY <4>3, HasIs, Zenon
      <4>5. /\ x.closes[p] = s.closes[p] + 1
            /\ x.lasts[p] = s.lasts[p] + (1 - Has(s.closed, p))
            /\ x.refs[p] = s.refs[p] - 1
            /\ x.obj[p] = (IF s.refs[p] = 1 THEN "freed" ELSE "live")
        BY <2>4, <4>2, Zenon DEF Ended
      <4>6. Ended(s, t, p)
        BY <3>1, <4>1, <4>4, <4>5, Zenon DEF Ended, SamePlans
      <4> QED BY <4>2, <4>6, Zenon DEF Cleans
    <3> QED BY <3>2, <3>3, Zenon
  <2> QED BY <2>1, <2>13, <2>14, <2>15, Zenon DEF Cleaned
<1> QED BY <1>1, <1>2, Zenon
-----------------------------------------------------------------------------
\* The functions keep the invariant.

\* A peer that someone owns is live, and counted.
LEMMA LivesOf ==
  ASSUME NEW s, NEW p, NEW n, Numbers(s, p), n \in Nat, Core(s, p, n),
         Has(s.table, p) = 1 \/ Has(s.pending, p) = 1 \/ Has(s.held, p) = 1 \/ n > 0
  PROVE  s.refs[p] > 0 /\ s.obj[p] = "live"
<1>1. Owned(s, p, n)
  BY Zenon DEF Core
<1>2. s.refs[p] > 0
  BY <1>1 DEF Owned, Numbers
<1> QED BY <1>1, <1>2, Zenon DEF Owned

\* The invariant of the peer that the function is at, or of another one.
At(q, p, n) == IF q = p THEN n ELSE 0

\* What holds of any peer in the middle of a handler of p.
LEMMA MidAt ==
  ASSUME NEW s, NEW p, NEW n, Mid(s, p, n), NEW q \in Peer
  PROVE  /\ At(q, p, n) \in Nat /\ Core(s, q, At(q, p, n)) /\ Numbers(s, q)
         /\ q # p => Waits(s, q)
<1>1. Numbers(s, q)
  BY NumbersOf, Zenon DEF Mid
<1>2. CASE q = p
  BY <1>1, <1>2, Zenon DEF Mid, At
<1>3. CASE q # p
  <2>1. At(q, p, n) = 0 /\ 0 \in Nat
    BY <1>3 DEF At
  <2> QED BY <1>1, <1>3, <2>1, Zenon DEF Mid
<1> QED BY <1>2, <1>3, Zenon

\* The clean-up keeps the invariant of each peer...
LEMMA CleanCore ==
  ASSUME NEW s, NEW t, NEW p, NEW n, Numbers(s, p), Numbers(t, p), n \in Nat,
         Core(s, p, n), Cleans(s, t, p), SameMode(s, t)
  PROVE  /\ Core(t, p, n) /\ (Waits(s, p) => Waits(t, p))
         /\ Has(t.pending, p) = Has(s.pending, p) /\ Has(t.held, p) = Has(s.held, p)
<1>1. CASE SameView(s, t, p)
  BY <1>1, CoreSame, Zenon DEF SameView, SameOwners
<1>2. CASE ~SameView(s, t, p)
  <2>1. /\ Has(s.table, p) = 1 /\ (Has(s.closed, p) = 1 \/ Has(s.idle, p) = 1)
        /\ Ended(s, t, p)
    BY <1>2, Zenon DEF Cleans
  <2>2. MayClose(s, p)
    <3>1. Promised(s, p)
      BY Zenon DEF Core
    <3> QED BY <2>1, <3>1 DEF Promised, MayClose, Numbers, Lax
  <2>3. Core(t, p, n)
    BY <2>1, <2>2, EndCore, Zenon
  <2>4. Has(t.pending, p) = Has(s.pending, p) /\ Has(t.held, p) = Has(s.held, p)
    BY <2>1, Zenon DEF Ended
  <2>5. Waits(s, p) => Has(s.pending, p) # 1
    <3>1. Has(s.added, p) = 1
      BY <2>1, Zenon DEF Core, Announced
    <3>2. 1 # 0
      OBVIOUS
    <3> QED BY <3>1, <3>2, Zenon DEF Waits, Fresh
  <2>6. Waits(s, p) => Waits(t, p)
    BY <2>4, <2>5, Zenon DEF Waits
  <2> QED BY <2>3, <2>4, <2>6, Zenon
<1> QED BY <1>1, <1>2, Zenon

\* ...and so it may run in the middle of any handler.
LEMMA CleanMid ==
  ASSUME NEW s, NEW p, NEW n, Mid(s, p, n)
  PROVE  LET t == evd_peer_manager_cleanup_peers(s)
         IN  /\ Mid(t, p, n) /\ t.mode = s.mode /\ (Waits(s, p) => Waits(t, p))
             /\ Has(t.pending, p) = Has(s.pending, p) /\ Has(t.held, p) = Has(s.held, p)
<1> DEFINE t == evd_peer_manager_cleanup_peers(s)
<1>1. TableLives(s)
  <2>1. ASSUME NEW q \in Peer, Has(s.table, q) = 1 PROVE s.refs[q] > 0 /\ s.obj[q] = "live"
    BY <2>1, MidAt, LivesOf, Zenon
  <2> QED BY <2>1, Zenon DEF TableLives
<1>2. Cleaned(s, t)
  BY <1>1, CleanStep, Zenon DEF Mid
<1> HIDE DEF t
<1>3. ASSUME NEW q \in Peer
      PROVE  /\ Core(t, q, At(q, p, n)) /\ (Waits(s, q) => Waits(t, q))
             /\ Has(t.pending, q) = Has(s.pending, q) /\ Has(t.held, q) = Has(s.held, q)
  <2>1. Numbers(t, q) /\ Cleans(s, t, q) /\ SameMode(s, t)
    BY <1>2, NumbersOf, Zenon DEF Cleaned
  <2>2. At(q, p, n) \in Nat /\ Core(s, q, At(q, p, n)) /\ Numbers(s, q)
    BY MidAt, Zenon
  <2> QED BY <2>1, <2>2, CleanCore, Zenon
<1>4. p \in Peer /\ n \in Nat /\ At(p, p, n) = n
  BY Zenon DEF Mid, At
<1>5. ASSUME NEW q \in Peer, q # p PROVE Core(t, q, 0) /\ Waits(t, q)
  <2>1. At(q, p, n) = 0
    BY <1>5, Zenon DEF At
  <2> QED BY <1>3, <1>5, <2>1, Zenon DEF Mid
<1>6. Mid(t, p, n)
  <2>1. Core(t, p, n)
    BY <1>3, <1>4, Zenon
  <2> QED BY <1>2, <1>4, <1>5, <2>1, Zenon DEF Mid, Cleaned
<1> QED BY <1>2, <1>3, <1>4, <1>6, Zenon DEF Cleaned, SameMode, t

\* The transport closes p, or the peer itself.
LEMMA TransportCloseMid ==
  ASSUME NEW s, NEW p, NEW n, Mid(s, p, n), MayClose(s, p), s.refs[p] > 0,
         s.mode = "again" \/ Has(s.closed, p) = 0
  PROVE  LET t == evd_transport_close_peer(s, p) IN Mid(t, p, n) /\ CloseFrame(s, t, p)
<1> DEFINE t == evd_transport_close_peer(s, p)
<1>1. Typed(s) /\ p \in Peer /\ n \in Nat /\ Core(s, p, n)
  BY Zenon DEF Mid
<1>2. s.obj[p] = "live"
  BY <1>1, Zenon DEF Core, Owned
<1>3. TransportClosed(s, t, p)
  BY <1>1, <1>2, TransportCloseStep, Zenon
<1> HIDE DEF t
<1>4. Turns(s, t, p) /\ CloseFrame(s, t, p)
  BY <1>3, Zenon DEF TransportClosed, CloseFrame
<1>5. SameMode(s, t) /\ Typed(t)
  BY <1>4, Zenon DEF Turns, SameRest, SameMode
<1>6. Numbers(s, p) /\ Numbers(t, p)
  BY <1>1, <1>5, NumbersOf, Zenon
<1>7. Core(t, p, n)
  BY <1>1, <1>3, <1>5, <1>6, CloseCore, Zenon
<1> QED BY <1>1, <1>4, <1>7, MidTurn, Zenon DEF t

\* evd_peer_close may run in the middle of a handler that owns the peer.
LEMMA PeerCloseMid ==
  ASSUME NEW s, NEW p, NEW n, Mid(s, p, n), MayClose(s, p), s.refs[p] > 0
  PROVE  LET t == PeerClose(s, p) IN Mid(t, p, n) /\ CloseFrame(s, t, p)
<1> DEFINE t == PeerClose(s, p)
<1>1. Typed(s) /\ p \in Peer /\ n \in Nat /\ Core(s, p, n)
  BY Zenon DEF Mid
<1>2. s.obj[p] = "live"
  BY <1>1, Zenon DEF Core, Owned
<1>3. PeerCloses(s, t, p)
  BY <1>1, <1>2, PeerCloseStep, Zenon
<1> HIDE DEF t
<1>4. CASE Has(s.closed, p) = 1
  <2>1. t = s
    BY <1>3, <1>4, Zenon DEF PeerCloses
  <2>2. CloseFrame(s, s, p)
    BY <1>1, TurnsNot, FrameOf, Zenon DEF SameView, SameOwners
  <2> QED BY <2>1, <2>2, Zenon DEF t
<1>5. CASE Has(s.closed, p) # 1
  <2>1. TransportClosed(s, t, p)
    BY <1>3, <1>5, Zenon DEF PeerCloses
  <2>2. Turns(s, t, p) /\ CloseFrame(s, t, p)
    BY <2>1, Zenon DEF TransportClosed, CloseFrame
  <2>3. SameMode(s, t) /\ Typed(t)
    BY <2>2, Zenon DEF Turns, SameRest, SameMode
  <2>4. Numbers(s, p) /\ Numbers(t, p)
    BY <1>1, <2>3, NumbersOf, Zenon
  <2>5. Has(s.closed, p) = 0
    BY <1>5, <2>4 DEF Numbers
  <2>6. Core(t, p, n)
    BY <1>1, <2>1, <2>3, <2>4, <2>5, CloseCore, Zenon
  <2> QED BY <1>1, <2>2, <2>6, MidTurn, Zenon DEF t
<1> QED BY <1>4, <1>5, Zenon

\* Closing one that awaits its answer happens in early closes alone.
LEMMA WaitsClosed ==
  ASSUME NEW s, NEW t, NEW p, CloseFrame(s, t, p), Waits(s, p),
         Has(s.pending, p) = 0 \/ s.mode = "early"
  PROVE  Waits(t, p)
<1>1. /\ t.mode = s.mode /\ Has(t.pending, p) = Has(s.pending, p)
      /\ Has(t.idle, p) = Has(s.idle, p) /\ Has(t.added, p) = Has(s.added, p)
  BY Zenon DEF CloseFrame, Turns, SameRest, SamePlans
<1>2. 0 # 1
  OBVIOUS
<1> QED BY <1>1, <1>2, Zenon DEF Waits, Fresh

\* A freed peer has been used.
Misuses(s, t) ==
  /\ Typed(t) /\ t.mode = s.mode /\ t.sources = s.sources /\ t.misuse = TRUE
  /\ \A p \in Peer : SameView(s, t, p)

\* A misuse is noted and nothing else.
LEMMA MisuseStep ==
  ASSUME NEW s, Typed(s)
  PROVE  Misuses(s, [s EXCEPT !.misuse = TRUE])
<1> DEFINE t == [s EXCEPT !.misuse = TRUE]
<1>1. Shape(s) /\ Shape(t)
  BY Zenon DEF Typed, Shape
<1>2. /\ t.mode = s.mode /\ t.obj = s.obj /\ t.refs = s.refs /\ t.closed = s.closed
      /\ t.table = s.table /\ t.pending = s.pending /\ t.held = s.held
      /\ t.notify = s.notify /\ t.idle = s.idle /\ t.elapsed = s.elapsed
      /\ t.sources = s.sources /\ t.misuse = TRUE /\ t.added = s.added
      /\ t.news = s.news /\ t.closes = s.closes /\ t.lasts = s.lasts
  BY ONLY <1>1 DEF Shape, Fields
<1> HIDE DEF t
<1>3. Typed(t)
  BY <1>1, <1>2, Zenon DEF Typed
<1>4. \A p \in Peer : SameView(s, t, p)
  BY ONLY <1>2, Zenon DEF SameView, SameRefs, SameCounts, SameOwners, SamePlans
<1> QED BY <1>2, <1>3, <1>4, Zenon DEF Misuses, t

\* Using a peer is a misuse only if it was freed.
LEMMA UseStep ==
  ASSUME NEW s, NEW p, Typed(s)
  PROVE  /\ s.obj[p] = "freed" => Misuses(s, Use(s, p))
         /\ s.obj[p] # "freed" => Use(s, p) = s
<1>1. ASSUME s.obj[p] = "freed" PROVE Misuses(s, Use(s, p))
  <2>1. (s.misuse \/ s.obj[p] = "freed") = TRUE
    BY <1>1
  <2>2. Use(s, p) = [s EXCEPT !.misuse = TRUE]
    BY <2>1, Zenon DEF Use
  <2> QED BY <2>2, MisuseStep, Zenon
<1>2. ASSUME s.obj[p] # "freed" PROVE Use(s, p) = s
  <2>1. s.misuse \in BOOLEAN /\ Shape(s)
    BY Zenon DEF Typed
  <2>2. (s.misuse \/ s.obj[p] = "freed") = s.misuse
    BY <1>2, <2>1
  <2>3. Use(s, p) = [s EXCEPT !.misuse = s.misuse]
    BY <2>2, Zenon DEF Use
  <2>4. [s EXCEPT !.misuse = s.misuse] = s
    BY ONLY <2>1, Zenon DEF Shape
  <2> QED BY <2>3, <2>4, Zenon
<1> QED BY <1>1, <1>2, Zenon

\* Where nothing is promised, a misuse breaks nothing.
Unpromised(s, t) ==
  s.mode \in Lax /\ t.mode = s.mode /\ t.misuse = TRUE

\* A noted misuse leaves the rest of the invariant alone.
LEMMA CoreMisused ==
  ASSUME NEW s, NEW t, NEW p, NEW n, Core(s, p, n), SameView(s, t, p), Unpromised(s, t)
  PROVE  Core(t, p, n) /\ (Waits(s, p) => Waits(t, p))
<1>1. Owned(t, p, n)
  BY Zenon DEF Core, Owned, SameView, SameRefs, SameOwners, SamePlans
<1>2. Announced(t, p)
  BY Zenon DEF Core, Announced, SameView, SameCounts, SameOwners, SamePlans
<1>3. Signalled(t, p)
  BY Zenon DEF Core, Signalled, SameView, SameCounts, SameOwners, SamePlans, Unpromised
<1>4. Promised(t, p)
  BY Zenon DEF Core, Promised, SameView, SameOwners, SamePlans, Unpromised
<1>5. Waits(s, p) => Waits(t, p)
  BY Zenon DEF Waits, Fresh, SameView, SameOwners, SamePlans, Unpromised
<1> QED BY <1>1, <1>2, <1>3, <1>4, <1>5, Zenon DEF Core

\* The table drops the peer and no more is done.
LEMMA DropCore ==
  ASSUME NEW s, NEW a, NEW t, NEW p, NEW n, Numbers(s, p), n \in Nat, Core(s, p, n),
         Removed(s, a, p), SameView(a, t, p), Unpromised(s, t), Has(s.table, p) = 1
  PROVE  Core(t, p, n)
<1>0. /\ t.refs[p] = a.refs[p] /\ t.obj[p] = a.obj[p] /\ SameCounts(s, t, p)
      /\ Has(t.closed, p) = Has(s.closed, p) /\ Has(t.table, p) = 0
      /\ Has(t.pending, p) = Has(s.pending, p) /\ Has(t.held, p) = Has(s.held, p)
      /\ SamePlans(s, t, p)
  BY Zenon DEF Removed, SameView, SameRefs, SameCounts, SameOwners, SamePlans
<1>1. Owned(t, p, n)
  <2>1. /\ s.refs[p] = Has(s.table, p) + Has(s.pending, p) + Has(s.held, p) + n
        /\ t.refs[p] = s.refs[p] - 1 /\ (s.refs[p] > 0 <=> s.obj[p] = "live")
        /\ t.obj[p] = (IF s.refs[p] = 1 THEN "freed" ELSE s.obj[p])
    BY <1>0, Zenon DEF Core, Owned, Removed
  <2> QED BY ONLY <1>0, <2>1, Numbers(s, p), n \in Nat, Has(s.table, p) = 1
          DEF Owned, Numbers
<1>2. Announced(t, p)
  <2>1. Announced(s, p)
    BY Zenon DEF Core
  <2>2. 0 # 1
    OBVIOUS
  <2> QED BY <1>0, <2>1, <2>2, Zenon DEF Announced, SameCounts, SamePlans
<1>3. Signalled(t, p)
  <2>1. Signalled(s, p)
    BY Zenon DEF Core
  <2>2. 0 # 1
    OBVIOUS
  <2> QED BY <1>0, <2>1, <2>2, Zenon DEF Signalled, SameCounts, Unpromised
<1>4. Promised(t, p)
  <2>1. 0 # 1
    OBVIOUS
  <2> QED BY <1>0, <2>1, Zenon DEF Promised, Unpromised
<1> QED BY <1>1, <1>2, <1>3, <1>4, Zenon DEF Core

\* evd_peer_manager_close_peer, called by an application that has a reference
\* or goes without.
LEMMA ManagerCloseMid ==
  ASSUME NEW s, NEW p, Mid(s, p, 0), MayClose(s, p),
         Has(s.held, p) = 1 \/ s.mode \in {"early", "borrow"}
  PROVE  LET t == evd_peer_manager_close_peer(s, p)
         IN  /\ Mid(t, p, 0) /\ t.mode = s.mode /\ SamePlans(s, t, p)
             /\ Has(t.pending, p) = Has(s.pending, p)
<1> DEFINE t == evd_peer_manager_close_peer(s, p)
           a == TableRemove(s, p)
           b == Use(a, p)
<1>0. Typed(s) /\ p \in Peer /\ Core(s, p, 0) /\ Numbers(s, p) /\ 0 \in Nat
  BY NumbersOf, Zenon DEF Mid
<1>1. CASE p \notin s.table
  <2>1. t = s
    BY <1>1, Zenon DEF evd_peer_manager_close_peer
  <2> QED BY <2>1, Zenon DEF SamePlans
<1>2. CASE p \in s.table
  <2>1. t = (IF b.misuse THEN b ELSE close_peer_internal(b, p)) /\ Has(s.table, p) = 1
    BY <1>2, HasIs, Zenon DEF evd_peer_manager_close_peer
  <2>2. Removed(s, a, p)
    BY <1>0, RemoveStep, Zenon
  <2>3. Typed(a) /\ a.mode = s.mode /\ a.misuse = s.misuse /\ a.sources = s.sources
    BY <2>2, Zenon DEF Removed, Turns, SameRest
  <2>4. a.obj[p] = "freed" => Misuses(a, b)
    BY <2>3, UseStep, Zenon
  <2>5. a.obj[p] # "freed" => b = a
    BY <2>3, UseStep, Zenon
  <2>6. s.refs[p] > 0 /\ s.obj[p] = "live"
    BY <1>0, <2>1, LivesOf, Zenon
  <2> HIDE DEF a, b, t
  <2>7. CASE b.misuse
    <3>1. Typed(b) /\ SameView(a, b, p) /\ b.mode = s.mode /\ b.sources = s.sources
      BY <1>0, <2>3, <2>4, <2>5, TurnsNot, Zenon DEF Misuses
    <3>2. b.misuse = TRUE
      BY <2>7, <3>1, Zenon DEF Typed
    <3>3. s.mode \in Lax
      <4>1. CASE a.obj[p] = "freed"
        <5>1. s.refs[p] = 1
          BY <2>2, <2>6, <4>1 DEF Removed
        <5>2. Owned(s, p, 0)
          BY <1>0, Zenon DEF Core
        <5>3. Has(s.held, p) # 1
          BY <1>0, <2>1, <5>1, <5>2 DEF Owned, Numbers
        <5> QED BY <5>3, Zenon DEF Lax
      <4>2. CASE a.obj[p] # "freed"
        <5>1. s.misuse
          BY <2>3, <2>5, <2>7, <4>2, Zenon
        <5> QED BY <1>0, <5>1, Zenon DEF Core, Promised
      <4> QED BY <4>1, <4>2, Zenon
    <3>4. Unpromised(s, b)
      BY <3>1, <3>2, <3>3, Zenon DEF Unpromised
    <3>5. Core(b, p, 0)
      BY <1>0, <2>1, <2>2, <3>1, <3>4, DropCore, Zenon
    <3>6. ASSUME NEW q \in Peer, q # p PROVE Core(b, q, 0) /\ Waits(b, q)
      <4>1. SameView(s, a, q) /\ SameView(a, b, q)
        BY <2>2, <2>3, <2>4, <2>5, <3>6, TurnsNot, Zenon DEF Removed, Turns, Misuses
      <4>2. SameView(s, b, q)
        BY <4>1, Zenon DEF SameView, SameRefs, SameCounts, SameOwners, SamePlans
      <4>3. Core(s, q, 0) /\ Waits(s, q)
        BY <3>6, Zenon DEF Mid
      <4> QED BY <3>4, <4>2, <4>3, CoreMisused, Zenon
    <3>7. Mid(b, p, 0)
      BY <1>0, <3>1, <3>5, <3>6, Zenon DEF Mid
    <3>8. SamePlans(s, b, p) /\ Has(b.pending, p) = Has(s.pending, p)
      BY <2>2, <3>1, Zenon DEF Removed, SameView, SameOwners, SamePlans
    <3> QED BY <2>1, <2>7, <3>1, <3>7, <3>8, Zenon DEF t
  <2>8. CASE ~b.misuse
    <3>1. a.obj[p] # "freed" /\ b = a
      BY <2>4, <2>5, <2>8, Zenon DEF Misuses
    <3>2. t = close_peer_internal(a, p)
      BY <2>1, <2>8, <3>1, Zenon
    <3>3. s.refs[p] # 1 /\ a.obj[p] = "live" /\ a.refs[p] = s.refs[p] - 1
      BY <2>2, <2>6, <3>1, Zenon DEF Removed
    <3>4. a.refs[p] > 0 /\ Has(a.table, p) = 0
      <4>1. Has(a.table, p) = 0
        BY <2>2, Zenon DEF Removed
      <4>2. s.refs[p] \in Int
        BY <1>0, Zenon DEF Numbers
      <4> QED BY <2>6, <3>3, <4>1, <4>2
    <3>5. InternalClosed(a, t, p)
      BY <1>0, <2>3, <3>2, <3>3, <3>4, InternalStep, Zenon
    <3>6. CloseFrame(s, a, p)
      BY <2>2, FrameOf, Zenon DEF Removed
    <3>7. CloseFrame(s, t, p) /\ Turns(s, t, p)
      BY <3>5, <3>6, FrameTwice, Zenon DEF InternalClosed, CloseFrame
    <3>8. Typed(t) /\ SameMode(s, t)
      BY <3>7, Zenon DEF Turns, SameRest, SameMode
    <3>9. Ended(s, t, p)
      BY <2>2, <3>3, <3>5, <3>7, Zenon
         DEF Ended, InternalClosed, CloseFrame, Removed, SameCounts
    <3>10. Numbers(t, p)
      BY <1>0, <3>8, NumbersOf, Zenon
    <3>11. Core(t, p, 0)
      BY <1>0, <2>1, <3>8, <3>9, <3>10, EndCore, Zenon
    <3>12. Mid(t, p, 0)
      BY <1>0, <3>7, <3>11, MidTurn, Zenon
    <3> QED BY <3>7, <3>8, <3>12, Zenon DEF CloseFrame, SameMode, t
  <2> QED BY <2>7, <2>8, Zenon
<1> QED BY <1>1, <1>2, Zenon
-----------------------------------------------------------------------------
\* References and owners come and go.

\* A handler that takes a reference has one more to drop.
LEMMA RefMid ==
  ASSUME NEW s, NEW p, NEW n, Mid(s, p, n), s.obj[p] = "live"
  PROVE  LET t == g_object_ref(s, p)
         IN  /\ Mid(t, p, n + 1) /\ t.mode = s.mode /\ t.obj[p] = "live"
             /\ SameCounts(s, t, p) /\ SameOwners(s, t, p) /\ SamePlans(s, t, p)
<1> DEFINE t == g_object_ref(s, p)
<1>0. Typed(s) /\ p \in Peer /\ n \in Nat /\ Core(s, p, n) /\ Numbers(s, p)
  BY NumbersOf, Zenon DEF Mid
<1>1. /\ Turns(s, t, p) /\ t.obj[p] = s.obj[p] /\ t.refs[p] = s.refs[p] + 1
      /\ SameCounts(s, t, p) /\ SameOwners(s, t, p) /\ SamePlans(s, t, p)
  BY <1>0, RefStep, Zenon
<1> HIDE DEF t
<1>2. t.mode = s.mode /\ t.misuse = s.misuse
  BY <1>1, Zenon DEF Turns, SameRest
<1>3. Owned(t, p, n + 1)
  <2>1. Owned(s, p, n)
    BY <1>0, Zenon DEF Core
  <2> QED BY <1>0, <1>1, <2>1 DEF Owned, Numbers, SameOwners, SamePlans
<1>4. Announced(t, p) /\ Signalled(t, p) /\ Promised(t, p)
  BY <1>0, <1>1, <1>2, Zenon
     DEF Core, Announced, Signalled, Promised, SameCounts, SameOwners, SamePlans
<1>5. Core(t, p, n + 1) /\ n + 1 \in Nat
  BY <1>0, <1>3, <1>4 DEF Core
<1>6. Mid(t, p, n + 1)
  BY <1>1, <1>5, MidTurn, Zenon
<1> QED BY <1>1, <1>2, <1>6, Zenon DEF t

\* A handler that drops its reference has one less to drop.
LEMMA UnrefMid ==
  ASSUME NEW s, NEW p, NEW n \in Nat, Mid(s, p, n + 1)
  PROVE  LET t == g_object_unref(s, p)
         IN  /\ Mid(t, p, n) /\ t.mode = s.mode
             /\ SameOwners(s, t, p) /\ SamePlans(s, t, p)
<1> DEFINE t == g_object_unref(s, p)
<1>0. Typed(s) /\ p \in Peer /\ Core(s, p, n + 1) /\ Numbers(s, p) /\ n + 1 \in Nat /\ n + 1 > 0
  <2>1. Typed(s) /\ p \in Peer /\ Core(s, p, n + 1) /\ Numbers(s, p)
    BY NumbersOf, Zenon DEF Mid
  <2> QED BY <2>1
<1>1. Unreffed(s, t, p)
  BY <1>0, UnrefStep, Zenon
<1>2. s.refs[p] > 0 /\ s.obj[p] = "live"
  BY <1>0, LivesOf, Zenon
<1> HIDE DEF t
<1>3. /\ Turns(s, t, p) /\ t.refs[p] = s.refs[p] - 1 /\ SameCounts(s, t, p)
      /\ t.obj[p] = (IF s.refs[p] = 1 THEN "freed" ELSE "live")
      /\ SameOwners(s, t, p) /\ SamePlans(s, t, p)
  BY <1>1, <1>2, Zenon DEF Unreffed
<1>4. t.mode = s.mode /\ t.misuse = s.misuse
  BY <1>3, Zenon DEF Turns, SameRest
<1>5. Owned(t, p, n)
  <2>1. Owned(s, p, n + 1)
    BY <1>0, Zenon DEF Core
  <2> QED BY <1>0, <1>2, <1>3, <2>1 DEF Owned, Numbers, SameOwners, SamePlans
<1>6. Announced(t, p) /\ Signalled(t, p) /\ Promised(t, p)
  BY <1>0, <1>3, <1>4, Zenon
     DEF Core, Announced, Signalled, Promised, SameCounts, SameOwners, SamePlans
<1>7. Core(t, p, n)
  BY <1>5, <1>6, Zenon DEF Core
<1>8. Mid(t, p, n)
  BY <1>3, <1>7, MidTurn, Zenon
<1> QED BY <1>3, <1>4, <1>8, Zenon DEF t

\* A reference passes between the function, the handshake and the application.
Passes(s, t, p, n, k, w, h) ==
  /\ Mid(s, p, n) /\ SetsOwners(s, t, p, Has(s.closed, p), Has(s.table, p), w, h)
  /\ k \in Nat /\ w + h + k = Has(s.pending, p) + Has(s.held, p) + n

Passed(s, t, p, k, w, h) ==
  /\ Mid(t, p, k) /\ t.mode = s.mode /\ SamePlans(s, t, p)
  /\ Has(t.pending, p) = w /\ Has(t.held, p) = h /\ Has(t.closed, p) = Has(s.closed, p)

\* References may move between the handler, the pending set and the
\* application.
LEMMA PassMid ==
  ASSUME NEW s, NEW t, NEW p, NEW n, NEW k, NEW w, NEW h, Passes(s, t, p, n, k, w, h)
  PROVE  Passed(s, t, p, k, w, h)
<1>0. Typed(s) /\ p \in Peer /\ n \in Nat /\ Core(s, p, n) /\ Numbers(s, p) /\ Mid(s, p, n)
  BY NumbersOf, Zenon DEF Mid, Passes
<1>1. OwnersSet(s, t, p, Has(s.closed, p), Has(s.table, p), w, h)
  BY SetOwners, Zenon DEF Passes
<1>2. /\ Turns(s, t, p) /\ Has(t.closed, p) = Has(s.closed, p)
      /\ Has(t.table, p) = Has(s.table, p) /\ Has(t.pending, p) = w /\ Has(t.held, p) = h
      /\ SameRefs(s, t, p) /\ SameCounts(s, t, p) /\ SamePlans(s, t, p)
  BY <1>1, Zenon DEF OwnersSet
<1>3. t.mode = s.mode /\ t.misuse = s.misuse
  BY <1>2, Zenon DEF Turns, SameRest
<1>4. Owned(t, p, k)
  <2>1. Owned(s, p, n)
    BY <1>0, Zenon DEF Core
  <2>2. w \in 0..1 /\ h \in 0..1 /\ k \in Nat /\ w + h + k = Has(s.pending, p) + Has(s.held, p) + n
    BY Zenon DEF Passes, SetsOwners
  <2> QED BY ONLY <1>0, <1>2, <2>1, <2>2 DEF Owned, Numbers, SameRefs, SamePlans
<1>5. Announced(t, p) /\ Signalled(t, p) /\ Promised(t, p)
  BY <1>0, <1>2, <1>3, Zenon
     DEF Core, Announced, Signalled, Promised, SameCounts, SamePlans
<1>6. Core(t, p, k) /\ k \in Nat
  BY <1>4, <1>5, Zenon DEF Core, Passes
<1>7. Mid(t, p, k)
  BY <1>0, <1>2, <1>6, MidTurn, Zenon
<1> QED BY <1>2, <1>3, <1>7, Zenon DEF Passed

\* What belongs to no peer changes.
RestSet(s, t, k) ==
  /\ Typed(t) /\ SameMode(s, t) /\ t.sources = k /\ \A p \in Peer : SameView(s, t, p)

\* What belongs to no peer, changed.
LEMMA RestStep ==
  ASSUME NEW s, NEW k \in Int, NEW e \in BOOLEAN, Typed(s)
  PROVE  /\ RestSet(s, [s EXCEPT !.sources = k], k)
         /\ RestSet(s, [s EXCEPT !.elapsed = e], s.sources)
<1> DEFINE t == [s EXCEPT !.sources = k]
           u == [s EXCEPT !.elapsed = e]
<1>1. Shape(s) /\ Shape(t) /\ Shape(u)
  BY Zenon DEF Typed, Shape
<1>2. /\ t.mode = s.mode /\ t.obj = s.obj /\ t.refs = s.refs /\ t.closed = s.closed
      /\ t.table = s.table /\ t.pending = s.pending /\ t.held = s.held
      /\ t.notify = s.notify /\ t.idle = s.idle /\ t.elapsed = s.elapsed
      /\ t.sources = k /\ t.misuse = s.misuse /\ t.added = s.added
      /\ t.news = s.news /\ t.closes = s.closes /\ t.lasts = s.lasts
  BY ONLY <1>1 DEF Shape, Fields
<1>3. /\ u.mode = s.mode /\ u.obj = s.obj /\ u.refs = s.refs /\ u.closed = s.closed
      /\ u.table = s.table /\ u.pending = s.pending /\ u.held = s.held
      /\ u.notify = s.notify /\ u.idle = s.idle /\ u.elapsed = e
      /\ u.sources = s.sources /\ u.misuse = s.misuse /\ u.added = s.added
      /\ u.news = s.news /\ u.closes = s.closes /\ u.lasts = s.lasts
  BY ONLY <1>1 DEF Shape, Fields
<1> HIDE DEF t, u
<1>4. Typed(t) /\ Typed(u)
  BY <1>1, <1>2, <1>3, Zenon DEF Typed
<1>5. \A p \in Peer : SameView(s, t, p)
  BY ONLY <1>2, Zenon DEF SameView, SameRefs, SameCounts, SameOwners, SamePlans
<1>6. \A p \in Peer : SameView(s, u, p)
  BY ONLY <1>3, Zenon DEF SameView, SameRefs, SameCounts, SameOwners, SamePlans
<1> QED BY <1>2, <1>3, <1>4, <1>5, <1>6, Zenon DEF RestSet, SameMode, t, u

\* The sources and the clock are in no peer's invariant.
LEMMA RestMid ==
  ASSUME NEW s, NEW t, NEW p, NEW n, NEW k \in 0..MaxSources, RestSet(s, t, k), Mid(s, p, n)
  PROVE  Mid(t, p, n) /\ (Waits(s, p) => Waits(t, p))
<1>1. Typed(t) /\ SameMode(s, t) /\ t.sources = k /\ \A q \in Peer : SameView(s, t, q)
  BY Zenon DEF RestSet
<1>2. p \in Peer /\ n \in Nat /\ Core(s, p, n)
  BY Zenon DEF Mid
<1>3. Core(t, p, n) /\ (Waits(s, p) => Waits(t, p))
  BY <1>1, <1>2, CoreSame, Zenon
<1>4. ASSUME NEW q \in Peer, q # p PROVE Core(t, q, 0) /\ Waits(t, q)
  <2>1. Core(s, q, 0) /\ Waits(s, q)
    BY <1>4, Zenon DEF Mid
  <2> QED BY <1>1, <2>1, CoreSame, Zenon
<1> QED BY <1>1, <1>2, <1>3, <1>4, Zenon DEF Mid
-----------------------------------------------------------------------------
\* A peer is added to the table and accepted.

\* The peer enters the table with a reference, and is to be announced.
Enters(s, p) ==
  [g_object_ref(s, p) EXCEPT !.table = @ \cup {p}, !.added = @ \cup {p},
                             !.notify = @ \cup {p}]

Entered(s, t, p) ==
  /\ Turns(s, t, p) /\ t.refs[p] = s.refs[p] + 1 /\ t.obj[p] = s.obj[p]
  /\ SameCounts(s, t, p) /\ Has(t.closed, p) = Has(s.closed, p) /\ Has(t.table, p) = 1
  /\ Has(t.pending, p) = Has(s.pending, p) /\ Has(t.held, p) = Has(s.held, p)
  /\ Has(t.notify, p) = 1 /\ Has(t.idle, p) = Has(s.idle, p) /\ Has(t.added, p) = 1

\* A new peer enters the table, which takes a reference, and is announced
\* later.
LEMMA EnterStep ==
  ASSUME NEW s, NEW p \in Peer, Typed(s)
  PROVE  Entered(s, Enters(s, p), p)
<1> DEFINE a == g_object_ref(s, p)
           b == [a EXCEPT !.table = Put(a.table, p, 1)]
           t == [b EXCEPT !.notify = Put(b.notify, p, 1), !.added = Put(b.added, p, 1)]
<1>1. /\ Turns(s, a, p) /\ a.obj[p] = s.obj[p] /\ a.refs[p] = s.refs[p] + 1
      /\ SameCounts(s, a, p) /\ SameOwners(s, a, p) /\ SamePlans(s, a, p)
  BY RefStep, Zenon
<1>2. Typed(a) /\ Shape(a)
  BY <1>1, Zenon DEF Turns, Typed
<1>3. Enters(s, p) = [a EXCEPT !.table = a.table \cup {p}, !.added = a.added \cup {p},
                               !.notify = a.notify \cup {p}]
  BY Zenon DEF Enters
<1> HIDE DEF a
<1>4. b = [a EXCEPT !.closed = a.closed, !.table = Put(a.table, p, 1),
                    !.pending = a.pending, !.held = a.held]
  BY ONLY <1>2, Zenon DEF Shape, Fields
<1>5. /\ 1 \in 0..1 /\ Has(a.closed, p) \in 0..1 /\ Has(a.pending, p) \in 0..1
      /\ Has(a.held, p) \in 0..1
  BY HasIs
<1>6. SetsOwners(a, b, p, Has(a.closed, p), 1, Has(a.pending, p), Has(a.held, p))
  BY <1>2, <1>4, <1>5, OwnersBack, ZenonT(40) DEF SetsOwners
<1>7. OwnersSet(a, b, p, Has(a.closed, p), 1, Has(a.pending, p), Has(a.held, p))
  BY <1>6, SetOwners, Zenon
<1>8. Typed(b) /\ Shape(b)
  BY <1>7, Zenon DEF OwnersSet, Turns, Typed
<1>9. b.notify = a.notify /\ b.added = a.added
  BY ONLY <1>2 DEF Shape, Fields
<1>10. Put(a.table, p, 1) = a.table \cup {p} /\ Put(b.notify, p, 1) = a.notify \cup {p}
       /\ Put(b.added, p, 1) = a.added \cup {p}
  BY <1>9, Zenon DEF Put
<1>11. t = [[a EXCEPT !.table = a.table \cup {p}]
              EXCEPT !.notify = a.notify \cup {p}, !.added = a.added \cup {p}]
  BY <1>10, Zenon
<1>12. t = Enters(s, p)
  <2>1. [[a EXCEPT !.table = a.table \cup {p}]
           EXCEPT !.notify = a.notify \cup {p}, !.added = a.added \cup {p}]
         = [a EXCEPT !.table = a.table \cup {p}, !.added = a.added \cup {p},
                     !.notify = a.notify \cup {p}]
    BY ONLY <1>2, Zenon DEF Shape
  <2> QED BY <1>3, <1>11, <2>1, Zenon
<1> HIDE DEF b
<1>13. t = [b EXCEPT !.notify = Put(b.notify, p, 1), !.idle = b.idle,
                     !.added = Put(b.added, p, 1)]
  BY ONLY <1>8, Zenon DEF Shape, Fields
<1>14. Put(b.idle, p, Has(b.idle, p)) = b.idle /\ Has(b.idle, p) \in 0..1
  BY PutBack, HasIs, Zenon
<1>15. SetsPlans(b, t, p, 1, Has(b.idle, p), 1)
  BY <1>5, <1>8, <1>13, <1>14, Zenon DEF SetsPlans
<1>16. PlansSet(b, t, p, 1, Has(b.idle, p), 1)
  BY <1>15, SetPlans, Zenon
<1> HIDE DEF t
<1>17. Turns(s, b, p)
  BY <1>1, <1>7, TurnsTwice, Zenon DEF OwnersSet
<1>18. Turns(s, t, p)
  BY <1>16, <1>17, TurnsTwice, Zenon DEF PlansSet
<1>19. Entered(s, t, p)
  BY <1>1, <1>7, <1>16, <1>18, Zenon
     DEF Entered, OwnersSet, PlansSet, SameRefs, SameCounts, SameOwners, SamePlans
<1> QED BY <1>12, <1>19, Zenon

\* Entering the table keeps the invariant of a fresh peer.
LEMMA EnterCore ==
  ASSUME NEW s, NEW t, NEW p, NEW n, Numbers(s, p), n \in Nat, Core(s, p, n), Fresh(s, p),
         s.obj[p] = "live", Entered(s, t, p), SameMode(s, t)
  PROVE  Core(t, p, n)
<1>0. /\ Owned(s, p, n) /\ Announced(s, p) /\ Signalled(s, p) /\ Promised(s, p)
      /\ Has(s.added, p) = 0
  BY Zenon DEF Core, Fresh
<1>1. Has(s.table, p) = 0
  BY <1>0, SMTT(40) DEF Announced, Numbers
<1>2. Owned(t, p, n)
  BY ONLY SMTT(40), <1>0, <1>1, Numbers(s, p), n \in Nat, Entered(s, t, p), s.obj[p] = "live"
     DEF Owned, Entered, Numbers
<1>3. Announced(t, p)
  BY ONLY SMTT(40), <1>0, Numbers(s, p), Entered(s, t, p)
     DEF Announced, Entered, SameCounts
<1>4. Signalled(t, p)
  BY ONLY <1>0, Numbers(s, p), Entered(s, t, p), SameMode(s, t)
     DEF Announced, Signalled, Entered, SameCounts, SameMode
<1>5. Promised(t, p)
  BY <1>0, Zenon DEF Promised, Entered, Fresh, SameMode
<1> QED BY <1>2, <1>3, <1>4, <1>5, Zenon DEF Core

\* Someone has a reference besides the table.
Kept(s, p, n) == Has(s.pending, p) = 1 \/ n > 0

\* evd_peer_manager_add_peer, which cleans up before the peer enters.
LEMMA AddMid ==
  ASSUME NEW s, NEW p, NEW n, Mid(s, p, n), Fresh(s, p), s.obj[p] = "live"
  PROVE  LET t == evd_peer_manager_add_peer(s, p)
         IN  /\ Mid(t, p, n) /\ t.mode = s.mode /\ Has(t.pending, p) = Has(s.pending, p)
             /\ Has(t.held, p) = Has(s.held, p)
<1> DEFINE u == Enters(s, p)
<1>0. Typed(s) /\ p \in Peer /\ n \in Nat /\ Core(s, p, n) /\ Numbers(s, p)
  BY NumbersOf, Zenon DEF Mid
<1>1. Entered(s, u, p)
  BY <1>0, EnterStep, Zenon
<1>2. evd_peer_manager_add_peer(s, p) = evd_peer_manager_cleanup_peers(u)
  BY Zenon DEF evd_peer_manager_add_peer, Enters
<1> HIDE DEF u
<1>3. Turns(s, u, p) /\ SameMode(s, u)
  BY <1>1, Zenon DEF Entered, Turns, SameRest, SameMode
<1>4. Core(u, p, n)
  BY <1>0, <1>1, <1>3, EnterCore, Zenon
<1>5. Mid(u, p, n)
  BY <1>0, <1>3, <1>4, MidTurn, Zenon
<1> DEFINE v == evd_peer_manager_cleanup_peers(u)
<1>6. /\ Mid(v, p, n) /\ v.mode = u.mode /\ Has(v.pending, p) = Has(u.pending, p)
      /\ Has(v.held, p) = Has(u.held, p)
  BY <1>5, CleanMid, Zenon
<1> HIDE DEF v
<1>7. v.mode = s.mode /\ Has(v.pending, p) = Has(s.pending, p) /\ Has(v.held, p) = Has(s.held, p)
  BY <1>1, <1>3, <1>6, Zenon DEF Entered, SameMode
<1> QED BY <1>2, <1>6, <1>7, Zenon DEF v

\* Accepting a peer, with or without a close before it is announced.
LEMMA AcceptedMid ==
  ASSUME NEW s, NEW p, NEW n, Mid(s, p, n), Fresh(s, p), Kept(s, p, n),
         s.sources < MaxSources, NEW close, close => s.mode = "early"
  PROVE  LET t == Accepted(s, p, close)
         IN  /\ Mid(t, p, n) /\ Has(t.pending, p) = Has(s.pending, p)
             /\ Has(t.held, p) = Has(s.held, p)
<1> DEFINE a == Looked(s)
           b == evd_peer_manager_add_peer(a, p)
<1>0. /\ Typed(s) /\ p \in Peer /\ n \in Nat /\ Core(s, p, n) /\ Numbers(s, p)
      /\ s.sources \in 0..MaxSources
  BY NumbersOf, Zenon DEF Mid
<1>1. s.obj[p] = "live"
  BY <1>0, LivesOf, Zenon DEF Kept
<1>2. s.sources + 1 \in Int /\ s.sources + 1 \in 0..MaxSources
  BY <1>0, PeersAssumption
<1>3. RestSet(s, a, s.sources + 1)
  BY <1>0, <1>2, RestStep, Zenon DEF Looked
<1> HIDE DEF a
<1>4. Mid(a, p, n)
  BY <1>2, <1>3, RestMid, Zenon
<1>5. SameView(s, a, p) /\ a.mode = s.mode
  BY <1>0, <1>3, Zenon DEF RestSet, SameMode
<1>6. Fresh(a, p) /\ a.obj[p] = "live" /\ Has(a.pending, p) = Has(s.pending, p)
      /\ Has(a.held, p) = Has(s.held, p)
  BY <1>1, <1>5, Zenon DEF Fresh, SameView, SameRefs, SameOwners, SamePlans
<1>7. /\ Mid(b, p, n) /\ b.mode = s.mode /\ Has(b.pending, p) = Has(s.pending, p)
      /\ Has(b.held, p) = Has(s.held, p)
  BY <1>4, <1>5, <1>6, AddMid, Zenon
<1>8. Accepted(s, p, close) = (IF close THEN PeerClose(b, p) ELSE b)
  BY Zenon DEF Accepted, a
<1> HIDE DEF b
<1>9. CASE close
  <2>1. MayClose(b, p)
    BY <1>7, <1>9, Zenon DEF MayClose, Lax
  <2>2. b.refs[p] > 0
    <3>1. Core(b, p, n) /\ Numbers(b, p)
      BY <1>7, NumbersOf, Zenon DEF Mid
    <3> QED BY <1>0, <1>7, <3>1, LivesOf, Zenon DEF Kept
  <2>3. Mid(PeerClose(b, p), p, n) /\ CloseFrame(b, PeerClose(b, p), p)
    BY <1>7, <2>1, <2>2, PeerCloseMid, Zenon
  <2> QED BY <1>7, <1>8, <1>9, <2>3, Zenon DEF CloseFrame
<1>10. CASE ~close
  BY <1>7, <1>8, <1>10, Zenon
<1> QED BY <1>9, <1>10, Zenon
-----------------------------------------------------------------------------
\* The actions keep the invariant.

PeersInv == Inv(m)

\* Peers close before they are announced in mode early alone.
LEMMA ClosingEarly ==
  ASSUME NEW close \in Closing
  PROVE  close => m.mode = "early"
  BY Zenon DEF Closing, CloseUnannounced

\* The handshake and the application get and give a reference.
LEMMA OwnerSteps ==
  ASSUME NEW s, NEW p \in Peer, NEW k \in 0..1, Typed(s)
  PROVE  /\ SetsOwners(s, [s EXCEPT !.pending = Put(s.pending, p, k)], p,
                       Has(s.closed, p), Has(s.table, p), k, Has(s.held, p))
         /\ SetsOwners(s, [s EXCEPT !.held = Put(s.held, p, k)], p,
                       Has(s.closed, p), Has(s.table, p), Has(s.pending, p), k)
<1> DEFINE t == [s EXCEPT !.pending = Put(s.pending, p, k)]
           u == [s EXCEPT !.held = Put(s.held, p, k)]
<1>1. Shape(s)
  BY Zenon DEF Typed
<1>2. t = [s EXCEPT !.closed = s.closed, !.table = s.table,
                    !.pending = Put(s.pending, p, k), !.held = s.held]
  BY ONLY <1>1, Zenon DEF Shape, Fields
<1>3. u = [s EXCEPT !.closed = s.closed, !.table = s.table, !.pending = s.pending,
                    !.held = Put(s.held, p, k)]
  BY ONLY <1>1, Zenon DEF Shape, Fields
<1>4. /\ Has(s.closed, p) \in 0..1 /\ Has(s.table, p) \in 0..1
      /\ Has(s.pending, p) \in 0..1 /\ Has(s.held, p) \in 0..1
  BY HasIs, Zenon
<1>5. SetsOwners(s, t, p, Has(s.closed, p), Has(s.table, p), k, Has(s.held, p))
  BY <1>2, <1>4, OwnersBack, ZenonT(40) DEF SetsOwners
<1>6. SetsOwners(s, u, p, Has(s.closed, p), Has(s.table, p), Has(s.pending, p), k)
  BY <1>3, <1>4, OwnersBack, ZenonT(40) DEF SetsOwners
<1> QED BY <1>5, <1>6, Zenon

\* Put, said with set operations.
LEMMA PutIs ==
  ASSUME NEW S, NEW p
  PROVE  Put(S, p, 0) = S \ {p} /\ Put(S, p, 1) = S \cup {p}
  BY DEF Put

\* The handshake is over, and drops its reference.
LEMMA Unpends ==
  ASSUME NEW s, NEW p, Mid(s, p, 0), Has(s.pending, p) = 1
  PROVE  Inv(g_object_unref([s EXCEPT !.pending = s.pending \ {p}], p))
<1> DEFINE a == [s EXCEPT !.pending = s.pending \ {p}]
           t == g_object_unref(a, p)
<1>0. Typed(s) /\ p \in Peer /\ Numbers(s, p)
  BY NumbersOf, Zenon DEF Mid
<1>1. a = [s EXCEPT !.pending = Put(s.pending, p, 0)] /\ 0 \in 0..1
  BY PutIs
<1>2. SetsOwners(s, a, p, Has(s.closed, p), Has(s.table, p), 0, Has(s.held, p))
  BY <1>0, <1>1, OwnerSteps, Zenon
<1> HIDE DEF a
<1>3. 1 \in Nat /\ 0 + Has(s.held, p) + 1 = Has(s.pending, p) + Has(s.held, p) + 0
  BY <1>0 DEF Numbers
<1>4. Passes(s, a, p, 0, 1, 0, Has(s.held, p))
  BY <1>2, <1>3, Zenon DEF Passes
<1>5. Mid(a, p, 1) /\ Has(a.pending, p) = 0
  <2>1. Passed(s, a, p, 1, 0, Has(s.held, p))
    BY ONLY <1>4, PassMid, Zenon
  <2> QED BY <2>1, Zenon DEF Passed
<1>6. Mid(a, p, 0 + 1) /\ 0 \in Nat
  BY <1>5
<1>7. Mid(t, p, 0) /\ SameOwners(a, t, p)
  BY <1>6, UnrefMid, Zenon
<1>8. Waits(t, p)
  <2>1. Has(t.pending, p) # 1
    BY <1>5, <1>7 DEF SameOwners
  <2> QED BY <2>1, Zenon DEF Waits
<1> QED BY <1>0, <1>7, <1>8, InvOf, Zenon DEF a

\* evd_web_transport_server_accept_peer keeps the invariant.
LEMMA AcceptAction ==
  ASSUME PeersInv, NEW p \in Peer, accept_peer(p)
  PROVE  PeersInv'
<1>1. Mid(m, p, 0) /\ Waits(m, p) /\ Typed(m)
  BY MidOf, Zenon DEF PeersInv, Mid
<1>2. PICK close \in Closing :
        m' = g_object_unref([Accepted(m, p, close) EXCEPT !.pending = @ \ {p}], p)
  BY Zenon DEF accept_peer
<1> DEFINE s == Accepted(m, p, close)
<1>3. p \in m.pending /\ m.sources < MaxSources
  BY Zenon DEF accept_peer
<1>4. Has(m.pending, p) = 1
  BY <1>3, HasIs, Zenon
<1>5. Fresh(m, p) /\ Kept(m, p, 0)
  BY <1>1, <1>4, Zenon DEF Waits, Kept
<1>6. close => m.mode = "early"
  BY ClosingEarly, Zenon
<1>7. Mid(s, p, 0) /\ Has(s.pending, p) = 1
  BY <1>1, <1>3, <1>4, <1>5, <1>6, AcceptedMid, Zenon
<1> HIDE DEF s
<1>8. m' = g_object_unref([s EXCEPT !.pending = s.pending \ {p}], p)
  BY <1>2, Zenon DEF s
<1>9. Inv(m')
  BY <1>7, <1>8, Unpends, Zenon
<1> QED BY <1>9, Zenon DEF PeersInv

\* evd_web_transport_server_reject_peer keeps the invariant.
LEMMA RejectAction ==
  ASSUME PeersInv, NEW p \in Peer, reject_peer(p)
  PROVE  PeersInv'
<1>1. Mid(m, p, 0)
  BY MidOf, Zenon DEF PeersInv
<1>2. p \in m.pending /\ m' = g_object_unref([m EXCEPT !.pending = m.pending \ {p}], p)
  BY Zenon DEF reject_peer
<1>3. Has(m.pending, p) = 1
  BY <1>2, HasIs, Zenon
<1>4. Inv(m')
  BY <1>1, <1>2, <1>3, Unpends, Zenon
<1> QED BY <1>4, Zenon DEF PeersInv

\* A new peer, with the reference of evd_web_transport_handshake.
LEMMA Creates ==
  ASSUME NEW s, NEW p \in Peer, Mid(s, p, 0), s.obj[p] = "none"
  PROVE  LET t == [s EXCEPT !.obj[p] = "live", !.refs[p] = 1]
         IN  /\ Mid(t, p, 1) /\ Fresh(t, p) /\ Has(t.pending, p) = 0 /\ Has(t.held, p) = 0
             /\ t.sources = s.sources /\ t.mode = s.mode
<1> DEFINE t == [s EXCEPT !.obj[p] = "live", !.refs[p] = 1]
<1>0. Typed(s) /\ Core(s, p, 0) /\ Numbers(s, p)
  BY NumbersOf, Zenon DEF Mid
<1>1. SetsRefs(s, t, p, "live", 1)
  BY Zenon DEF SetsRefs
<1>2. "live" \in {"none", "live", "freed"} /\ 1 \in Int /\ 1 \in Nat
  OBVIOUS
<1> HIDE DEF t
<1>3. /\ Turns(s, t, p) /\ t.obj[p] = "live" /\ t.refs[p] = 1
      /\ SameCounts(s, t, p) /\ SameOwners(s, t, p) /\ SamePlans(s, t, p)
  BY <1>0, <1>1, <1>2, SetRefs, Zenon
<1>4. /\ Has(s.table, p) = 0 /\ Has(s.pending, p) = 0 /\ Has(s.held, p) = 0
      /\ Has(s.closed, p) = 0 /\ Has(s.notify, p) = 0 /\ Has(s.idle, p) = 0
      /\ Has(s.added, p) = 0
  <2>1. Owned(s, p, 0)
    BY <1>0, Zenon DEF Core
  <2>2. ~(s.refs[p] > 0)
    BY <2>1 DEF Owned
  <2>3. /\ Has(s.closed, p) = 0 /\ Has(s.notify, p) = 0 /\ Has(s.idle, p) = 0
        /\ Has(s.added, p) = 0
    BY <2>1, Zenon DEF Owned
  <2>4. s.refs[p] = Has(s.table, p) + Has(s.pending, p) + Has(s.held, p) + 0
    BY <2>1, Zenon DEF Owned
  <2>5. Has(s.table, p) = 0 /\ Has(s.pending, p) = 0 /\ Has(s.held, p) = 0
    BY ONLY <1>0, <2>2, <2>4 DEF Numbers
  <2> QED BY <2>3, <2>5, Zenon
<1>5. t.mode = s.mode /\ t.misuse = s.misuse /\ t.sources = s.sources
  BY <1>3, Zenon DEF Turns, SameRest
<1>6. Owned(t, p, 1)
  BY <1>3, <1>4 DEF Owned, SameOwners, SamePlans
<1>7. Announced(t, p) /\ Signalled(t, p) /\ Promised(t, p)
  BY <1>0, <1>3, <1>5, Zenon
     DEF Core, Announced, Signalled, Promised, SameCounts, SameOwners, SamePlans
<1>8. Mid(t, p, 1)
  BY <1>2, <1>3, <1>6, <1>7, MidTurn, Zenon DEF Core
<1>9. Fresh(t, p) /\ Has(t.pending, p) = 0 /\ Has(t.held, p) = 0
  BY <1>3, <1>4, Zenon DEF Fresh, SameOwners, SamePlans
<1> QED BY <1>5, <1>8, <1>9, Zenon DEF t

\* A handshake keeps the invariant, whatever "validate-peer" answers.
LEMMA HandshakeAction ==
  ASSUME PeersInv, NEW p \in Peer, handshake(p)
  PROVE  PeersInv'
<1> DEFINE c == [m EXCEPT !.obj[p] = "live", !.refs[p] = 1]
<1>1. Mid(m, p, 0) /\ Typed(m)
  BY MidOf, Zenon DEF PeersInv, Mid
<1>2. m.obj[p] = "none"
  BY Zenon DEF handshake
<1>3. /\ Mid(c, p, 1) /\ Fresh(c, p) /\ Has(c.pending, p) = 0 /\ Has(c.held, p) = 0
      /\ c.sources = m.sources /\ c.mode = m.mode
  BY <1>1, <1>2, Creates, Zenon
<1>4. \/ m.sources < MaxSources /\ \E close \in Closing :
           m' = g_object_unref(Accepted(c, p, close), p)
      \/ m' = g_object_unref(c, p)
      \/ m' = [c EXCEPT !.pending = c.pending \cup {p}]
  BY Zenon DEF handshake
<1> HIDE DEF c
<1>5. 0 \in Nat /\ 0 + 1 = 1 /\ 1 > 0 /\ 1 \in 0..1 /\ 0 # 1
  OBVIOUS
<1>6. ASSUME NEW s, Mid(s, p, 1), Has(s.pending, p) = 0, m' = g_object_unref(s, p)
      PROVE  Inv(m')
  <2>1. Mid(s, p, 0 + 1)
    BY <1>5, <1>6, Zenon
  <2>2. Mid(m', p, 0) /\ SameOwners(s, m', p)
    BY <1>5, <1>6, <2>1, UnrefMid, Zenon
  <2>3. Has(m'.pending, p) = 0
    BY <1>6, <2>2, Zenon DEF SameOwners
  <2>4. Waits(m', p)
    BY <1>5, <2>3, Zenon DEF Waits
  <2> QED BY <2>2, <2>4, InvOf, Zenon
<1>7. ASSUME m.sources < MaxSources, NEW close \in Closing,
             m' = g_object_unref(Accepted(c, p, close), p)
      PROVE  Inv(m')
  <2> DEFINE s == Accepted(c, p, close)
  <2>1. (close => c.mode = "early") /\ Kept(c, p, 1) /\ c.sources < MaxSources
    BY <1>3, <1>5, <1>7, ClosingEarly, Zenon DEF Kept
  <2>2. Mid(s, p, 1) /\ Has(s.pending, p) = 0
    BY <1>3, <2>1, AcceptedMid, Zenon
  <2> HIDE DEF s
  <2>3. m' = g_object_unref(s, p)
    BY <1>7, Zenon DEF s
  <2> QED BY <1>6, <2>2, <2>3, Zenon
<1>8. ASSUME m' = [c EXCEPT !.pending = c.pending \cup {p}] PROVE Inv(m')
  <2>1. m' = [c EXCEPT !.pending = Put(c.pending, p, 1)]
    BY <1>8, PutIs, Zenon
  <2>2. SetsOwners(c, m', p, Has(c.closed, p), Has(c.table, p), 1, Has(c.held, p))
    BY <1>3, <1>5, <2>1, OwnerSteps, Zenon DEF Mid
  <2>3. 1 + Has(c.held, p) + 0 = Has(c.pending, p) + Has(c.held, p) + 1
    BY <1>3
  <2>4. Passes(c, m', p, 1, 0, 1, Has(c.held, p))
    BY <1>3, <1>5, <2>2, <2>3, Zenon DEF Passes
  <2>5. Passed(c, m', p, 0, 1, Has(c.held, p))
    BY ONLY <2>4, PassMid, Zenon
  <2>6. Mid(m', p, 0) /\ Fresh(m', p)
    BY <1>3, <2>5, Zenon DEF Passed, Fresh, SamePlans
  <2>7. Waits(m', p)
    BY <2>6, Zenon DEF Waits
  <2> QED BY <2>6, <2>7, InvOf, Zenon
<1>9. Inv(m')
  BY <1>3, <1>4, <1>6, <1>7, <1>8, Zenon
<1> QED BY <1>9, Zenon DEF PeersInv

\* The application takes a reference and drops it.
LEMMA RefAction ==
  ASSUME PeersInv, NEW p \in Peer, ref_peer(p)
  PROVE  PeersInv'
<1> DEFINE a == g_object_ref(m, p)
<1>1. Mid(m, p, 0) /\ Waits(m, p) /\ Typed(m) /\ Core(m, p, 0) /\ Numbers(m, p)
  BY MidOf, NumbersOf, Zenon DEF PeersInv, Mid
<1>2. /\ p \in m.table \/ p \in m.pending
      /\ p \notin m.held /\ m' = g_object_ref([m EXCEPT !.held = m.held \cup {p}], p)
  BY Zenon DEF ref_peer
<1>3. (Has(m.table, p) = 1 \/ Has(m.pending, p) = 1) /\ Has(m.held, p) = 0
  BY <1>2, HasIs, Zenon
<1>4. 0 \in Nat /\ 1 \in 0..1 /\ 0 + 1 = 1
  OBVIOUS
<1>5. m.obj[p] = "live"
  BY <1>1, <1>3, <1>4, LivesOf, Zenon
<1>6. Shape(m) /\ m' = [a EXCEPT !.held = a.held \cup {p}]
  <2>1. Shape(m)
    BY <1>1, Zenon DEF Typed
  <2>2. m' = [[m EXCEPT !.held = m.held \cup {p}] EXCEPT !.refs[p] = @ + 1]
    BY <1>2, Zenon DEF g_object_ref
  <2>3. a = [m EXCEPT !.refs[p] = @ + 1]
    BY Zenon DEF g_object_ref
  <2> QED BY ONLY <2>1, <2>2, <2>3, ZenonT(40) DEF Shape, Fields
<1>7. /\ Mid(a, p, 0 + 1) /\ a.mode = m.mode
      /\ SameOwners(m, a, p) /\ SamePlans(m, a, p)
  BY <1>1, <1>5, RefMid, Zenon
<1> HIDE DEF a
<1>8. Mid(a, p, 1)
  BY <1>4, <1>7, Zenon
<1>9. m' = [a EXCEPT !.held = Put(a.held, p, 1)]
  BY <1>6, PutIs, Zenon
<1>10. SetsOwners(a, m', p, Has(a.closed, p), Has(a.table, p), Has(a.pending, p), 1)
  BY <1>4, <1>8, <1>9, OwnerSteps, Zenon DEF Mid
<1>11. Has(a.pending, p) + 1 + 0 = Has(a.pending, p) + Has(a.held, p) + 1
  <2>1. Has(a.held, p) = 0 /\ Has(a.pending, p) \in 0..1
    BY <1>3, <1>7, HasIs, Zenon DEF SameOwners
  <2> QED BY <2>1
<1>12. Passes(a, m', p, 1, 0, Has(a.pending, p), 1)
  BY <1>4, <1>8, <1>10, <1>11, Zenon DEF Passes
<1>13. Passed(a, m', p, 0, Has(a.pending, p), 1)
  BY ONLY <1>12, PassMid, Zenon
<1>14. Mid(m', p, 0)
  BY <1>13, Zenon DEF Passed
<1>15. Waits(m', p)
  BY <1>1, <1>7, <1>13, Zenon DEF Passed, Waits, Fresh, SameOwners, SamePlans
<1>16. Inv(m')
  BY <1>14, <1>15, InvOf, Zenon
<1> QED BY <1>16, Zenon DEF PeersInv

\* The application's unref keeps the invariant.
LEMMA UnrefAction ==
  ASSUME PeersInv, NEW p \in Peer, unref_peer(p)
  PROVE  PeersInv'
<1> DEFINE a == [m EXCEPT !.held = m.held \ {p}]
<1>1. Mid(m, p, 0) /\ Waits(m, p) /\ Typed(m)
  BY MidOf, Zenon DEF PeersInv, Mid
<1>2. p \in m.held /\ m' = g_object_unref(a, p)
  BY Zenon DEF unref_peer
<1>3. Has(m.held, p) = 1 /\ Has(m.pending, p) \in 0..1
  BY <1>2, HasIs, Zenon
<1>4. 0 \in Nat /\ 1 \in Nat /\ 0 \in 0..1 /\ 0 + 1 = 1
  OBVIOUS
<1>5. a = [m EXCEPT !.held = Put(m.held, p, 0)]
  BY PutIs, Zenon
<1>6. SetsOwners(m, a, p, Has(m.closed, p), Has(m.table, p), Has(m.pending, p), 0)
  BY <1>1, <1>4, <1>5, OwnerSteps, Zenon
<1> HIDE DEF a
<1>7. Has(m.pending, p) + 0 + 1 = Has(m.pending, p) + Has(m.held, p) + 0
  BY <1>3
<1>8. Passes(m, a, p, 0, 1, Has(m.pending, p), 0)
  BY <1>1, <1>4, <1>6, <1>7, Zenon DEF Passes
<1>9. Passed(m, a, p, 1, Has(m.pending, p), 0)
  BY ONLY <1>8, PassMid, Zenon
<1>10. Mid(a, p, 0 + 1)
  BY <1>4, <1>9, Zenon DEF Passed
<1>11. Mid(m', p, 0) /\ m'.mode = a.mode /\ SameOwners(a, m', p) /\ SamePlans(a, m', p)
  BY <1>2, <1>4, <1>10, UnrefMid, Zenon
<1>12. Waits(m', p)
  BY <1>1, <1>9, <1>11, Zenon DEF Passed, Waits, Fresh, SameOwners, SamePlans
<1>13. Inv(m')
  BY <1>11, <1>12, InvOf, Zenon
<1> QED BY <1>13, Zenon DEF PeersInv

\* A close by the application or the transport keeps the invariant.
LEMMA CloseAction ==
  ASSUME PeersInv, NEW p \in Peer, close_peer(p)
  PROVE  PeersInv'
<1>1. Mid(m, p, 0) /\ Waits(m, p) /\ Core(m, p, 0) /\ Numbers(m, p)
  BY MidOf, NumbersOf, Zenon DEF PeersInv, Mid
<1>2. /\ p \in m.table \/ p \in m.held \/ p \in m.pending
      /\ p \in m.notify \/ p \in m.pending => m.mode = "early"
  BY Zenon DEF close_peer, Closable, CloseUnannounced
<1>3. m.refs[p] > 0
  <2>1. Has(m.table, p) = 1 \/ Has(m.pending, p) = 1 \/ Has(m.held, p) = 1
    BY <1>2, HasIs, Zenon
  <2>2. 0 \in Nat
    OBVIOUS
  <2> QED BY <1>1, <2>1, <2>2, LivesOf, Zenon
<1>4. MayClose(m, p) /\ (Has(m.pending, p) = 0 \/ m.mode = "early")
  BY <1>2, HasIs, Zenon DEF MayClose, Lax
<1>5. ASSUME NEW t, Mid(t, p, 0), CloseFrame(m, t, p) PROVE Inv(t)
  <2>1. Waits(t, p)
    BY <1>1, <1>4, <1>5, WaitsClosed, Zenon
  <2> QED BY <1>5, <2>1, InvOf, Zenon
<1>6. ASSUME m' = PeerClose(m, p) PROVE Inv(m')
  BY <1>1, <1>3, <1>4, <1>5, <1>6, PeerCloseMid, Zenon
<1>7. ASSUME p \in m.closed => m.lasts[p] < MaxCloses, m' = evd_transport_close_peer(m, p)
      PROVE  Inv(m')
  <2>1. m.mode = "again" \/ Has(m.closed, p) = 0
    <3> SUFFICES ASSUME m.mode # "again", p \in m.closed PROVE FALSE
      BY HasIs, Zenon
    <3>1. m.lasts[p] = 1
      BY <1>1, HasIs, Zenon DEF Core, Signalled
    <3>2. m.lasts[p] < 1
      BY <1>7, Zenon DEF MaxCloses
    <3> QED BY <3>1, <3>2
  <2> QED BY <1>1, <1>3, <1>4, <1>5, <1>7, <2>1, TransportCloseMid, Zenon
<1>8. ASSUME p \in m.held \/ m.mode \in {"early", "borrow"},
             m' = evd_peer_manager_close_peer(m, p)
      PROVE  Inv(m')
  <2>1. Has(m.held, p) = 1 \/ m.mode \in {"early", "borrow"}
    BY <1>8, HasIs, Zenon
  <2>2. /\ Mid(m', p, 0) /\ m'.mode = m.mode /\ SamePlans(m, m', p)
        /\ Has(m'.pending, p) = Has(m.pending, p)
    BY <1>1, <1>4, <1>8, <2>1, ManagerCloseMid, Zenon
  <2>3. 0 # 1
    OBVIOUS
  <2>4. Waits(m', p)
    BY <1>1, <1>4, <2>2, <2>3, Zenon DEF Waits, Fresh, SamePlans
  <2> QED BY <2>2, <2>4, InvOf, Zenon
<1>9. Inv(m')
  BY <1>6, <1>7, <1>8, Zenon DEF close_peer, CloseBorrowed
<1> QED BY <1>9, Zenon DEF PeersInv

\* A peer becomes idle or is touched.
LEMMA IdleStep ==
  ASSUME NEW s, NEW p \in Peer, NEW i \in 0..1, Typed(s)
  PROVE  PlansSet(s, [s EXCEPT !.idle = Put(s.idle, p, i)], p,
                  Has(s.notify, p), i, Has(s.added, p))
<1> DEFINE t == [s EXCEPT !.idle = Put(s.idle, p, i)]
<1>1. Shape(s)
  BY Zenon DEF Typed
<1>2. t = [s EXCEPT !.notify = s.notify, !.idle = Put(s.idle, p, i), !.added = s.added]
  BY ONLY <1>1, Zenon DEF Shape, Fields
<1>3. /\ Has(s.notify, p) \in 0..1 /\ Has(s.added, p) \in 0..1
      /\ Put(s.notify, p, Has(s.notify, p)) = s.notify
      /\ Put(s.added, p, Has(s.added, p)) = s.added
  BY HasIs, PutBack, Zenon
<1>4. SetsPlans(s, t, p, Has(s.notify, p), i, Has(s.added, p))
  BY <1>2, <1>3, Zenon DEF SetsPlans
<1> QED BY <1>4, SetPlans, Zenon

\* A peer that is not about to be announced may turn idle.
LEMMA IdleInv ==
  ASSUME NEW s, NEW t, NEW p \in Peer, NEW i, Inv(s), i \in 0..1,
         t = [s EXCEPT !.idle = Put(s.idle, p, i)],
         i = 1 => /\ s.obj[p] = "live" /\ Has(s.notify, p) = 0
                  /\ Has(s.pending, p) = 1 => s.mode \in Lax
  PROVE  Inv(t)
<1>1. Mid(s, p, 0) /\ Waits(s, p) /\ Core(s, p, 0) /\ Typed(s) /\ 0 \in Nat
  BY MidOf, Zenon DEF Mid
<1>2. PlansSet(s, t, p, Has(s.notify, p), i, Has(s.added, p))
  BY <1>1, IdleStep, Zenon
<1>3. /\ Turns(s, t, p) /\ Has(t.notify, p) = Has(s.notify, p) /\ Has(t.idle, p) = i
      /\ Has(t.added, p) = Has(s.added, p)
      /\ SameRefs(s, t, p) /\ SameCounts(s, t, p) /\ SameOwners(s, t, p)
  BY <1>2, Zenon DEF PlansSet
<1>4. t.mode = s.mode /\ t.misuse = s.misuse
  BY <1>3, Zenon DEF Turns, SameRest
<1>5. (i = 0 \/ i = 1) /\ 0 # 1 /\ "none" # "live"
  OBVIOUS
<1>6. Owned(t, p, 0)
  BY <1>1, <1>3, <1>5, Zenon DEF Core, Owned, SameRefs, SameOwners
<1>7. Announced(t, p)
  BY <1>1, <1>3, Zenon DEF Core, Announced, SameCounts, SameOwners
<1>8. Signalled(t, p)
  BY <1>1, <1>3, <1>4, Zenon DEF Core, Signalled, SameCounts, SameOwners
<1>9. Promised(t, p)
  BY <1>1, <1>3, <1>4, <1>5, Zenon DEF Core, Promised, SameOwners
<1>10. Waits(t, p)
  BY <1>1, <1>3, <1>4, <1>5, Zenon DEF Waits, Fresh, SameOwners
<1>11. Mid(t, p, 0)
  BY <1>1, <1>3, <1>6, <1>7, <1>8, <1>9, MidTurn, Zenon DEF Core
<1> QED BY <1>10, <1>11, InvOf, Zenon

\* A peer's timeout keeps the invariant.
LEMMA TimeoutAction ==
  ASSUME PeersInv, NEW p \in Peer, timeout(p)
  PROVE  PeersInv'
<1>1. /\ m.obj[p] = "live" /\ p \notin m.notify
      /\ p \in m.pending => m.mode \in Lax
      /\ m' = [m EXCEPT !.idle = m.idle \cup {p}]
  BY Zenon DEF timeout, PendingMayExpire, Lax
<1>2. Has(m.notify, p) = 0 /\ (Has(m.pending, p) = 1 => m.mode \in Lax)
  <2>1. 0 # 1
    OBVIOUS
  <2> QED BY <1>1, <2>1, HasIs, Zenon DEF Lax
<1>3. m' = [m EXCEPT !.idle = Put(m.idle, p, 1)]
  BY <1>1, PutIs, Zenon
<1>4. 1 \in 0..1
  OBVIOUS
<1>5. Inv(m')
  BY <1>1, <1>2, <1>3, <1>4, IdleInv, Zenon DEF PeersInv
<1> QED BY <1>5, Zenon DEF PeersInv

\* What belongs to no peer.
LEMMA RestInv ==
  ASSUME NEW s, NEW t, NEW k \in 0..MaxSources, RestSet(s, t, k), Inv(s)
  PROVE  Inv(t)
<1>1. Typed(t) /\ t.sources \in 0..MaxSources
  BY Zenon DEF RestSet
<1>2. ASSUME NEW p \in Peer PROVE Core(t, p, 0) /\ Waits(t, p)
  <2>1. Core(s, p, 0) /\ Waits(s, p) /\ SameView(s, t, p) /\ SameMode(s, t)
    BY Zenon DEF Inv, RestSet
  <2> QED BY <2>1, CoreSame, Zenon
<1> QED BY <1>1, <1>2, Zenon DEF Inv

\* Looking a peer up and touching it keep the invariant.
LEMMA LookupAction ==
  ASSUME PeersInv, NEW p \in Peer, lookup_peer(p)
  PROVE  PeersInv'
<1> DEFINE a == Looked(m)
<1>1. Inv(m) /\ Typed(m) /\ m.sources \in 0..MaxSources
  BY Zenon DEF PeersInv, Inv
<1>2. m.sources < MaxSources /\ m' = [a EXCEPT !.idle = a.idle \ (m.table \cap {p})]
  BY Zenon DEF lookup_peer
<1>3. m.sources + 1 \in Int /\ m.sources + 1 \in 0..MaxSources
  BY <1>1, <1>2, PeersAssumption
<1>4. RestSet(m, a, m.sources + 1)
  BY <1>1, <1>3, RestStep, Zenon DEF Looked
<1> HIDE DEF a
<1>5. Inv(a) /\ Shape(a)
  <2>1. Inv(a)
    BY <1>1, <1>3, <1>4, RestInv, Zenon
  <2> QED BY <2>1, Zenon DEF Inv, Typed
<1>6. CASE p \in m.table
  <2>1. m' = [a EXCEPT !.idle = Put(a.idle, p, 0)] /\ 0 \in 0..1 /\ 0 # 1
    <3>1. a.idle \ (m.table \cap {p}) = a.idle \ {p}
      BY <1>6, Zenon
    <3>2. 0 \in 0..1 /\ 0 # 1
      OBVIOUS
    <3> QED BY <1>2, <3>1, <3>2, PutIs, Zenon
  <2>2. Inv(m')
    BY <1>5, <2>1, IdleInv, Zenon
  <2> QED BY <2>2, Zenon DEF PeersInv
<1>7. CASE p \notin m.table
  <2>1. a.idle \ (m.table \cap {p}) = a.idle
    BY <1>7, Zenon
  <2>2. m' = [a EXCEPT !.idle = a.idle]
    BY <1>2, <2>1, Zenon
  <2>3. m' = a
    BY ONLY <1>5, <2>2, Zenon DEF Shape
  <2> QED BY <1>5, <2>3, Zenon DEF PeersInv
<1> QED BY <1>6, <1>7, Zenon

\* The clean-up keeps the invariant.
LEMMA CleanInv ==
  ASSUME NEW s, Inv(s)
  PROVE  Inv(evd_peer_manager_cleanup_peers(s))
<1> DEFINE t == evd_peer_manager_cleanup_peers(s)
<1>1. ASSUME NEW p \in Peer PROVE Core(s, p, 0) /\ Waits(s, p) /\ Numbers(s, p) /\ 0 \in Nat
  <2>1. 0 \in Nat
    OBVIOUS
  <2> QED BY <2>1, NumbersOf, Zenon DEF Inv
<1>2. TableLives(s)
  <2>1. ASSUME NEW p \in Peer, Has(s.table, p) = 1 PROVE s.refs[p] > 0 /\ s.obj[p] = "live"
    BY <1>1, <2>1, LivesOf, Zenon
  <2> QED BY <2>1, Zenon DEF TableLives
<1>3. Cleaned(s, t)
  BY <1>2, CleanStep, Zenon DEF Inv
<1> HIDE DEF t
<1>4. ASSUME NEW p \in Peer PROVE Core(t, p, 0) /\ Waits(t, p)
  <2>1. Numbers(t, p) /\ Cleans(s, t, p) /\ SameMode(s, t)
    BY <1>3, NumbersOf, Zenon DEF Cleaned
  <2> QED BY <1>1, <2>1, CleanCore, Zenon
<1>5. Inv(t)
  BY <1>3, <1>4, Zenon DEF Inv, Cleaned
<1> QED BY <1>5, Zenon DEF t

\* The clean-up's timer keeps the invariant.
LEMMA CleanupAction ==
  ASSUME PeersInv, cleanup_peers_cb
  PROVE  PeersInv'
<1> DEFINE a == [m EXCEPT !.sources = m.sources - 1]
<1>1. Inv(m) /\ Typed(m) /\ m.sources \in 0..MaxSources
  BY Zenon DEF PeersInv, Inv
<1>2. m.sources > 0 /\ m' = evd_peer_manager_cleanup_peers(a)
  BY Zenon DEF cleanup_peers_cb
<1>3. m.sources - 1 \in Int /\ m.sources - 1 \in 0..MaxSources
  BY <1>1, <1>2, PeersAssumption
<1>4. RestSet(m, a, m.sources - 1)
  BY <1>1, <1>3, RestStep, Zenon
<1> HIDE DEF a
<1>5. Inv(a)
  BY <1>1, <1>3, <1>4, RestInv, Zenon
<1> QED BY <1>2, <1>5, CleanInv, Zenon DEF PeersInv

\* evd_peer_manager_get_all_peers, which cleans up, keeps the invariant.
LEMMA GetAllAction ==
  ASSUME PeersInv, evd_peer_manager_get_all_peers
  PROVE  PeersInv'
  BY CleanInv, Zenon DEF PeersInv, evd_peer_manager_get_all_peers

\* The passing of the clean-up's interval keeps the invariant.
LEMMA IntervalAction ==
  ASSUME PeersInv, interval
  PROVE  PeersInv'
<1>1. Inv(m) /\ Typed(m) /\ m.sources \in 0..MaxSources
  BY Zenon DEF PeersInv, Inv
<1>2. RestSet(m, m', m.sources)
  <2>1. m' = [m EXCEPT !.elapsed = TRUE] /\ 0 \in Int /\ TRUE \in BOOLEAN
    BY DEF interval
  <2> QED BY <1>1, <2>1, RestStep, Zenon
<1> QED BY <1>1, <1>2, RestInv, Zenon DEF PeersInv

\* The code uses a peer that may have been freed where nothing is promised.
LEMMA UseInv ==
  ASSUME NEW s, NEW p, Inv(s), s.mode \in Lax \/ s.obj[p] # "freed"
  PROVE  Inv(Use(s, p))
<1>1. Typed(s) /\ s.sources \in 0..MaxSources
  BY Zenon DEF Inv
<1>2. CASE s.obj[p] # "freed"
  BY <1>1, <1>2, UseStep, Zenon
<1>3. CASE s.obj[p] = "freed"
  <2> DEFINE t == Use(s, p)
  <2>1. Misuses(s, t)
    BY <1>1, <1>3, UseStep, Zenon
  <2> HIDE DEF t
  <2>2. Unpromised(s, t)
    BY <1>3, <2>1, Zenon DEF Misuses, Unpromised
  <2>3. ASSUME NEW q \in Peer PROVE Core(t, q, 0) /\ Waits(t, q)
    <3>1. Core(s, q, 0) /\ Waits(s, q) /\ SameView(s, t, q)
      BY <2>1, Zenon DEF Inv, Misuses
    <3> QED BY <2>2, <3>1, CoreMisused, Zenon
  <2>4. Inv(t)
    BY <1>1, <2>1, <2>3, Zenon DEF Inv, Misuses
  <2> QED BY <2>4, Zenon DEF t
<1> QED BY <1>2, <1>3, Zenon

\* "new-peer" is emitted.
LEMMA Announces ==
  ASSUME NEW s, NEW p \in Peer, Mid(s, p, 0), Waits(s, p), Has(s.notify, p) = 1
  PROVE  LET t == [s EXCEPT !.notify = s.notify \ {p}, !.news[p] = s.news[p] + 1]
         IN  /\ Mid(t, p, 0) /\ Waits(t, p) /\ t.mode = s.mode /\ t.obj[p] # "none"
             /\ Has(t.notify, p) = 0 /\ Has(t.pending, p) = 0
             /\ t.mode \in Lax \/ t.obj[p] = "live"
<1> DEFINE a == [s EXCEPT !.notify = Put(s.notify, p, 0)]
           t == [s EXCEPT !.notify = s.notify \ {p}, !.news[p] = s.news[p] + 1]
<1>0. Typed(s) /\ Shape(s) /\ Core(s, p, 0) /\ Numbers(s, p)
  BY NumbersOf, Zenon DEF Mid, Typed
<1>1. a = [s EXCEPT !.notify = Put(s.notify, p, 0), !.idle = s.idle, !.added = s.added]
  BY ONLY <1>0, Zenon DEF Shape, Fields
<1>2. /\ Has(s.idle, p) \in 0..1 /\ Has(s.added, p) \in 0..1 /\ 0 \in 0..1
      /\ Put(s.idle, p, Has(s.idle, p)) = s.idle
      /\ Put(s.added, p, Has(s.added, p)) = s.added
  BY HasIs, PutBack
<1>3. SetsPlans(s, a, p, 0, Has(s.idle, p), Has(s.added, p))
  BY <1>0, <1>1, <1>2, Zenon DEF SetsPlans
<1>4. PlansSet(s, a, p, 0, Has(s.idle, p), Has(s.added, p))
  BY <1>3, SetPlans, Zenon
<1>5. a.news = s.news /\ Put(s.notify, p, 0) = s.notify \ {p}
  <2>1. a.news = s.news
    BY ONLY <1>0 DEF Shape, Fields
  <2> QED BY <2>1, PutIs, Zenon
<1>6. t = [a EXCEPT !.news[p] = a.news[p] + 1]
  BY ONLY <1>5, Zenon
<1>7. Typed(a)
  BY <1>4, Zenon DEF PlansSet, Turns
<1> HIDE DEF a
<1>8. Emitted(a, t, p, 0, 0, 1)
  BY <1>6, <1>7, EmitStep, Zenon
<1> HIDE DEF t
<1>9. Turns(s, t, p)
  BY <1>4, <1>8, TurnsTwice, Zenon DEF PlansSet, Emitted
<1>10. /\ t.closes[p] = s.closes[p] /\ t.lasts[p] = s.lasts[p] /\ t.news[p] = s.news[p] + 1
  <2>1. /\ t.closes[p] = s.closes[p] + 0 /\ t.lasts[p] = s.lasts[p] + 0
        /\ t.news[p] = s.news[p] + 1
    BY <1>4, <1>8, Zenon DEF PlansSet, Emitted, SameCounts
  <2> QED BY <1>0, <2>1 DEF Numbers
<1>11. /\ SameRefs(s, t, p) /\ SameOwners(s, t, p) /\ Has(t.notify, p) = 0
       /\ Has(t.idle, p) = Has(s.idle, p) /\ Has(t.added, p) = Has(s.added, p)
  BY <1>4, <1>8, Zenon DEF PlansSet, Emitted, SameRefs, SameOwners, SamePlans
<1>12. t.mode = s.mode /\ t.misuse = s.misuse
  BY <1>9, Zenon DEF Turns, SameRest
<1>13. /\ Owned(s, p, 0) /\ Announced(s, p) /\ Signalled(s, p) /\ Promised(s, p)
       /\ 0 # 1 /\ 0 \in Nat
  BY <1>0 DEF Core
<1>14. Owned(t, p, 0)
  BY <1>11, <1>13, Zenon DEF Owned, SameRefs, SameOwners
<1>15. Has(s.added, p) = 1 /\ s.news[p] = 0
  BY <1>0, <1>13 DEF Announced, Numbers
<1>16. Announced(t, p)
  BY ONLY <1>10, <1>11, <1>13, <1>15 DEF Announced, SameOwners
<1>17. Signalled(t, p)
  BY <1>10, <1>11, <1>12, <1>13, Zenon DEF Signalled, SameOwners
<1>18. Promised(t, p)
  BY <1>11, <1>12, <1>13, Zenon DEF Promised, SameOwners
<1>19. Has(t.pending, p) = 0
  BY <1>0, <1>11, <1>15 DEF Waits, Fresh, SameOwners, Numbers
<1>20. Mid(t, p, 0) /\ Waits(t, p)
  BY <1>9, <1>13, <1>14, <1>16, <1>17, <1>18, <1>19, MidTurn, Zenon DEF Core, Waits
<1>21. t.obj[p] # "none"
  BY <1>11, <1>13, Zenon DEF Owned, SameRefs
<1>22. t.mode \in Lax \/ t.obj[p] = "live"
  <2> SUFFICES ASSUME t.mode \notin Lax PROVE t.obj[p] = "live"
    BY Zenon
  <2>1. Has(s.table, p) = 1
    BY <1>12, <1>13, Zenon DEF Promised
  <2>2. s.obj[p] = "live"
    BY <1>0, <1>13, <2>1, LivesOf, Zenon
  <2> QED BY <1>11, <2>2, Zenon DEF SameRefs
<1> QED BY <1>11, <1>12, <1>19, <1>20, <1>21, <1>22, Zenon DEF t

\* The deferred new-peer signal keeps the invariant.
LEMMA NotifyAction ==
  ASSUME PeersInv, NEW p \in Peer, notify_new_peer(p)
  PROVE  PeersInv'
<1> DEFINE a == [m EXCEPT !.notify = m.notify \ {p}, !.news[p] = m.news[p] + 1]
           used == Use(a, p)
<1>1. Mid(m, p, 0) /\ Waits(m, p)
  BY MidOf, Zenon DEF PeersInv
<1>2. PICK close \in Closing :
        m' = IF close /\ ~used.misuse THEN Use(PeerClose(used, p), p) ELSE used
  BY Zenon DEF notify_new_peer
<1>3. Has(m.notify, p) = 1
  BY HasIs, Zenon DEF notify_new_peer
<1>4. /\ Mid(a, p, 0) /\ Waits(a, p) /\ a.mode = m.mode /\ a.obj[p] # "none"
      /\ Has(a.notify, p) = 0 /\ Has(a.pending, p) = 0
      /\ a.mode \in Lax \/ a.obj[p] = "live"
  BY <1>1, <1>3, Announces, Zenon
<1> HIDE DEF a
<1>5. Inv(a) /\ Typed(a) /\ "live" # "freed"
  <2>1. Inv(a)
    BY <1>4, InvOf, Zenon
  <2>2. "live" # "freed"
    OBVIOUS
  <2> QED BY <2>1, <2>2, Zenon DEF Inv
<1>6. CASE ~(close /\ ~used.misuse)
  <2>1. Inv(used)
    BY <1>4, <1>5, UseInv, Zenon
  <2> QED BY <1>2, <1>6, <2>1, Zenon DEF PeersInv
<1>7. CASE close /\ ~used.misuse
  <2>1. a.obj[p] # "freed"
    BY <1>5, <1>7, UseStep, Zenon DEF Misuses
  <2>2. used = a
    BY <1>5, <2>1, UseStep, Zenon
  <2>3. a.mode = "early"
    BY <1>4, <1>7, ClosingEarly, Zenon
  <2>4. a.refs[p] > 0
    <3>1. a.obj[p] = "live"
      <4>1. a.obj[p] \in {"none", "live", "freed"}
        BY <1>5, ViewType, Zenon
      <4> QED BY <1>4, <2>1, <4>1, Zenon
    <3>2. Owned(a, p, 0)
      BY <1>4, Zenon DEF Mid, Core
    <3> QED BY <3>1, <3>2, Zenon DEF Owned
  <2> DEFINE t == PeerClose(a, p)
  <2>5. MayClose(a, p)
    BY <1>4, Zenon DEF MayClose
  <2>6. Mid(t, p, 0) /\ CloseFrame(a, t, p)
    BY <1>4, <2>4, <2>5, PeerCloseMid, Zenon
  <2> HIDE DEF t
  <2>7. Waits(t, p) /\ t.mode = "early"
    BY <1>4, <2>3, <2>6, WaitsClosed, Zenon DEF CloseFrame, Turns, SameRest
  <2>8. Inv(t)
    BY <2>6, <2>7, InvOf, Zenon
  <2>9. Inv(Use(t, p))
    BY <2>7, <2>8, UseInv, Zenon DEF Lax
  <2> QED BY <1>2, <1>7, <2>2, <2>9, Zenon DEF PeersInv, t
<1> QED BY <1>6, <1>7, Zenon

\* The invariant holds initially.
LEMMA InitHolds ==
  ASSUME PeersInit
  PROVE  PeersInv
<1>1. PICK mode \in Modes :
        m = [mode |-> mode, obj |-> [p \in Peer |-> "none"], refs |-> [p \in Peer |-> 0],
             closed |-> {}, table |-> {}, pending |-> {}, held |-> {}, notify |-> {},
             idle |-> {}, elapsed |-> FALSE, sources |-> 0, misuse |-> FALSE,
             added |-> {}, news |-> [p \in Peer |-> 0],
             closes |-> [p \in Peer |-> 0], lasts |-> [p \in Peer |-> 0]]
  BY ZenonT(40) DEF PeersInit
<1>2. Shape(m)
  BY <1>1 DEF Shape, Fields
<1>3. /\ m.mode \in Modes /\ m.obj = [p \in Peer |-> "none"] /\ m.refs = [p \in Peer |-> 0]
      /\ m.closed = {} /\ m.table = {} /\ m.pending = {} /\ m.held = {} /\ m.notify = {}
      /\ m.idle = {} /\ m.elapsed = FALSE /\ m.sources = 0 /\ m.misuse = FALSE
      /\ m.added = {} /\ m.news = [p \in Peer |-> 0] /\ m.closes = [p \in Peer |-> 0]
      /\ m.lasts = [p \in Peer |-> 0]
  BY <1>1
<1>4. Typed(m)
  <2>1. [p \in Peer |-> 0] \in [Peer -> Int] /\ 0 \in Int
    OBVIOUS
  <2>2. [p \in Peer |-> "none"] \in [Peer -> {"none", "live", "freed"}] /\ {} \in SUBSET Peer
    OBVIOUS
  <2>3. FALSE \in BOOLEAN
    OBVIOUS
  <2> QED BY <1>2, <1>3, <2>1, <2>2, <2>3, Zenon DEF Typed
<1>5. m.sources \in 0..MaxSources
  BY <1>3, PeersAssumption
<1>6. ASSUME NEW p \in Peer PROVE Core(m, p, 0) /\ Waits(m, p)
  <2>1. /\ m.obj[p] = "none" /\ m.refs[p] = 0 /\ m.news[p] = 0 /\ m.closes[p] = 0
        /\ m.lasts[p] = 0
    BY <1>3, Zenon
  <2>2. /\ Has(m.closed, p) = 0 /\ Has(m.table, p) = 0 /\ Has(m.pending, p) = 0
        /\ Has(m.held, p) = 0 /\ Has(m.notify, p) = 0 /\ Has(m.idle, p) = 0
        /\ Has(m.added, p) = 0
    BY <1>3, HasIs, ZenonT(40)
  <2>3. Owned(m, p, 0)
    BY ONLY <2>1, <2>2 DEF Owned
  <2>4. Announced(m, p)
    BY ONLY <2>1, <2>2 DEF Announced
  <2>5. Signalled(m, p)
    BY ONLY <2>1, <2>2 DEF Signalled
  <2>6. Promised(m, p) /\ Waits(m, p)
    BY ONLY <1>3, <2>2 DEF Promised, Waits
  <2> QED BY <2>3, <2>4, <2>5, <2>6, Zenon DEF Core
<1> QED BY <1>4, <1>5, <1>6, Zenon DEF PeersInv, Inv

\* Every step keeps the invariant.
LEMMA NextKeeps ==
  ASSUME PeersInv, [PeersNext]_m
  PROVE  PeersInv'
<1>1. CASE cleanup_peers_cb
  BY <1>1, CleanupAction, Zenon
<1>2. CASE evd_peer_manager_get_all_peers
  BY <1>2, GetAllAction, Zenon
<1>3. CASE interval
  BY <1>3, IntervalAction, Zenon
<1>4. ASSUME NEW p \in Peer, handshake(p) PROVE PeersInv'
  BY <1>4, HandshakeAction, Zenon
<1>5. ASSUME NEW p \in Peer, accept_peer(p) PROVE PeersInv'
  BY <1>5, AcceptAction, Zenon
<1>6. ASSUME NEW p \in Peer, reject_peer(p) PROVE PeersInv'
  BY <1>6, RejectAction, Zenon
<1>7. ASSUME NEW p \in Peer, notify_new_peer(p) PROVE PeersInv'
  BY <1>7, NotifyAction, Zenon
<1>8. ASSUME NEW p \in Peer, lookup_peer(p) PROVE PeersInv'
  BY <1>8, LookupAction, Zenon
<1>9. ASSUME NEW p \in Peer, ref_peer(p) PROVE PeersInv'
  BY <1>9, RefAction, Zenon
<1>10. ASSUME NEW p \in Peer, unref_peer(p) PROVE PeersInv'
  BY <1>10, UnrefAction, Zenon
<1>11. ASSUME NEW p \in Peer, close_peer(p) PROVE PeersInv'
  BY <1>11, CloseAction, Zenon
<1>12. ASSUME NEW p \in Peer, timeout(p) PROVE PeersInv'
  BY <1>12, TimeoutAction, Zenon
<1>13. CASE UNCHANGED m
  BY <1>13, Zenon DEF PeersInv
<1> QED BY <1>1, <1>2, <1>3, <1>4, <1>5, <1>6, <1>7, <1>8, <1>9, <1>10, <1>11, <1>12,
           <1>13, Zenon DEF PeersNext

\* The references are counted right and every peer comes to one end, whatever
\* the application does and however long a validation takes: the inductive
\* invariant, which says of each peer who has a reference to it, whether it is
\* still to be announced and which signals were emitted for it.
THEOREM PeersInvariant == PeersSpec => []PeersInv
<1>1. PeersInit => PeersInv
  BY InitHolds, Zenon
<1>2. PeersInv /\ [PeersNext]_m => PeersInv'
  BY NextKeeps, Zenon
<1> QED BY <1>1, <1>2, PTL DEF PeersSpec

\* What Has counts is in the set.
LEMMA OneIn ==
  ASSUME NEW S, NEW p, Has(S, p) = 1
  PROVE  p \in S
<1>1. 0 # 1
  OBVIOUS
<1> QED BY <1>1, HasIs, Zenon

\* The invariant implies the types...
LEMMA TypeFollows ==
  ASSUME PeersInv
  PROVE  PeersTypeOK
<1>1. Typed(m) /\ m.sources \in 0..MaxSources
  BY Zenon DEF PeersInv, Inv
<1>2. ASSUME NEW p \in Peer PROVE Core(m, p, 0) /\ Numbers(m, p) /\ 0 \in Nat
  <2>1. 0 \in Nat
    OBVIOUS
  <2> QED BY <1>1, <2>1, NumbersOf, Zenon DEF PeersInv, Inv
<1>3. m.refs \in [Peer -> 0..4]
  <2>1. ASSUME NEW p \in Peer PROVE m.refs[p] \in 0..4
    <3>1. Owned(m, p, 0) /\ Numbers(m, p)
      BY <1>2, Zenon DEF Core
    <3> QED BY ONLY <3>1 DEF Owned, Numbers
  <2> QED BY <1>1, <2>1, Zenon DEF Typed
<1>4. m.news \in [Peer -> 0..1]
  <2>1. ASSUME NEW p \in Peer PROVE m.news[p] \in 0..1
    BY <1>2, Zenon DEF Core, Announced
  <2> QED BY <1>1, <2>1, Zenon DEF Typed
<1>5. ASSUME NEW p, p \in m.table \/ p \in m.pending \/ p \in m.held
      PROVE  p \in Peer /\ m.obj[p] = "live"
  <2>1. p \in Peer
    BY <1>1, <1>5, Zenon DEF Typed
  <2>2. Has(m.table, p) = 1 \/ Has(m.pending, p) = 1 \/ Has(m.held, p) = 1
    BY <1>5, HasIs, Zenon
  <2> QED BY <1>2, <2>1, <2>2, LivesOf, Zenon
<1>6. m.table \cup m.pending \cup m.held \subseteq {p \in Peer : m.obj[p] = "live"}
  BY <1>5, Zenon
<1>7. m.closed \cup m.notify \cup m.idle \cup m.added \subseteq Peer
  BY <1>1, Zenon DEF Typed
<1> QED BY <1>1, <1>3, <1>4, <1>6, <1>7, Zenon DEF PeersTypeOK, Typed

\* The state is well formed: the peers the manager, the handshake and the
\* application have are alive, and none is announced twice.
THEOREM PeersTypes == PeersSpec => []PeersTypeOK
<1>1. PeersInv => PeersTypeOK
  BY TypeFollows, Zenon
<1> QED BY <1>1, PeersInvariant, PTL

\* ...and the accounting of references and signals.
LEMMA LifeFollows ==
  ASSUME PeersInv
  PROVE  RefsOwned /\ ClosedOnce /\ ClosedNotFound
<1>1. ASSUME NEW p \in Peer PROVE Core(m, p, 0) /\ Numbers(m, p) /\ 0 # 1
  <2>1. 0 # 1
    OBVIOUS
  <2> QED BY <2>1, NumbersOf, Zenon DEF PeersInv, Inv
<1>2. RefsOwned
  <2>1. ASSUME NEW p \in Peer
        PROVE  m.refs[p] = Has(m.table, p) + Has(m.pending, p) + Has(m.held, p)
    <3>1. Owned(m, p, 0) /\ Numbers(m, p)
      BY <1>1, Zenon DEF Core
    <3> QED BY ONLY <3>1 DEF Owned, Numbers
  <2> QED BY <2>1, Zenon DEF RefsOwned, Has
<1>3. ClosedOnce
  <2> SUFFICES ASSUME m.mode # "again", NEW p \in Peer
               PROVE  /\ m.closes[p] <= 1 /\ m.lasts[p] <= 1
                      /\ p \in m.added \ m.table /\ ~m.misuse => m.closes[p] = 1 /\ m.lasts[p] = 1
    BY Zenon DEF ClosedOnce
  <2>1. Signalled(m, p) /\ Numbers(m, p)
    BY <1>1, Zenon DEF Core
  <2>2. m.closes[p] <= 1 /\ m.lasts[p] <= 1
    BY <2>1 DEF Signalled, Numbers
  <2>3. ASSUME p \in m.added \ m.table, ~m.misuse PROVE m.closes[p] = 1 /\ m.lasts[p] = 1
    <3>1. Has(m.added, p) = 1 /\ Has(m.table, p) = 0
      BY <2>3, HasIs, Zenon
    <3> QED BY <2>1, <2>3, <3>1, Zenon DEF Signalled
  <2> QED BY <2>2, <2>3, Zenon
<1>4. ClosedNotFound
  <2> SUFFICES ASSUME m.mode # "early", NEW p, p \in m.table, p \in m.closed
               PROVE  FALSE
    BY Zenon DEF ClosedNotFound, CloseUnannounced
  <2>1. p \in Peer
    BY Zenon DEF PeersInv, Inv, Typed
  <2>2. Has(m.table, p) = 1 /\ Has(m.closed, p) = 1
    BY HasIs, Zenon
  <2> QED BY <1>1, <2>1, <2>2, Zenon DEF Core, Promised
<1> QED BY <1>2, <1>3, <1>4, Zenon

\* The references to a peer are those of its owners, "peer-closed" is emitted
\* once, and a lookup finds no peer that was closed: for every set of peers and
\* in every mode, also with a validation that outlasts the timeout of its peer.
THEOREM PeersLife == PeersSpec => [](RefsOwned /\ ClosedOnce /\ ClosedNotFound)
<1>1. PeersInv => RefsOwned /\ ClosedOnce /\ ClosedNotFound
  BY LifeFollows, Zenon
<1> QED BY <1>1, PeersInvariant, PTL

\* If moreover no validation outlasts the timeout, no code uses a peer that was
\* freed, provided that the application closes only announced peers, and through
\* the manager only ones it has a reference to (see NoFreedPeerUsed).
THEOREM PeersSafe ==
  ASSUME "slow" \notin Modes
  PROVE  PeersSpec => []PeersKept
<1>1. PeersInv => PeersKept
  <2> SUFFICES ASSUME PeersInv PROVE PeersKept
    OBVIOUS
  <2>1. RefsOwned /\ ClosedOnce /\ ClosedNotFound
    BY LifeFollows, Zenon
  <2>2. m.mode # "slow"
    BY Zenon DEF PeersInv, Inv, Typed
  <2>3. ASSUME m.mode \notin {"early", "borrow"}, NEW p \in Peer
        PROVE  ~m.misuse /\ (p \in m.notify => m.obj[p] = "live")
    <3>1. Core(m, p, 0) /\ Numbers(m, p) /\ m.mode \notin Lax
      BY <2>2, <2>3, NumbersOf, Zenon DEF PeersInv, Inv, Lax
    <3>2. ~m.misuse
      BY <3>1, Zenon DEF Core, Promised
    <3>3. ASSUME p \in m.notify PROVE m.obj[p] = "live"
      <4>1. Has(m.notify, p) = 1
        BY <3>3, HasIs, Zenon
      <4>2. Has(m.table, p) = 1
        BY <3>1, <4>1, Zenon DEF Core, Promised
      <4>3. 0 \in Nat
        OBVIOUS
      <4> QED BY <3>1, <4>2, <4>3, LivesOf, Zenon
    <3> QED BY <3>2, <3>3, Zenon
  <2>4. NoFreedPeerUsed
    <3>1. (\E p : p \in Peer) /\ m.notify \in SUBSET Peer
      BY PeersAssumption, Zenon DEF PeersInv, Inv, Typed
    <3> QED BY <2>3, <3>1, Zenon DEF NoFreedPeerUsed, CloseUnannounced, CloseBorrowed
  <2> QED BY <2>1, <2>4, Zenon DEF PeersKept
<1> QED BY <1>1, PeersInvariant, PTL
=============================================================================
