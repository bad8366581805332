------------------------------- MODULE MCWeb -------------------------------
(***************************************************************************)
(* Model checking of the web services (EvdWebService), of the HTTP         *)
(* connection (EvdHttpConnection) and of the filter that splits a content  *)
(* into JSON texts (EvdJsonFilter).  They share no state; `part` says      *)
(* which of them a behaviour is about, and the others stay as they began.  *)
(***************************************************************************)
EXTENDS EvdWebService, EvdJsonFilter

CONSTANTS Parts,
          HEADER_BLOCK_SIZE, MAX_HEADERS_SIZE, CONTENT_BLOCK_SIZE, OUTBUF_SIZE, Pieces, Setups

VARIABLES part, http

H == INSTANCE EvdHttpConnection

R(c, p, k, t) == [cross |-> c, preflight |-> p, keep |-> k, target |-> t]

\* Requests that differ in what decides their path.
MCRequests == { R(FALSE, FALSE, TRUE, "web"), R(FALSE, FALSE, TRUE, NULL),
                R(FALSE, FALSE, FALSE, "web"), R(FALSE, FALSE, TRUE, "svc"),
                R(TRUE, FALSE, TRUE, "web"), R(TRUE, TRUE, TRUE, "web") }

E(shape, post, len, keep, how, rlen) ==
  [shape |-> shape, post |-> post, len |-> len, keep |-> keep, how |-> how, rlen |-> rlen]

\* Exchanges: a POST, a GET, one with short header lines, one whose response
\* ends with the connection; and some with ends that break off.
MCSetups ==
  {[exchanges |-> x, quits |-> FALSE] : x \in {
     <<E(<<13>>, TRUE, 4, TRUE, "respond", 4), E(<<13, 2>>, TRUE, 1, TRUE, "chunked", 3)>>,
     <<E(<<12, 3>>, FALSE, 0, TRUE, "chunked", 4), E(<<13>>, FALSE, 0, FALSE, "eof", 4)>>,
     <<E(<<14>>, FALSE, 0, TRUE, "chunked", 1), E(<<14>>, TRUE, 2, TRUE, "respond", 1)>>,
     <<E(<<12, 2, 2>>, TRUE, 0, TRUE, "respond", 0), E(<<13>>, FALSE, 0, TRUE, "respond", 1)>>,
     <<E(<<42>>, FALSE, 0, TRUE, "respond", 1)>>}}
  \cup {[exchanges |-> x, quits |-> TRUE] : x \in {
     <<E(<<13>>, TRUE, 4, TRUE, "respond", 4)>>, <<E(<<13>>, FALSE, 0, FALSE, "eof", 4)>>,
     <<E(<<13>>, FALSE, 0, TRUE, "chunked", 2), E(<<13>>, FALSE, 0, TRUE, "respond", 1)>>,
     <<E(<<13>>, TRUE, 0, TRUE, "respond", 0)>>}}

\* Four alphabets: brackets, members and blanks; literals; numbers; strings
\* with escapes, control characters and bytes above 127.  Six characters in buffers of one or two hold two texts, a
\* text cut anywhere, and brackets as deep as the stack.
Brackets == {"{", "}", "[", "]", ":", ",", "\"", "0", " "}
Literals == {"[", "]", "t", "r", "u", "e", "n", "l"}
Numbers == {"[", "]", ",", "-", "0", "1", ".", "e"}
Strings == {"[", "]", "\"", "\\", "n", "\t", "#", Byte}

MCChars == Brackets \cup Literals \cup Numbers \cup Strings
MCStreams ==
  { [chars |-> Brackets, fed |-> 6, errors |-> 0], [chars |-> Brackets, fed |-> 3, errors |-> 1],
    [chars |-> Literals, fed |-> 6, errors |-> 0], [chars |-> Numbers, fed |-> 6, errors |-> 0],
    [chars |-> Strings, fed |-> 6, errors |-> 0] }

MCInit ==
  /\ part \in Parts /\ Init /\ FilterInit /\ H!Init
  /\ part # "filter" => filter.stream = CHOOSE st \in Streams : TRUE
  /\ part # "http" => http.setup = CHOOSE st \in Setups : TRUE

MCNext ==
  \/ part = "services" /\ Next /\ UNCHANGED <<part, filter, http>>
  \/ part = "http" /\ H!Next /\ UNCHANGED <<part, filter, web>>
  \/ part = "filter" /\ FilterNext /\ UNCHANGED <<part, web, http>>

\* The only liveness property is that of the HTTP connection.
MCSpec == MCInit /\ [][MCNext]_<<part, filter, web, http>> /\ H!Fairness

\* All parts keep their types.
TypesOK == TypeOK /\ FilterTypeOK /\ H!TypeOK

\* EvdHttpConnection: messages pass whole and operations are answered once.
MessagesWhole == H!MessagesWhole

\* Every exchange over HTTP ends.
ExchangesEnd == H!ExchangesEnd
=============================================================================
