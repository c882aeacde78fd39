----------------------------- MODULE IceServer -----------------------------
(***************************************************************************)
(* The ICE-lite server of a WebRtcTransport (RTC/IceServer.cpp).           *)
(*                                                                         *)
(* It keeps the list of the remote tuples that sent a valid STUN Binding   *)
(* Request, the one that is selected, the ICE state, and two generations   *)
(* of credentials: the current one and, after an ICE restart, the previous *)
(* one, which stays valid until a request uses the new one.                *)
(*                                                                         *)
(* A tuple is a UDP remote address or a TCP connection.  Credentials are   *)
(* numbered in the order in which they are generated; 0 stands for the     *)
(* empty string.  The operators take and return the state of the server as *)
(* a record, so that WebRtcTransport can call them in the middle of its    *)
(* own handlers; the actions at the end run the server alone.              *)
(***************************************************************************)
EXTENDS Naturals, Sequences

CONSTANTS
    Tuples,         \* the remote tuples
    TcpTuples,      \* those that are TCP connections
    NoTuple,        \* the null pointer
    MaxCredential   \* bound on the credentials generated

ASSUME NoTupleAssumption == NoTuple \notin Tuples
ASSUME TcpTuplesAssumption == TcpTuples \subseteq Tuples
ASSUME MaxCredentialAssumption == MaxCredential \in Nat \ {0}

VARIABLE ice

Credentials == 1 .. MaxCredential
IceStates == {"new", "connected", "completed", "disconnected"}

IceInit ==
    ice = [state |-> "new", tuples |-> <<>>, selected |-> NoTuple,
           credential |-> 1, oldCredential |-> 0]
-----------------------------------------------------------------------------
(***************************************************************************)
(* The tuples.                                                             *)
(***************************************************************************)
Stored(s) == {s.tuples[i] : i \in DOMAIN s.tuples}

IceUp(s) == s.state \in {"connected", "completed"}

\* HasTuple() looks into the list only if there is a selected tuple.
HasTuple(s, t) == s.selected # NoTuple /\ t \in Stored(s)

\* The list without the first element that is t.
Erased(tuples, t) ==
    LET i == CHOOSE i \in DOMAIN tuples :
                tuples[i] = t /\ \A j \in 1 .. i - 1 : tuples[j] # t
    IN  [j \in 1 .. Len(tuples) - 1 |-> tuples[IF j < i THEN j ELSE j + 1]]

AddTuple(s, t) == [s EXCEPT !.tuples = <<t>> \o @]

\* Faulty: forgets to select another tuple.
RemoveTuple_NoReselect(s, t) ==
    LET others == Erased(s.tuples, t) IN
    IF t \notin Stored(s) THEN s ELSE
    [s EXCEPT !.tuples = others,
              !.selected = IF t = @ THEN NoTuple ELSE @,
              !.state = IF others = <<>> THEN "disconnected" ELSE @]

\* The list without t; when t was selected the first of the others takes its
\* place, and without others the server is disconnected.
RemoveTuple(s, t) ==
    LET others == Erased(s.tuples, t) IN
    CASE t \notin Stored(s) -> s
      [] t \in Stored(s) /\ t # s.selected -> [s EXCEPT !.tuples = others]
      [] t \in Stored(s) /\ t = s.selected /\ others # <<>> ->
            [s EXCEPT !.tuples = others, !.selected = others[1]]
      [] t \in Stored(s) /\ t = s.selected /\ others = <<>> ->
            [s EXCEPT !.tuples = <<>>, !.selected = NoTuple,
                      !.state = "disconnected"]

\* ForceSelectedTuple(), called for a valid tuple only.
ForceSelectedTuple(s, t) == [s EXCEPT !.selected = t]

\* What HandleTuple() asserts on entry.
HandleTupleAsserts(s) ==
    IF IceUp(s) THEN s.tuples # <<>> /\ s.selected # NoTuple
                ELSE s.tuples = <<>> /\ s.selected = NoTuple

\* A request on t: the tuple is stored if it is new, it becomes the selected
\* one if the server was not up or if the peer nominates it.
HandleTuple(s, t, useCandidate) ==
    LET stored == IF HasTuple(s, t) THEN s ELSE AddTuple(s, t)
        picked == useCandidate \/ ~IceUp(s)
    IN  [stored EXCEPT
            !.selected = IF picked THEN t ELSE @,
            !.state = IF useCandidate THEN "completed"
                      ELSE IF IceUp(s) THEN @ ELSE "connected"]
-----------------------------------------------------------------------------
(***************************************************************************)
(* The credentials.                                                        *)
(***************************************************************************)
\* Faulty: goes back to the credentials given to the constructor.
RestartCredentials_Initial(s) ==
    [s EXCEPT !.credential = @ + 1, !.oldCredential = 1]

\* SetUsernameFragment() and SetPassword(), always called together.
RestartCredentials(s) ==
    [s EXCEPT !.credential = @ + 1, !.oldCredential = s.credential]

Accepts(s, key) ==
    key = s.credential \/ (s.oldCredential # 0 /\ key = s.oldCredential)

\* A request with the new credentials retires the old ones.
Authenticate(s, key) ==
    IF key = s.credential THEN [s EXCEPT !.oldCredential = 0] ELSE s

\* The credentials that authenticate the success response.
ResponseCredential(s) ==
    IF s.oldCredential = 0 THEN s.credential ELSE s.oldCredential
-----------------------------------------------------------------------------
(***************************************************************************)
(* The server alone.                                                       *)
(***************************************************************************)
\* A STUN Binding Request.  The response is sent before the tuple is handled;
\* when it goes over a TCP connection whose peer is gone ("lost") the write
\* fails and the connection is closed, which removes its tuple meanwhile.
ProcessStunPacket(t, key, useCandidate, lost) ==
    LET authenticated == Authenticate(ice, key)
        replied == IF lost THEN RemoveTuple(authenticated, t) ELSE authenticated
    IN  ice' = IF Accepts(ice, key)
               THEN HandleTuple(replied, t, useCandidate)
               ELSE replied

TupleClosed(t) == ice' = RemoveTuple(ice, t)

\* Incoming DTLS data selects the tuple it comes from, if that is valid.
SelectByDtls(t) ==
    /\ HasTuple(ice, t)
    /\ ice' = ForceSelectedTuple(ice, t)

RestartIce ==
    /\ ice.credential < MaxCredential
    /\ ice' = RestartCredentials(ice)

IceNext ==
    \/ \E t \in Tuples, key \in Credentials, useCandidate, lost \in BOOLEAN :
          /\ lost => t \in TcpTuples
          /\ ProcessStunPacket(t, key, useCandidate, lost)
    \/ \E t \in TcpTuples : TupleClosed(t)
    \/ \E t \in Tuples : SelectByDtls(t)
    \/ RestartIce

IceSpec == IceInit /\ [][IceNext]_ice
-----------------------------------------------------------------------------
(***************************************************************************)
(* Properties.                                                             *)
(***************************************************************************)
IceRecords ==
    [state : IceStates, tuples : Seq(Tuples), selected : Tuples \cup {NoTuple},
     credential : Credentials, oldCredential : Credentials \cup {0}]

\* The types of the server's fields.
IceTypeOK == ice \in IceRecords

\* The selected tuple points into the list, and the list is empty exactly
\* when the server is not up: none of the assertions at the head of
\* HandleTuple() and ForceSelectedTuple() can fail, whatever the order of
\* requests, closed connections and DTLS data.
TuplesConsistent(s) ==
    /\ HandleTupleAsserts(s)
    /\ s.selected # NoTuple => s.selected \in Stored(s)

IceTuplesConsistent == TuplesConsistent(ice)

\* A remote tuple is stored once, so that RemoveTuple() leaves no copy of a
\* closed connection behind in the list.
StoredOnce(s) ==
    \A i, j \in DOMAIN s.tuples : s.tuples[i] = s.tuples[j] => i = j

IceStoredOnce == StoredOnce(ice)

\* Whatever credentials a request uses, the success response to it is
\* authenticated with the same ones, also between a restart and the first
\* request with the new credentials.
IceResponseMatches ==
    \A key \in Credentials :
        Accepts(ice, key) => ResponseCredential(Authenticate(ice, key)) = key

\* Credentials once refused stay refused, unless the restart generated them:
\* retired credentials never come back.
IceRetiredForGood ==
    [][\A key \in 1 .. ice.credential :
          ~Accepts(ice, key) => ~Accepts(ice', key)]_ice

=============================================================================
