----------------------- MODULE WebRtcTransport_proofs -----------------------
(***************************************************************************)
(* The safety of a WebRtcTransport for any tuples, consumers and number of *)
(* ICE restarts.  First the invariants of its ICE server alone, proved     *)
(* operation by operation about any record that satisfies them, so that    *)
(* the proofs also serve where the transport calls the operations.  A step *)
(* of the transport is a composition of operators on its state, so its     *)
(* invariant is proved in the same way, about any state w.                 *)
(***************************************************************************)
EXTENDS WebRtcTransport, TLAPS
-----------------------------------------------------------------------------
(***************************************************************************)
(* The ICE server.                                                         *)
(***************************************************************************)
\* What every operation of the server preserves.
Good(s) ==
    /\ s \in IceRecords
    /\ TuplesConsistent(s)
    /\ StoredOnce(s)
    /\ s.oldCredential < s.credential

IceGood == Good(ice)

\* The elements of a list, and that it has no duplicates.
Elements(q) == {q[i] : i \in DOMAIN q}
Distinct(q) == \A i, j \in DOMAIN q : q[i] = q[j] => i = j

\* The same for the list of the tuples.
LEMMA TupleListFacts ==
    ASSUME NEW s
    PROVE  Stored(s) = Elements(s.tuples) /\ (StoredOnce(s) <=> Distinct(s.tuples))
  BY Zenon DEF Stored, StoredOnce, Elements, Distinct

\* Erasing an element of a list without duplicates leaves a list without it,
\* without duplicates, of all the others.
LEMMA ErasedFacts ==
    ASSUME NEW S, NEW q \in Seq(S), NEW t,
           t \in Elements(q), Distinct(q)
    PROVE  /\ Erased(q, t) \in Seq(S)
           /\ Len(Erased(q, t)) = Len(q) - 1
           /\ Elements(Erased(q, t)) = Elements(q) \ {t}
           /\ Distinct(Erased(q, t))
<1> USE DEF Elements, Distinct
<1> DEFINE P(i) == q[i] = t /\ \A j \in 1 .. i - 1 : q[j] # t
           at == CHOOSE i \in DOMAIN q : P(i)
           e == [j \in 1 .. Len(q) - 1 |-> q[IF j < at THEN j ELSE j + 1]]
<1>1. Erased(q, t) = e
  BY DEF Erased
<1>2. DOMAIN q = 1 .. Len(q) /\ Len(q) \in Nat /\ \A i \in DOMAIN q : q[i] \in S
  OBVIOUS
<1>3. \E i \in DOMAIN q : P(i)
  <2>1. PICK i \in DOMAIN q : q[i] = t
    OBVIOUS
  <2>2. \A j \in 1 .. i - 1 : q[j] # t
    BY <1>2, <2>1
  <2>3. QED
    BY <2>1, <2>2
<1>4. at \in 1 .. Len(q) /\ q[at] = t
  BY <1>2, <1>3
<1> HIDE DEF at
<1>5. Len(q) - 1 \in Nat
  BY <1>2, <1>4
<1>6. \A j \in 1 .. Len(q) - 1 : e[j] \in S
  BY <1>2, <1>4
<1>7. e \in Seq(S) /\ Len(e) = Len(q) - 1 /\ DOMAIN e = 1 .. Len(q) - 1
  BY <1>5, <1>6
<1>8. \A i, j \in DOMAIN e : e[i] = e[j] => i = j
  BY <1>2, <1>4, <1>7
<1>9. ASSUME NEW i \in DOMAIN e
      PROVE  e[i] \in {q[k] : k \in DOMAIN q} \ {t}
  BY <1>2, <1>4, <1>7
<1>10. ASSUME NEW k \in DOMAIN q, q[k] # t
       PROVE  \E i \in DOMAIN e : e[i] = q[k]
  <2>1. CASE k < at
    BY <1>2, <1>4, <1>7, <2>1
  <2>2. CASE k > at
    <3>1. k - 1 \in DOMAIN e /\ e[k - 1] = q[k]
      BY <1>2, <1>4, <1>7, <2>2
    <3>2. QED
      BY <3>1
  <2>3. QED
    BY <1>2, <1>4, <1>10, <2>1, <2>2
<1>11. {e[i] : i \in DOMAIN e} = {q[i] : i \in DOMAIN q} \ {t}
  <2> HIDE DEF e, P
  <2>1. {e[i] : i \in DOMAIN e} \subseteq {q[i] : i \in DOMAIN q} \ {t}
    BY <1>9
  <2>2. {q[i] : i \in DOMAIN q} \ {t} \subseteq {e[i] : i \in DOMAIN e}
    BY <1>10
  <2>3. QED
    BY <2>1, <2>2
<1> HIDE DEF e, P
<1>12. Erased(q, t) \in Seq(S) /\ Len(Erased(q, t)) = Len(q) - 1
  BY <1>1, <1>7
<1>13. Elements(Erased(q, t)) = Elements(q) \ {t}
  BY <1>1, <1>11, Zenon
<1>14. Distinct(Erased(q, t))
  BY <1>1, <1>8
<1>15. QED
  BY <1>12, <1>13, <1>14
-----------------------------------------------------------------------------
\* Putting a new element in front of a list without duplicates.
LEMMA PrependFacts ==
    ASSUME NEW S, NEW q \in Seq(S), NEW t \in S,
           t \notin Elements(q), Distinct(q)
    PROVE  /\ <<t>> \o q \in Seq(S)
           /\ <<t>> \o q # <<>>
           /\ Elements(<<t>> \o q) = Elements(q) \cup {t}
           /\ Distinct(<<t>> \o q)
<1> USE DEF Elements, Distinct
<1> DEFINE e == <<t>> \o q
<1>1. e \in Seq(S) /\ Len(e) = Len(q) + 1 /\ DOMAIN e = 1 .. Len(q) + 1
  OBVIOUS
<1>2. Len(q) \in Nat /\ DOMAIN q = 1 .. Len(q)
  OBVIOUS
<1>3. e[1] = t /\ \A i \in 1 .. Len(q) : e[i + 1] = q[i]
  OBVIOUS
<1> HIDE DEF e
<1>4. \A i \in DOMAIN e : i = 1 \/ (i - 1 \in DOMAIN q /\ e[i] = q[i - 1])
  BY <1>1, <1>2, <1>3
<1>5. \A i, j \in DOMAIN e : e[i] = e[j] => i = j
  BY <1>1, <1>2, <1>3, <1>4
<1>6. \A i \in DOMAIN e : e[i] \in {q[k] : k \in DOMAIN q} \cup {t}
  BY <1>3, <1>4
<1>7. \A k \in DOMAIN q : \E i \in DOMAIN e : e[i] = q[k]
  <2>1. SUFFICES ASSUME NEW k \in DOMAIN q
                 PROVE  k + 1 \in DOMAIN e /\ e[k + 1] = q[k]
    OBVIOUS
  <2>2. QED
    BY <1>1, <1>2, <1>3
<1>8. 1 \in DOMAIN e
  BY <1>1, <1>2
<1>9. {e[i] : i \in DOMAIN e} = {q[k] : k \in DOMAIN q} \cup {t}
  BY <1>3, <1>6, <1>7, <1>8
<1>10. e # <<>>
  BY <1>1, <1>2
<1>11. QED
  BY <1>1, <1>5, <1>9, <1>10 DEF e

\* A stored tuple makes the list non-empty, and the first of a non-empty list
\* is stored.
LEMMA StoredFacts ==
    ASSUME NEW s, s \in IceRecords
    PROVE  /\ s.tuples \in Seq(Tuples)
           /\ Stored(s) \subseteq Tuples
           /\ s.tuples = <<>> <=> Stored(s) = {}
           /\ s.tuples # <<>> => s.tuples[1] \in Stored(s)
<1>1. s.tuples \in Seq(Tuples)
  BY DEF IceRecords
<1>2. s.tuples = <<>> \/ 1 \in DOMAIN s.tuples
  BY <1>1
<1>3. DOMAIN <<>> = {}
  OBVIOUS
<1>4. s.tuples = <<>> => Stored(s) = {}
  BY <1>3 DEF Stored
<1>5. 1 \in DOMAIN s.tuples => s.tuples[1] \in Stored(s) /\ s.tuples # <<>>
  BY <1>3 DEF Stored
<1>6. Stored(s) \subseteq Tuples
  BY <1>1 DEF Stored
<1>7. QED
  BY <1>1, <1>2, <1>4, <1>5, <1>6
-----------------------------------------------------------------------------
(***************************************************************************)
(* The operations.                                                         *)
(***************************************************************************)
\* A tuple removed leaves a good server, without it.
LEMMA RemoveTupleGood ==
    ASSUME NEW s, Good(s), NEW t \in Tuples
    PROVE  /\ Good(RemoveTuple(s, t))
           /\ Stored(RemoveTuple(s, t)) = Stored(s) \ {t}
<1> DEFINE others == Erased(s.tuples, t)
           r == RemoveTuple(s, t)
<1>1. CASE t \notin Stored(s)
  <2>1. r = s
    BY <1>1 DEF RemoveTuple
  <2>2. QED
    BY <1>1, <2>1
<1>2. CASE t \in Stored(s)
  <2>1. /\ others \in Seq(Tuples)
        /\ Elements(others) = Stored(s) \ {t}
        /\ Distinct(others)
    <3>1. s.tuples \in Seq(Tuples) /\ Distinct(s.tuples)
          /\ Stored(s) = Elements(s.tuples)
      BY StoredFacts, TupleListFacts DEF Good
    <3>2. QED
      BY <1>2, <3>1, ErasedFacts
  <2>2. s \in IceRecords /\ s.tuples # <<>>
    BY <1>2, StoredFacts DEF Good
  <2>3. IceUp(s) /\ s.selected \in Stored(s)
    BY <2>2 DEF Good, TuplesConsistent, HandleTupleAsserts
  <2> HIDE DEF others
  <2>4. CASE t # s.selected
    <3>1. r = [s EXCEPT !.tuples = others]
      BY <1>2, <2>4 DEF RemoveTuple, others
    <3>2. r \in IceRecords /\ r.tuples = others /\ r.selected = s.selected
          /\ r.state = s.state /\ r.credential = s.credential
          /\ r.oldCredential = s.oldCredential
      BY <2>1, <2>2, <3>1 DEF IceRecords
    <3> HIDE DEF r
    <3>3. Stored(r) = Stored(s) \ {t} /\ StoredOnce(r)
      BY <2>1, <3>2, TupleListFacts
    <3>4. r.tuples # <<>> /\ r.selected \in Stored(r)
      BY <2>3, <2>4, <3>2, <3>3, StoredFacts
    <3>5. TuplesConsistent(r)
      BY <2>3, <3>2, <3>4, NoTupleAssumption, StoredFacts
      DEF TuplesConsistent, HandleTupleAsserts, IceUp
    <3>6. QED
      BY <3>2, <3>3, <3>5 DEF Good, r
  <2>5. CASE t = s.selected /\ others # <<>>
    <3>1. r = [s EXCEPT !.tuples = others, !.selected = others[1]]
      BY <1>2, <2>5 DEF RemoveTuple, others
    <3>2. others[1] \in Tuples
      BY <2>1, <2>5
    <3>3. r \in IceRecords /\ r.tuples = others /\ r.selected = others[1]
          /\ r.state = s.state /\ r.credential = s.credential
          /\ r.oldCredential = s.oldCredential
      BY <2>1, <2>2, <3>1, <3>2 DEF IceRecords
    <3> HIDE DEF r
    <3>4. Stored(r) = Stored(s) \ {t} /\ StoredOnce(r)
      BY <2>1, <3>3, TupleListFacts
    <3>5. r.selected \in Stored(r)
      BY <2>5, <3>3, StoredFacts
    <3>6. TuplesConsistent(r)
      BY <2>3, <2>5, <3>2, <3>3, <3>5, NoTupleAssumption
      DEF TuplesConsistent, HandleTupleAsserts, IceUp
    <3>7. QED
      BY <3>3, <3>4, <3>6 DEF Good, r
  <2>6. CASE t = s.selected /\ others = <<>>
    <3>1. r = [s EXCEPT !.tuples = <<>>, !.selected = NoTuple,
                        !.state = "disconnected"]
      BY <1>2, <2>6 DEF RemoveTuple, others
    <3>2. r \in IceRecords /\ r.tuples = others /\ r.selected = NoTuple
          /\ r.state = "disconnected" /\ r.credential = s.credential
          /\ r.oldCredential = s.oldCredential
      BY <2>1, <2>2, <2>6, <3>1 DEF IceRecords, IceStates
    <3> HIDE DEF r
    <3>3. Stored(r) = Stored(s) \ {t} /\ StoredOnce(r)
      BY <2>1, <3>2, TupleListFacts
    <3>4. TuplesConsistent(r)
      BY <2>6, <3>2 DEF TuplesConsistent, HandleTupleAsserts, IceUp
    <3>5. QED
      BY <3>2, <3>3, <3>4 DEF Good, r
  <2>7. QED
    BY <2>4, <2>5, <2>6
<1>3. QED
  BY <1>1, <1>2

\* A request handled leaves a good server that stores its tuple.
LEMMA HandleTupleGood ==
    ASSUME NEW s, Good(s), NEW t \in Tuples, NEW useCandidate \in BOOLEAN
    PROVE  Good(HandleTuple(s, t, useCandidate))
<1> DEFINE stored == IF HasTuple(s, t) THEN s ELSE AddTuple(s, t)
           selected == IF useCandidate \/ ~IceUp(s) THEN t ELSE s.selected
           state == IF useCandidate THEN "completed"
                    ELSE IF IceUp(s) THEN s.state ELSE "connected"
           r == HandleTuple(s, t, useCandidate)
<1>1. s \in IceRecords /\ StoredOnce(s) /\ TuplesConsistent(s)
  BY DEF Good
<1>2. HasTuple(s, t) <=> t \in Stored(s)
  BY <1>1, StoredFacts DEF HasTuple, TuplesConsistent, HandleTupleAsserts
<1>3. /\ stored.tuples \in Seq(Tuples) /\ stored.tuples # <<>>
      /\ Stored(stored) = Stored(s) \cup {t}
      /\ StoredOnce(stored)
  <2>1. CASE t \in Stored(s)
    BY <1>1, <1>2, <2>1, StoredFacts
  <2>2. CASE t \notin Stored(s)
    <3>1. stored = AddTuple(s, t) /\ stored.tuples = <<t>> \o s.tuples
      BY <1>1, <1>2, <2>2 DEF AddTuple, IceRecords
    <3>2. s.tuples \in Seq(Tuples)
      BY <1>1, StoredFacts
    <3> HIDE DEF stored
    <3>3. Stored(s) = Elements(s.tuples) /\ Distinct(s.tuples)
      BY <1>1, TupleListFacts
    <3>4. /\ stored.tuples \in Seq(Tuples) /\ stored.tuples # <<>>
          /\ Elements(stored.tuples) = Elements(s.tuples) \cup {t}
          /\ Distinct(stored.tuples)
      BY <2>2, <3>1, <3>2, <3>3, PrependFacts
    <3>5. QED
      BY <3>3, <3>4, TupleListFacts
  <2>3. QED
    BY <2>1, <2>2
<1>4. /\ stored \in IceRecords
      /\ stored.selected = s.selected /\ stored.state = s.state
      /\ stored.credential = s.credential
      /\ stored.oldCredential = s.oldCredential
  BY <1>1, <1>3 DEF AddTuple, IceRecords
<1>5. r = [stored EXCEPT !.selected = selected, !.state = state]
  <2>1. r = [stored EXCEPT
               !.selected = IF useCandidate \/ ~IceUp(s) THEN t ELSE @,
               !.state = IF useCandidate THEN "completed"
                         ELSE IF IceUp(s) THEN @ ELSE "connected"]
    BY Zenon DEF HandleTuple
  <2> HIDE DEF r, stored
  <2>2. QED
    BY <1>4, <2>1
<1> HIDE DEF stored
<1>6. selected \in Tuples /\ selected \in Stored(s) \cup {t}
  BY <1>1 DEF TuplesConsistent, HandleTupleAsserts, IceRecords
<1>7. state \in {"connected", "completed"}
  BY DEF IceUp
<1> HIDE DEF selected, state, r
<1>8. /\ r \in IceRecords
      /\ r.tuples = stored.tuples /\ r.selected = selected /\ r.state = state
      /\ r.credential = s.credential /\ r.oldCredential = s.oldCredential
  BY <1>4, <1>5, <1>6, <1>7 DEF IceRecords, IceStates
<1>9. Stored(r) = Stored(s) \cup {t} /\ StoredOnce(r)
  BY <1>3, <1>8 DEF Stored, StoredOnce
<1>10. TuplesConsistent(r)
  BY <1>3, <1>6, <1>7, <1>8, <1>9, NoTupleAssumption
  DEF TuplesConsistent, HandleTupleAsserts, IceUp
<1>11. QED
  BY <1>8, <1>9, <1>10 DEF Good, r

\* Operations that leave the list, the selected tuple's validity and the
\* state alone.
LEMMA SameTuplesGood ==
    ASSUME NEW s, Good(s), NEW r \in IceRecords,
           r.tuples = s.tuples, r.state = s.state,
           r.selected = s.selected \/ r.selected \in Stored(s),
           r.oldCredential < r.credential
    PROVE  Good(r)
<1>1. s \in IceRecords /\ StoredOnce(s) /\ TuplesConsistent(s)
  BY DEF Good
<1>2. Stored(r) = Stored(s) /\ StoredOnce(r)
  BY <1>1 DEF Stored, StoredOnce
<1>3. s.tuples = <<>> => Stored(s) = {}
  BY <1>1, StoredFacts
<1>4. Stored(s) \subseteq Tuples
  BY <1>1, StoredFacts
<1>5. TuplesConsistent(r)
  BY <1>1, <1>2, <1>3, <1>4, NoTupleAssumption
  DEF TuplesConsistent, HandleTupleAsserts, IceUp
<1>6. QED
  BY <1>2, <1>5 DEF Good

LEMMA ForceSelectedTupleGood ==
    ASSUME NEW s, Good(s), NEW t \in Tuples, HasTuple(s, t)
    PROVE  Good(ForceSelectedTuple(s, t))
<1> DEFINE r == ForceSelectedTuple(s, t)
<1>1. s \in IceRecords /\ s.oldCredential < s.credential /\ t \in Stored(s)
  BY DEF Good, HasTuple
<1>2. /\ r \in IceRecords /\ r.tuples = s.tuples /\ r.state = s.state
      /\ r.selected = t /\ r.credential = s.credential
      /\ r.oldCredential = s.oldCredential
  BY <1>1 DEF ForceSelectedTuple, IceRecords
<1> HIDE DEF r
<1>3. Good(r)
  BY <1>1, <1>2, SameTuplesGood
<1>4. QED
  BY <1>3 DEF r

LEMMA AuthenticateGood ==
    ASSUME NEW s, Good(s), NEW key
    PROVE  Good(Authenticate(s, key))
<1> DEFINE r == Authenticate(s, key)
<1>1. s \in IceRecords /\ s.oldCredential < s.credential
  BY DEF Good
<1>2. /\ r \in IceRecords /\ r.tuples = s.tuples /\ r.state = s.state
      /\ r.selected = s.selected /\ r.oldCredential < r.credential
  BY <1>1, MaxCredentialAssumption DEF Authenticate, IceRecords, Credentials
<1> HIDE DEF r
<1>3. Good(r)
  BY <1>2, SameTuplesGood
<1>4. QED
  BY <1>3 DEF r

LEMMA RestartCredentialsGood ==
    ASSUME NEW s, Good(s), s.credential < MaxCredential
    PROVE  Good(RestartCredentials(s))
<1> DEFINE r == RestartCredentials(s)
<1>1. s \in IceRecords /\ s.credential \in 1 .. MaxCredential
  BY DEF Good, IceRecords, Credentials
<1>2. s.credential + 1 \in Credentials /\ s.credential < s.credential + 1
  BY <1>1, MaxCredentialAssumption DEF Credentials
<1>3. /\ r \in IceRecords /\ r.tuples = s.tuples /\ r.state = s.state
      /\ r.selected = s.selected /\ r.oldCredential = s.credential
      /\ r.credential = s.credential + 1
  BY <1>1, <1>2 DEF RestartCredentials, IceRecords, Credentials
<1> HIDE DEF r
<1>4. Good(r)
  BY <1>2, <1>3, SameTuplesGood
<1>5. QED
  BY <1>4 DEF r
-----------------------------------------------------------------------------
(***************************************************************************)
(* The server alone.                                                       *)
(***************************************************************************)
\* The inductive invariant.  IceTuplesConsistent is not inductive by itself:
\* RemoveTuple() leaves a selected tuple in the list only because the list
\* holds it once (IceStoredOnce).
THEOREM IceInvariance == IceSpec => []IceGood
<1>1. IceInit => IceGood
  <2> SUFFICES ASSUME IceInit PROVE Good(ice)
    BY DEF IceGood
  <2>1. DOMAIN <<>> = {} /\ <<>> \in Seq(Tuples)
    OBVIOUS
  <2>2. ice \in IceRecords
    BY <2>1, MaxCredentialAssumption
    DEF IceInit, IceRecords, IceStates, Credentials
  <2>3. TuplesConsistent(ice)
    BY DEF IceInit, TuplesConsistent, HandleTupleAsserts, IceUp
  <2>4. ice.tuples = <<>> /\ ice.oldCredential < ice.credential
    BY DEF IceInit
  <2>5. StoredOnce(ice)
    BY <2>1, <2>4 DEF StoredOnce
  <2>6. QED
    BY <2>2, <2>3, <2>4, <2>5 DEF Good
<1>2. IceGood /\ [IceNext]_ice => IceGood'
  <2> SUFFICES ASSUME Good(ice), [IceNext]_ice
               PROVE  Good(ice')
    BY DEF IceGood
  <2>1. ASSUME NEW t \in Tuples, NEW key \in Credentials,
               NEW useCandidate \in BOOLEAN, NEW lost \in BOOLEAN,
               ProcessStunPacket(t, key, useCandidate, lost)
        PROVE  Good(ice')
    <3> DEFINE authenticated == Authenticate(ice, key)
               replied == IF lost THEN RemoveTuple(authenticated, t)
                                  ELSE authenticated
    <3>1. Good(authenticated)
      BY AuthenticateGood
    <3>2. Good(replied)
      BY <3>1, RemoveTupleGood
    <3>3. Good(HandleTuple(replied, t, useCandidate))
      BY <3>2, HandleTupleGood
    <3>4. ice' = IF Accepts(ice, key)
                 THEN HandleTuple(replied, t, useCandidate) ELSE replied
      BY <2>1 DEF ProcessStunPacket
    <3>5. QED
      BY <3>2, <3>3, <3>4
  <2>2. ASSUME NEW t \in TcpTuples, TupleClosed(t)
        PROVE  Good(ice')
    BY <2>2, RemoveTupleGood, TcpTuplesAssumption DEF TupleClosed
  <2>3. ASSUME NEW t \in Tuples, SelectByDtls(t)
        PROVE  Good(ice')
    BY <2>3, ForceSelectedTupleGood DEF SelectByDtls
  <2>4. CASE RestartIce
    BY <2>4, RestartCredentialsGood DEF RestartIce
  <2>5. CASE UNCHANGED ice
    BY <2>5
  <2>6. QED
    BY <2>1, <2>2, <2>3, <2>4, <2>5 DEF IceNext
<1>3. QED
  BY <1>1, <1>2, PTL DEF IceSpec

\* The server's fields keep their types (IceServer.hpp).
THEOREM IceTypeCorrect == IceSpec => []IceTypeOK
<1>1. IceGood => IceTypeOK
  BY DEF IceGood, Good, IceTypeOK
<1>2. QED
  BY <1>1, IceInvariance, PTL

\* The assertions of HandleTuple() and ForceSelectedTuple() never fail.
THEOREM IceTuplesConsistentAlways == IceSpec => []IceTuplesConsistent
<1>1. IceGood => IceTuplesConsistent
  BY DEF IceGood, Good, IceTuplesConsistent
<1>2. QED
  BY <1>1, IceInvariance, PTL

\* No remote tuple is stored twice.
THEOREM IceStoredOnceAlways == IceSpec => []IceStoredOnce
<1>1. IceGood => IceStoredOnce
  BY DEF IceGood, Good, IceStoredOnce
<1>2. QED
  BY <1>1, IceInvariance, PTL

\* Success responses use the credentials of the request they answer.
THEOREM IceResponseMatchesAlways == IceSpec => []IceResponseMatches
<1>1. IceGood => IceResponseMatches
  <2> SUFFICES ASSUME Good(ice), NEW key \in Credentials, Accepts(ice, key)
               PROVE  ResponseCredential(Authenticate(ice, key)) = key
    BY DEF IceGood, IceResponseMatches
  <2>1. ice \in IceRecords
    BY DEF Good
  <2>2. CASE key = ice.credential
    <3>1. Authenticate(ice, key).oldCredential = 0
          /\ Authenticate(ice, key).credential = key
      BY <2>1, <2>2 DEF Authenticate, IceRecords
    <3>2. QED
      BY <3>1 DEF ResponseCredential
  <2>3. CASE key # ice.credential
    <3>1. Authenticate(ice, key) = ice /\ ice.oldCredential # 0
          /\ key = ice.oldCredential
      BY <2>3 DEF Authenticate, Accepts
    <3>2. QED
      BY <3>1 DEF ResponseCredential
  <2>4. QED
    BY <2>2, <2>3
<1>2. QED
  BY <1>1, IceInvariance, PTL

\* Handling and removing tuples leaves the credentials alone.
LEMMA TuplesKeepCredentials ==
    ASSUME NEW s, s \in IceRecords, NEW t \in Tuples,
           NEW useCandidate \in BOOLEAN
    PROVE  /\ RemoveTuple(s, t).credential = s.credential
           /\ RemoveTuple(s, t).oldCredential = s.oldCredential
           /\ HandleTuple(s, t, useCandidate).credential = s.credential
           /\ HandleTuple(s, t, useCandidate).oldCredential = s.oldCredential
<1>1. RemoveTuple(s, t).credential = s.credential
      /\ RemoveTuple(s, t).oldCredential = s.oldCredential
  <2>1. CASE t \notin Stored(s)
    BY <2>1 DEF RemoveTuple
  <2>2. CASE t \in Stored(s) /\ t # s.selected
    BY <2>2 DEF RemoveTuple, IceRecords
  <2>3. CASE t \in Stored(s) /\ t = s.selected /\ Erased(s.tuples, t) # <<>>
    BY <2>3 DEF RemoveTuple, IceRecords
  <2>4. CASE t \in Stored(s) /\ t = s.selected /\ Erased(s.tuples, t) = <<>>
    BY <2>4 DEF RemoveTuple, IceRecords
  <2>5. QED
    BY <2>1, <2>2, <2>3, <2>4
<1>2. HandleTuple(s, t, useCandidate).credential = s.credential
      /\ HandleTuple(s, t, useCandidate).oldCredential = s.oldCredential
  BY DEF HandleTuple, AddTuple, IceRecords
<1>3. QED
  BY <1>1, <1>2

\* A step leaves the credentials alone, retires the old ones, or restarts.
LEMMA CredentialSteps ==
    ASSUME IceGood, [IceNext]_ice
    PROVE  \/ /\ ice'.credential = ice.credential
              /\ ice'.oldCredential \in {ice.oldCredential, 0}
           \/ /\ ice'.credential = ice.credential + 1
              /\ ice'.oldCredential = ice.credential
<1>1. ice \in IceRecords
  BY DEF IceGood, Good
<1>2. ASSUME NEW t \in Tuples, NEW key \in Credentials,
             NEW useCandidate \in BOOLEAN, NEW lost \in BOOLEAN,
             ProcessStunPacket(t, key, useCandidate, lost)
      PROVE  /\ ice'.credential = ice.credential
             /\ ice'.oldCredential \in {ice.oldCredential, 0}
  <2> DEFINE authenticated == Authenticate(ice, key)
             replied == IF lost THEN RemoveTuple(authenticated, t)
                                ELSE authenticated
  <2>1. Good(authenticated)
    BY AuthenticateGood DEF IceGood
  <2>2. Good(replied)
    BY <2>1, RemoveTupleGood
  <2>3. authenticated \in IceRecords /\ replied \in IceRecords
    BY <2>1, <2>2 DEF Good
  <2>4. /\ authenticated.credential = ice.credential
        /\ authenticated.oldCredential \in {ice.oldCredential, 0}
    BY <1>1 DEF Authenticate, IceRecords
  <2>5. /\ replied.credential = authenticated.credential
        /\ replied.oldCredential = authenticated.oldCredential
    BY <2>3, TuplesKeepCredentials
  <2>6. ice' = IF Accepts(ice, key)
               THEN HandleTuple(replied, t, useCandidate) ELSE replied
    BY <1>2 DEF ProcessStunPacket
  <2> HIDE DEF authenticated, replied
  <2>7. ice'.credential = replied.credential
        /\ ice'.oldCredential = replied.oldCredential
    BY <2>3, <2>6, TuplesKeepCredentials
  <2>8. QED
    BY <2>4, <2>5, <2>7
<1>3. ASSUME NEW t \in TcpTuples, TupleClosed(t)
      PROVE  /\ ice'.credential = ice.credential
             /\ ice'.oldCredential = ice.oldCredential
  BY <1>1, <1>3, TuplesKeepCredentials, TcpTuplesAssumption DEF TupleClosed
<1>4. ASSUME NEW t \in Tuples, SelectByDtls(t)
      PROVE  /\ ice'.credential = ice.credential
             /\ ice'.oldCredential = ice.oldCredential
  BY <1>1, <1>4 DEF SelectByDtls, ForceSelectedTuple, IceRecords
<1>5. CASE RestartIce
  BY <1>1, <1>5 DEF RestartIce, RestartCredentials, IceRecords
<1>6. QED
  BY <1>2, <1>3, <1>4, <1>5 DEF IceNext

\* Credentials once refused stay refused: no sequence of restarts and
\* requests brings retired ones back.
THEOREM IceRetiredForGoodAlways == IceSpec => IceRetiredForGood
<1>1. IceGood /\ [IceNext]_ice
      => [\A key \in 1 .. ice.credential :
             ~Accepts(ice, key) => ~Accepts(ice', key)]_ice
  <2> SUFFICES ASSUME IceGood, [IceNext]_ice,
                      NEW key \in 1 .. ice.credential, ~Accepts(ice, key)
               PROVE  ~Accepts(ice', key)
    OBVIOUS
  <2>1. ice.credential \in Nat /\ key \in Nat
    BY DEF IceGood, Good, IceRecords, Credentials
  <2>2. QED
    BY <2>1, CredentialSteps DEF Accepts
<1>2. QED
  BY <1>1, IceInvariance, PTL DEF IceSpec, IceRetiredForGood
-----------------------------------------------------------------------------
(***************************************************************************)
(* The transport.                                                          *)
(***************************************************************************)
Worlds ==
    [ice : IceRecords, open : SUBSET TcpTuples, broken : SUBSET TcpTuples,
     iceSelectedTuple : Tuples \cup {NoTuple},
     dtlsRole : {"auto", "client", "server"}, connected : BOOLEAN,
     dtls : DtlsRecords, rtcpTimer : BOOLEAN,
     consumers : [Consumers -> {"none", "disconnected", "connected"}],
     sctp : SctpStates, toldSctp : SUBSET DataConsumers, aborted : BOOLEAN]

\* What holds of the tuples and connections between any two calls of a handler.
Shape(w) ==
    /\ w \in Worlds
    /\ Good(w.ice)
    /\ w.broken \subseteq w.open
    /\ w.iceSelectedTuple = w.ice.selected

\* What holds of DTLS: an idle one is reset.
DtlsOK(d) ==
    /\ d.state = "connected" => d.fingerprint /\ d.handshakeDone
    /\ ~IsRunning(d) => ~d.handshakeDone /\ ~d.timer /\ d.localRole = "none"

SctpOK(w) ==
    w.toldSctp = IF w.sctp = "connected" THEN Existing(w) \cap DataConsumers ELSE {}

Core(w) ==
    /\ Shape(w)
    /\ DtlsOK(w.dtls)
    /\ w.dtls.fingerprint => w.connected
    /\ SctpOK(w)

\* The role is right at the end of a step only: connect() changes the wanted one
\* before MayRunDtlsTransport() is called.
RoleOK(w) == IsRunning(w.dtls) /\ IceUp(w.ice) => w.dtls.localRole = w.dtlsRole

SameCredentials(w, r) ==
    /\ r.ice.credential = w.ice.credential
    /\ r.ice.oldCredential = w.ice.oldCredential

\* What a call that may lose tuples, and tells consumers so, leaves alone.
Keeps(w, r) ==
    /\ r.dtls = w.dtls /\ r.dtlsRole = w.dtlsRole /\ r.connected = w.connected
    /\ r.sctp = w.sctp /\ r.toldSctp = w.toldSctp /\ r.aborted = w.aborted
    /\ Existing(r) = Existing(w)
    /\ IceUp(r.ice) => IceUp(w.ice)
    /\ SameCredentials(w, r)

IInv == Core(World) /\ RoleOK(World)
-----------------------------------------------------------------------------
(***************************************************************************)
(* Calls that may lose tuples.                                             *)
(***************************************************************************)
LEMMA KeepsCore ==
    ASSUME NEW w, NEW r, Shape(r), Keeps(w, r)
    PROVE  /\ Core(w) => Core(r)
           /\ RoleOK(w) => RoleOK(r)
  BY DEF Core, Keeps, RoleOK, SctpOK

LEMMA KeepsTransitive ==
    ASSUME NEW w, NEW r, NEW u, Keeps(w, r), Keeps(r, u)
    PROVE  Keeps(w, u)
  BY DEF Keeps, SameCredentials

\* Telling consumers changes nothing else.
LEMMA TellConsumersShape ==
    ASSUME NEW w, Shape(w), NEW what \in {"connected", "disconnected"}
    PROVE  /\ Shape(TellConsumers(w, what))
           /\ Keeps(w, TellConsumers(w, what))
<1> DEFINE told == [c \in Consumers |-> IF w.consumers[c] = "none" THEN "none" ELSE what]
           r == TellConsumers(w, what)
<1>1. w \in Worlds
  BY DEF Shape
<1>2. told \in [Consumers -> {"none", "disconnected", "connected"}]
  OBVIOUS
<1>3. r = [w EXCEPT !.consumers = told]
  BY DEF TellConsumers
<1> HIDE DEF told
<1>4. /\ r \in Worlds /\ r.consumers = told /\ r.ice = w.ice /\ r.dtls = w.dtls
      /\ r.dtlsRole = w.dtlsRole /\ r.connected = w.connected /\ r.open = w.open
      /\ r.broken = w.broken /\ r.iceSelectedTuple = w.iceSelectedTuple
      /\ r.sctp = w.sctp /\ r.toldSctp = w.toldSctp /\ r.aborted = w.aborted
  BY <1>1, <1>2, <1>3 DEF Worlds
<1>5. Existing(r) = Existing(w)
  BY <1>4 DEF Existing, told
<1> HIDE DEF r
<1>6. Shape(r) /\ Keeps(w, r)
  BY <1>4, <1>5 DEF Shape, Keeps, SameCredentials
<1> QED
  BY <1>6 DEF r

LEMMA DisconnectedShape ==
    ASSUME NEW w, Shape(w)
    PROVE  /\ Shape(Disconnected(w)) /\ Keeps(w, Disconnected(w))
           /\ ~Disconnected(w).rtcpTimer
<1> DEFINE told == TellConsumers(w, "disconnected")
           r == Disconnected(w)
<1>1. Shape(told) /\ Keeps(w, told)
  BY TellConsumersShape
<1>2. told \in Worlds
  BY <1>1 DEF Shape
<1>3. r = [told EXCEPT !.rtcpTimer = FALSE]
  BY DEF Disconnected
<1> HIDE DEF told
<1>4. /\ r \in Worlds /\ r.consumers = told.consumers /\ r.ice = told.ice
      /\ r.dtls = told.dtls /\ r.rtcpTimer = FALSE
      /\ r.dtlsRole = told.dtlsRole /\ r.connected = told.connected /\ r.open = told.open
      /\ r.broken = told.broken /\ r.iceSelectedTuple = told.iceSelectedTuple
      /\ r.sctp = told.sctp /\ r.toldSctp = told.toldSctp /\ r.aborted = told.aborted
  BY <1>2, <1>3 DEF Worlds
<1> HIDE DEF r
<1>5. Shape(r) /\ Keeps(told, r)
  BY <1>1, <1>4 DEF Shape, Keeps, SameCredentials, Existing
<1> QED
  BY <1>1, <1>4, <1>5, KeepsTransitive DEF r

\* Removing a tuple never brings ICE up.
LEMMA RemovingLosesOnly ==
    ASSUME NEW s \in IceRecords, NEW t, IceUp(RemoveTuple(s, t))
    PROVE  IceUp(s)
  BY DEF RemoveTuple, IceUp, IceRecords

\* The selected tuple of the transport follows that of the ICE server.
LEMMA TupleRemovedShape ==
    ASSUME NEW w, Shape(w), NEW t \in Tuples
    PROVE  /\ Shape(TupleRemoved(w, t)) /\ Keeps(w, TupleRemoved(w, t))
<1> DEFINE removed == RemoveTuple(w.ice, t)
           selected == IF removed.selected # w.ice.selected
                       THEN removed.selected ELSE w.iceSelectedTuple
           r == [w EXCEPT !.ice = removed, !.iceSelectedTuple = selected]
<1>1. w \in Worlds /\ Good(w.ice) /\ w.iceSelectedTuple = w.ice.selected
  BY DEF Shape
<1>2. Good(removed) /\ removed \in IceRecords
  BY <1>1, RemoveTupleGood DEF Good
<1>3. w.ice \in IceRecords
  BY <1>1 DEF Good
<1>4. /\ removed.credential = w.ice.credential
      /\ removed.oldCredential = w.ice.oldCredential
  BY <1>3, TuplesKeepCredentials
<1>5. IceUp(removed) => IceUp(w.ice)
  BY <1>3, RemovingLosesOnly
<1>6. selected = removed.selected
  BY <1>1
<1>7. TupleRemoved(w, t) = IF IceUp(w.ice) /\ ~IceUp(removed) THEN Disconnected(r) ELSE r
  BY <1>1 DEF TupleRemoved
<1> HIDE DEF removed, selected
<1>8. selected \in Tuples \cup {NoTuple}
  BY <1>2, <1>6 DEF IceRecords
<1>9. /\ r \in Worlds /\ r.ice = removed /\ r.iceSelectedTuple = selected
      /\ r.consumers = w.consumers /\ r.dtls = w.dtls
      /\ r.dtlsRole = w.dtlsRole /\ r.connected = w.connected /\ r.open = w.open
      /\ r.broken = w.broken
      /\ r.sctp = w.sctp /\ r.toldSctp = w.toldSctp /\ r.aborted = w.aborted
  BY <1>1, <1>2, <1>8 DEF Worlds
<1> HIDE DEF r
<1>10. Shape(r) /\ Keeps(w, r)
  BY <1>2, <1>4, <1>5, <1>6, <1>9 DEF Shape, Keeps, SameCredentials, Existing
<1> QED
  BY <1>7, <1>10, DisconnectedShape, KeepsTransitive

LEMMA ConnectionClosedShape ==
    ASSUME NEW w, Shape(w), NEW c \in TcpTuples
    PROVE  Shape(ConnectionClosed(w, c)) /\ Keeps(w, ConnectionClosed(w, c))
<1> DEFINE r == [w EXCEPT !.open = @ \ {c}, !.broken = @ \ {c}]
<1>1. w \in Worlds
  BY DEF Shape
<1>2. /\ r \in Worlds /\ r.ice = w.ice /\ r.iceSelectedTuple = w.iceSelectedTuple
      /\ r.consumers = w.consumers /\ r.dtls = w.dtls
      /\ r.dtlsRole = w.dtlsRole /\ r.connected = w.connected /\ r.open = w.open \ {c}
      /\ r.broken = w.broken \ {c}
      /\ r.sctp = w.sctp /\ r.toldSctp = w.toldSctp /\ r.aborted = w.aborted
  BY <1>1 DEF Worlds
<1>3. ConnectionClosed(w, c) = TupleRemoved(r, c) /\ c \in Tuples
  BY TcpTuplesAssumption DEF ConnectionClosed
<1> HIDE DEF r
<1>4. Shape(r) /\ Keeps(w, r)
  BY <1>2 DEF Shape, Keeps, SameCredentials, Existing
<1> QED
  BY <1>3, <1>4, TupleRemovedShape, KeepsTransitive

\* A write may close the connection it is made on.
LEMMA SendOnShape ==
    ASSUME NEW w, Shape(w), NEW t
    PROVE  Shape(SendOn(w, t)) /\ Keeps(w, SendOn(w, t))
<1>1. CASE t \in w.broken
  <2>1. t \in TcpTuples
    BY <1>1 DEF Shape, Worlds
  <2> QED
    BY <1>1, <2>1, ConnectionClosedShape DEF SendOn
<1>2. CASE t \notin w.broken
  BY <1>2 DEF SendOn, Keeps, SameCredentials
<1> QED
  BY <1>1, <1>2

LEMMA SendOnSelectedShape ==
    ASSUME NEW w, Shape(w)
    PROVE  Shape(SendOnSelected(w)) /\ Keeps(w, SendOnSelected(w))
  BY SendOnShape DEF SendOnSelected, Keeps, SameCredentials
-----------------------------------------------------------------------------
(***************************************************************************)
(* SCTP and DTLS.                                                          *)
(***************************************************************************)
\* What every other call leaves alone: DTLS goes on in its role, or stops.
Continues(w, r) ==
    /\ r.dtlsRole = w.dtlsRole
    /\ IceUp(r.ice) => IceUp(w.ice)
    /\ IsRunning(r.dtls) => IsRunning(w.dtls) /\ r.dtls.localRole = w.dtls.localRole
    /\ SameCredentials(w, r)

LEMMA ContinuesFacts ==
    ASSUME NEW w, NEW r
    PROVE  /\ Keeps(w, r) => Continues(w, r)
           /\ \A u : Continues(w, r) /\ Continues(r, u) => Continues(w, u)
           /\ Continues(w, r) /\ RoleOK(w) => RoleOK(r)
  BY DEF Keeps, Continues, SameCredentials, RoleOK

\* A send keeps everything that is needed of a state.
LEMMA SendOnSelectedCore ==
    ASSUME NEW w, Core(w)
    PROVE  /\ Core(SendOnSelected(w)) /\ Continues(w, SendOnSelected(w))
           /\ Keeps(w, SendOnSelected(w))
  BY SendOnSelectedShape, KeepsCore, ContinuesFacts DEF Core

\* DTLS gets other fields.
LEMMA DtlsSet ==
    ASSUME NEW w, Core(w), NEW d \in DtlsRecords, DtlsOK(d),
           d.fingerprint => w.connected
    PROVE  LET r == [w EXCEPT !.dtls = d]
           IN  /\ Core(r) /\ r.dtls = d /\ r.dtlsRole = w.dtlsRole
               /\ r.ice = w.ice /\ SameCredentials(w, r)
<1> DEFINE r == [w EXCEPT !.dtls = d]
<1>1. w \in Worlds
  BY DEF Core, Shape
<1>2. /\ r \in Worlds /\ r.dtls = d /\ r.ice = w.ice
      /\ r.iceSelectedTuple = w.iceSelectedTuple /\ r.consumers = w.consumers
      /\ r.dtlsRole = w.dtlsRole /\ r.connected = w.connected /\ r.open = w.open
      /\ r.broken = w.broken
      /\ r.sctp = w.sctp /\ r.toldSctp = w.toldSctp /\ r.aborted = w.aborted
  BY <1>1 DEF Worlds
<1> HIDE DEF r
<1>3. Core(r) /\ SameCredentials(w, r)
  BY <1>2 DEF Core, Shape, SctpOK, Existing, SameCredentials
<1> QED
  BY <1>2, <1>3 DEF r

\* The association and what the DataConsumers were told of it change together.
LEMMA SctpSet ==
    ASSUME NEW w, Core(w), NEW st \in SctpStates,
           NEW told, told = IF st = "connected" THEN Existing(w) \cap DataConsumers ELSE {}
    PROVE  LET r == [w EXCEPT !.sctp = st, !.toldSctp = told]
           IN  Core(r) /\ Continues(w, r)
<1> DEFINE r == [w EXCEPT !.sctp = st, !.toldSctp = told]
<1>1. w \in Worlds
  BY DEF Core, Shape
<1>2. /\ r \in Worlds /\ r.dtls = w.dtls /\ r.ice = w.ice
      /\ r.iceSelectedTuple = w.iceSelectedTuple /\ r.consumers = w.consumers
      /\ r.dtlsRole = w.dtlsRole /\ r.connected = w.connected /\ r.open = w.open
      /\ r.broken = w.broken
      /\ r.sctp = st /\ r.toldSctp = told /\ r.aborted = w.aborted
  BY <1>1 DEF Worlds
<1> HIDE DEF r
<1>3. Core(r) /\ Continues(w, r)
  BY <1>2 DEF Core, Shape, SctpOK, Existing, SameCredentials, Continues
<1> QED
  BY <1>3 DEF r

\* An assertion fails: nothing else changes.
LEMMA AbortedCore ==
    ASSUME NEW w, Core(w)
    PROVE  Core([w EXCEPT !.aborted = TRUE]) /\ Continues(w, [w EXCEPT !.aborted = TRUE])
<1> DEFINE r == [w EXCEPT !.aborted = TRUE]
<1>1. w \in Worlds
  BY DEF Core, Shape
<1>2. /\ r \in Worlds /\ r.dtls = w.dtls /\ r.ice = w.ice
      /\ r.iceSelectedTuple = w.iceSelectedTuple /\ r.consumers = w.consumers
      /\ r.dtlsRole = w.dtlsRole /\ r.connected = w.connected /\ r.open = w.open
      /\ r.broken = w.broken /\ r.sctp = w.sctp /\ r.toldSctp = w.toldSctp
  BY <1>1 DEF Worlds
<1> HIDE DEF r
<1>3. Core(r) /\ Continues(w, r)
  BY <1>2 DEF Core, Shape, SctpOK, Existing, SameCredentials, Continues
<1> QED
  BY <1>3 DEF r

\* The RTCP timer is not in the invariant.
LEMMA RtcpTimerSet ==
    ASSUME NEW w, Core(w), NEW b \in BOOLEAN
    PROVE  Core([w EXCEPT !.rtcpTimer = b]) /\ Continues(w, [w EXCEPT !.rtcpTimer = b])
<1> DEFINE r == [w EXCEPT !.rtcpTimer = b]
<1>1. w \in Worlds
  BY DEF Core, Shape
<1>2. /\ r \in Worlds /\ r.dtls = w.dtls /\ r.ice = w.ice
      /\ r.iceSelectedTuple = w.iceSelectedTuple /\ r.consumers = w.consumers
      /\ r.dtlsRole = w.dtlsRole /\ r.connected = w.connected /\ r.open = w.open
      /\ r.broken = w.broken /\ r.sctp = w.sctp /\ r.toldSctp = w.toldSctp
  BY <1>1 DEF Worlds
<1> HIDE DEF r
<1>3. Core(r) /\ Continues(w, r)
  BY <1>2 DEF Core, Shape, SctpOK, Existing, SameCredentials, Continues
<1> QED
  BY <1>3 DEF r

LEMMA RunSctpCore ==
    ASSUME NEW w, Core(w), NEW sctpOk \in BOOLEAN
    PROVE  Core(RunSctp(w, sctpOk)) /\ Continues(w, RunSctp(w, sctpOk))
<1>1. CASE w.sctp # "new"
  BY <1>1, AbortedCore DEF RunSctp
<1>2. CASE w.sctp = "new" /\ sctpOk
  <2> DEFINE u == SendOnSelected(w)
             r == [u EXCEPT !.sctp = "connecting", !.toldSctp = {}]
  <2>1. Core(u) /\ Continues(w, u) /\ u.sctp = "new"
    BY <1>2, SendOnSelectedCore DEF Keeps
  <2>2. u \in Worlds /\ u.toldSctp = {}
    BY <2>1 DEF Core, Shape, SctpOK
  <2>3. RunSctp(w, sctpOk) = [u EXCEPT !.sctp = "connecting"]
    BY <1>2 DEF RunSctp
  <2> HIDE DEF u
  <2>4. [u EXCEPT !.sctp = "connecting"] = r
    BY <2>2 DEF Worlds
  <2>5. Core(r) /\ Continues(u, r)
    BY <2>1, SctpSet DEF SctpStates
  <2> QED
    BY <2>1, <2>3, <2>4, <2>5, ContinuesFacts
<1>3. CASE w.sctp = "new" /\ ~sctpOk
  BY <1>3, SctpSet DEF RunSctp, SctpStates
<1> QED
  BY <1>1, <1>2, <1>3

LEMMA ConnectedCore ==
    ASSUME NEW w, Core(w), NEW sctpOk \in BOOLEAN
    PROVE  Core(Connected(w, sctpOk)) /\ Continues(w, Connected(w, sctpOk))
<1> DEFINE u == TellConsumers(w, "connected")
           told == [u EXCEPT !.rtcpTimer = TRUE]
<1>1. Core(u) /\ Continues(w, u)
  BY TellConsumersShape, KeepsCore, ContinuesFacts DEF Core
<1>2. Core(told) /\ Continues(u, told)
  BY <1>1, RtcpTimerSet
<1>3. Connected(w, sctpOk) = IF EnableSctp THEN RunSctp(told, sctpOk) ELSE told
  BY DEF Connected
<1> QED
  BY <1>1, <1>2, <1>3, RunSctpCore, ContinuesFacts

\* A reset DTLS is idle.
LEMMA ResetFacts ==
    ASSUME NEW d \in DtlsRecords, DtlsOK(d)
    PROVE  /\ Reset(d) \in DtlsRecords /\ Reset(d).localRole = "none"
           /\ ~Reset(d).handshakeDone /\ ~Reset(d).timer
           /\ Reset(d).fingerprint = d.fingerprint
  BY DEF Reset, DtlsRecords, DtlsStates, DtlsOK, IsRunning

LEMMA DtlsFailedCore ==
    ASSUME NEW w, Core(w)
    PROVE  Core(DtlsFailed(w)) /\ Continues(w, DtlsFailed(w))
<1> DEFINE d == [Reset(w.dtls) EXCEPT !.state = "failed"]
<1>1. w.dtls \in DtlsRecords /\ DtlsOK(w.dtls) /\ (w.dtls.fingerprint => w.connected)
  BY DEF Core, Shape, Worlds
<1>2. /\ d \in DtlsRecords /\ DtlsOK(d) /\ ~IsRunning(d)
      /\ d.fingerprint = w.dtls.fingerprint
  BY <1>1, ResetFacts DEF DtlsRecords, DtlsStates, DtlsOK, IsRunning
<1>3. DtlsFailed(w) = [w EXCEPT !.dtls = d]
  BY DEF DtlsFailed
<1> HIDE DEF d
<1> QED
  BY <1>1, <1>2, <1>3, DtlsSet DEF Continues

LEMMA DtlsClosedCore ==
    ASSUME NEW w, Core(w)
    PROVE  Core(DtlsClosed(w)) /\ Continues(w, DtlsClosed(w))
<1> DEFINE d == [Reset(w.dtls) EXCEPT !.state = "closed"]
           r == [w EXCEPT !.dtls = d]
<1>1. w.dtls \in DtlsRecords /\ DtlsOK(w.dtls) /\ (w.dtls.fingerprint => w.connected)
  BY DEF Core, Shape, Worlds
<1>2. /\ d \in DtlsRecords /\ DtlsOK(d) /\ ~IsRunning(d)
      /\ d.fingerprint = w.dtls.fingerprint
  BY <1>1, ResetFacts DEF DtlsRecords, DtlsStates, DtlsOK, IsRunning
<1>3. DtlsClosed(w) = Disconnected(r)
  BY DEF DtlsClosed
<1> HIDE DEF d
<1>4. Core(r) /\ Continues(w, r)
  BY <1>1, <1>2, DtlsSet DEF Continues
<1>5. Core(Disconnected(r)) /\ Continues(r, Disconnected(r))
  BY <1>4, DisconnectedShape, KeepsCore, ContinuesFacts DEF Core
<1> QED
  BY <1>3, <1>4, <1>5, ContinuesFacts

\* The timeout that OpenSSL asks for.
LEMMA SetTimeoutCore ==
    ASSUME NEW w, Core(w), NEW timeout \in Timeouts
    PROVE  Core(SetTimeout(w, timeout)) /\ Continues(w, SetTimeout(w, timeout))
<1>1. CASE ~IsRunning(w.dtls)
  BY <1>1, AbortedCore DEF SetTimeout
<1>2. CASE IsRunning(w.dtls) /\ timeout = "none"
  <2>1. SetTimeout(w, timeout) = w
    BY <1>2 DEF SetTimeout
  <2> QED
    BY <2>1 DEF Continues, SameCredentials
<1>3. CASE IsRunning(w.dtls) /\ timeout = "short"
  <2> DEFINE d == [w.dtls EXCEPT !.timer = TRUE]
  <2>1. w \in Worlds /\ w.dtls \in DtlsRecords /\ DtlsOK(w.dtls)
        /\ (w.dtls.fingerprint => w.connected)
    BY DEF Core, Shape, Worlds
  <2>2. /\ d \in DtlsRecords /\ DtlsOK(d) /\ d.localRole = w.dtls.localRole
        /\ d.fingerprint = w.dtls.fingerprint
    BY <1>3, <2>1 DEF DtlsRecords, DtlsStates, DtlsOK, IsRunning
  <2>3. SetTimeout(w, timeout) = [w EXCEPT !.dtls = d]
    BY <1>3, <2>1 DEF SetTimeout
  <2> HIDE DEF d
  <2>4. LET r == [w EXCEPT !.dtls = d]
        IN  /\ Core(r) /\ r.dtls = d /\ r.dtlsRole = w.dtlsRole
            /\ r.ice = w.ice /\ SameCredentials(w, r)
    BY <2>1, <2>2, DtlsSet
  <2> QED
    BY <1>3, <2>2, <2>3, <2>4 DEF Continues
<1>4. CASE IsRunning(w.dtls) /\ timeout = "long"
  <2>1. SetTimeout(w, timeout) = DtlsFailed(w)
    BY <1>4 DEF SetTimeout
  <2> QED
    BY <2>1, DtlsFailedCore
<1> QED
  BY <1>1, <1>2, <1>3, <1>4 DEF Timeouts

\* The end of the handshake, with a fingerprint to check.
LEMMA ProcessHandshakeCore ==
    ASSUME NEW w, Core(w), NEW verified \in BOOLEAN, NEW sctpOk \in BOOLEAN,
           IsRunning(w.dtls), w.dtls.handshakeDone, w.dtls.fingerprint
    PROVE  /\ Core(ProcessHandshake(w, verified, sctpOk))
           /\ Continues(w, ProcessHandshake(w, verified, sctpOk))
<1>1. CASE verified
  <2> DEFINE d == [w.dtls EXCEPT !.state = "connected"]
             r == [w EXCEPT !.dtls = d]
  <2>1. w \in Worlds /\ w.dtls \in DtlsRecords /\ DtlsOK(w.dtls) /\ w.connected
    BY DEF Core, Shape, Worlds
  <2>2. /\ d \in DtlsRecords /\ DtlsOK(d) /\ IsRunning(d)
        /\ d.localRole = w.dtls.localRole
    BY <2>1 DEF DtlsRecords, DtlsStates, DtlsOK, IsRunning
  <2>3. ProcessHandshake(w, verified, sctpOk) = Connected(r, sctpOk)
    BY <1>1, <2>1 DEF ProcessHandshake
  <2> HIDE DEF d
  <2>4. Core(r) /\ Continues(w, r)
    BY <2>1, <2>2, DtlsSet DEF Continues
  <2> QED
    BY <2>3, <2>4, ConnectedCore, ContinuesFacts
<1>2. CASE ~verified
  BY <1>2, DtlsFailedCore DEF ProcessHandshake
<1> QED
  BY <1>1, <1>2

\* DTLS starts in a role, or goes on in it.
LEMMA RunCore ==
    ASSUME NEW w, Core(w), NEW role \in {"client", "server"}
    PROVE  LET r == Run(w, role)
           IN  /\ Core(r) /\ r.dtlsRole = w.dtlsRole /\ SameCredentials(w, r)
               /\ IsRunning(r.dtls) => r.dtls.localRole = role
<1> DEFINE d == [Reset(w.dtls) EXCEPT !.localRole = role, !.state = "connecting"]
           started == [w EXCEPT !.dtls = d]
           u == SendOnSelected(started)
<1>1. w.dtls \in DtlsRecords /\ DtlsOK(w.dtls) /\ (w.dtls.fingerprint => w.connected)
  BY DEF Core, Shape, Worlds
<1>2. /\ d \in DtlsRecords /\ DtlsOK(d) /\ d.localRole = role
      /\ d.state = "connecting" /\ ~d.handshakeDone
      /\ d.fingerprint = w.dtls.fingerprint
  BY <1>1, ResetFacts DEF DtlsRecords, DtlsStates, DtlsOK, IsRunning
<1>3. Run(w, role) = IF w.dtls.localRole = role THEN w
                     ELSE IF role = "server" THEN started
                     ELSE SetTimeout(u, "short")
  BY DEF Run
<1> HIDE DEF d
<1>4. /\ Core(started) /\ started.dtls = d /\ started.dtlsRole = w.dtlsRole
      /\ SameCredentials(w, started)
  BY <1>1, <1>2, DtlsSet
<1> HIDE DEF started
<1>5. /\ Core(u) /\ u.dtls = d /\ u.dtlsRole = w.dtlsRole /\ Continues(started, u)
  BY <1>4, SendOnSelectedCore DEF Keeps
<1> HIDE DEF u
<1>6. Core(SetTimeout(u, "short")) /\ Continues(u, SetTimeout(u, "short"))
  BY <1>2, <1>5, SetTimeoutCore DEF Timeouts
<1>7. CASE w.dtls.localRole = role
  BY <1>3, <1>7 DEF SameCredentials
<1>8. CASE w.dtls.localRole # role /\ role = "server"
  BY <1>2, <1>3, <1>4, <1>8
<1>9. CASE w.dtls.localRole # role /\ role # "server"
  <2>1. Run(w, role) = SetTimeout(u, "short")
    BY <1>3, <1>9
  <2> QED
    BY <1>2, <1>4, <1>5, <1>6, <2>1 DEF Continues, SameCredentials
<1> QED
  BY <1>7, <1>8, <1>9

LEMMA RoleSet ==
    ASSUME NEW w, Core(w), NEW role \in {"auto", "client", "server"}
    PROVE  LET r == [w EXCEPT !.dtlsRole = role]
           IN  Core(r) /\ r.dtlsRole = role /\ SameCredentials(w, r)
<1> DEFINE r == [w EXCEPT !.dtlsRole = role]
<1>1. w \in Worlds
  BY DEF Core, Shape
<1>2. /\ r \in Worlds /\ r.dtls = w.dtls /\ r.ice = w.ice
      /\ r.iceSelectedTuple = w.iceSelectedTuple /\ r.consumers = w.consumers
      /\ r.dtlsRole = role /\ r.connected = w.connected /\ r.open = w.open
      /\ r.broken = w.broken /\ r.sctp = w.sctp /\ r.toldSctp = w.toldSctp
  BY <1>1 DEF Worlds
<1> HIDE DEF r
<1>3. Core(r) /\ r.dtlsRole = role /\ SameCredentials(w, r)
  BY <1>2 DEF Core, Shape, SctpOK, Existing, SameCredentials
<1> QED
  BY <1>3 DEF r

\* Whatever role was wanted and run before, it is right afterwards.
LEMMA MayRunDtlsTransportCore ==
    ASSUME NEW w, Core(w)
    PROVE  LET r == MayRunDtlsTransport(w)
           IN  Core(r) /\ RoleOK(r) /\ SameCredentials(w, r)
<1> DEFINE role == IF w.dtlsRole = "auto" THEN "server" ELSE w.dtlsRole
           u == [w EXCEPT !.dtlsRole = role]
<1>1. CASE w.dtls.localRole # w.dtlsRole /\ IceUp(w.ice)
  <2>1. role \in {"client", "server"}
    BY DEF Core, Shape, Worlds
  <2>2. MayRunDtlsTransport(w) = Run(u, role)
    BY <1>1 DEF MayRunDtlsTransport
  <2> HIDE DEF role
  <2>3. Core(u) /\ u.dtlsRole = role /\ SameCredentials(w, u)
    BY <2>1, RoleSet
  <2> HIDE DEF u
  <2>4. LET r == Run(u, role)
        IN  /\ Core(r) /\ r.dtlsRole = role /\ SameCredentials(u, r)
            /\ IsRunning(r.dtls) => r.dtls.localRole = role
    BY <2>1, <2>3, RunCore
  <2> QED
    BY <2>2, <2>3, <2>4 DEF RoleOK, SameCredentials
<1>2. CASE ~(w.dtls.localRole # w.dtlsRole /\ IceUp(w.ice))
  <2>1. MayRunDtlsTransport(w) = w
    BY <1>2 DEF MayRunDtlsTransport
  <2> QED
    BY <1>2, <2>1 DEF RoleOK, SameCredentials
<1> QED
  BY <1>1, <1>2

LEMMA SctpNotifiedCore ==
    ASSUME NEW w, Core(w), NEW what \in {"up", "closed", "failed"}
    PROVE  Core(SctpNotified(w, what)) /\ Continues(w, SctpNotified(w, what))
<1>1. CASE what = "up"
  <2> DEFINE told == Existing(w) \cap DataConsumers
  <2>1. SctpNotified(w, what) = [w EXCEPT !.sctp = "connected", !.toldSctp = told]
    BY <1>1 DEF SctpNotified
  <2>2. told = IF "connected" = "connected" THEN Existing(w) \cap DataConsumers ELSE {}
    OBVIOUS
  <2> HIDE DEF told
  <2>3. "connected" \in SctpStates
    BY DEF SctpStates
  <2>4. LET r == [w EXCEPT !.sctp = "connected", !.toldSctp = told]
        IN  Core(r) /\ Continues(w, r)
    BY <2>2, <2>3, SctpSet
  <2> QED
    BY <2>1, <2>4
<1>2. CASE what \in {"closed", "failed"}
  <2> DEFINE told == {}
  <2>1. SctpNotified(w, what) = [w EXCEPT !.sctp = what, !.toldSctp = told]
    BY <1>2 DEF SctpNotified
  <2>2. told = IF what = "connected" THEN Existing(w) \cap DataConsumers ELSE {}
    BY <1>2
  <2> HIDE DEF told
  <2>3. what \in SctpStates
    BY <1>2 DEF SctpStates
  <2>4. LET r == [w EXCEPT !.sctp = what, !.toldSctp = told]
        IN  Core(r) /\ Continues(w, r)
    BY <2>2, <2>3, SctpSet
  <2> QED
    BY <2>1, <2>4
<1> QED
  BY <1>1, <1>2
-----------------------------------------------------------------------------
(***************************************************************************)
(* The steps.                                                              *)
(***************************************************************************)
\* The credentials stay, but for retired ones and a restart.
CredentialStep(w, r) ==
    \/ /\ r.ice.credential = w.ice.credential
       /\ r.ice.oldCredential \in {w.ice.oldCredential, 0}
    \/ /\ r.ice.credential = w.ice.credential + 1
       /\ r.ice.oldCredential = w.ice.credential

\* What a step may make of the state.
Allowed(r) == Core(r) /\ RoleOK(r) /\ CredentialStep(World, r)

LEMMA ContinuingIsAllowed ==
    ASSUME IInv, NEW r, Core(r), Continues(World, r)
    PROVE  Allowed(r)
  BY ContinuesFacts DEF IInv, Allowed, Continues, SameCredentials, CredentialStep

\* The fields of the state.
LEMMA WorldFields ==
    /\ World.ice = ice /\ World.open = open /\ World.broken = broken
    /\ World.iceSelectedTuple = iceSelectedTuple /\ World.dtlsRole = dtlsRole
    /\ World.connected = connected /\ World.dtls = dtls /\ World.rtcpTimer = rtcpTimer
    /\ World.consumers = consumers /\ World.sctp = sctp /\ World.toldSctp = toldSctp
    /\ World.aborted = aborted
  BY DEF World

LEMMA BecomeWorld ==
    ASSUME NEW r, r \in Worlds, Become(r)
    PROVE  World' = r
<1>1. r = [ice |-> r.ice, open |-> r.open, broken |-> r.broken,
           iceSelectedTuple |-> r.iceSelectedTuple, dtlsRole |-> r.dtlsRole,
           connected |-> r.connected, dtls |-> r.dtls, rtcpTimer |-> r.rtcpTimer,
           consumers |-> r.consumers, sctp |-> r.sctp, toldSctp |-> r.toldSctp,
           aborted |-> r.aborted]
  BY DEF Worlds
<1> QED
  BY <1>1 DEF Become, World

LEMMA ConnectAllowed ==
    ASSUME IInv, NEW remoteRole \in {"client", "server", "auto"},
           NEW verified \in BOOLEAN, NEW sctpOk \in BOOLEAN,
           Connect(remoteRole, verified, sctpOk)
    PROVE  \E r : Allowed(r) /\ Become(r)
<1> DEFINE d == [dtls EXCEPT !.fingerprint = TRUE]
           role == IF remoteRole = "client" THEN "server" ELSE "client"
           w == [World EXCEPT !.connected = TRUE, !.dtls.fingerprint = TRUE,
                              !.dtlsRole = role]
           handshaken == dtls.handshakeDone /\ dtls.state # "connected"
           processed == IF handshaken THEN ProcessHandshake(w, verified, sctpOk) ELSE w
           r == IF handshaken /\ ~verified THEN processed ELSE MayRunDtlsTransport(processed)
<1>1. /\ Core(World) /\ World \in Worlds /\ World.dtls = dtls
      /\ dtls \in DtlsRecords /\ DtlsOK(dtls)
  BY WorldFields DEF IInv, Core, Shape, Worlds
<1>2. d \in DtlsRecords /\ DtlsOK(d) /\ d.handshakeDone = dtls.handshakeDone
      /\ d.fingerprint /\ d.state = dtls.state
  BY <1>1 DEF DtlsRecords, DtlsOK, IsRunning
<1>3. Become(r)
  BY DEF Connect
<1>4. w = [World EXCEPT !.connected = TRUE, !.dtls = d, !.dtlsRole = role]
  BY <1>1
<1> HIDE DEF d
<1>5. /\ w \in Worlds /\ w.dtls = d /\ w.ice = World.ice
      /\ w.iceSelectedTuple = World.iceSelectedTuple /\ w.consumers = World.consumers
      /\ w.connected /\ w.open = World.open /\ w.broken = World.broken
      /\ w.sctp = World.sctp /\ w.toldSctp = World.toldSctp
  BY <1>1, <1>2, <1>4 DEF Worlds
<1> HIDE DEF w
<1>6. Core(w) /\ SameCredentials(World, w)
  BY <1>1, <1>2, <1>5 DEF Core, Shape, SctpOK, Existing, SameCredentials
<1>7. handshaken => IsRunning(d) /\ d.handshakeDone /\ d.fingerprint
  BY <1>1, <1>2 DEF DtlsOK, IsRunning
<1>8. Core(processed) /\ SameCredentials(World, processed)
  <2>1. CASE handshaken
    BY <1>5, <1>6, <1>7, <2>1, ProcessHandshakeCore DEF Continues, SameCredentials
  <2>2. CASE ~handshaken
    BY <1>6, <2>2
  <2> QED
    BY <2>1, <2>2
<1>9. handshaken /\ ~verified => RoleOK(processed)
  <2> SUFFICES ASSUME handshaken, ~verified PROVE ~IsRunning(processed.dtls)
    BY DEF RoleOK
  <2>1. processed = [w EXCEPT !.dtls = [Reset(w.dtls) EXCEPT !.state = "failed"]]
    BY DEF ProcessHandshake, DtlsFailed
  <2>2. Reset(w.dtls) \in DtlsRecords
    BY <1>2, <1>5, ResetFacts
  <2> QED
    BY <1>5, <2>1, <2>2 DEF IsRunning, DtlsRecords, Worlds
<1> HIDE DEF processed
<1>10. Core(r) /\ RoleOK(r) /\ SameCredentials(World, r)
  BY <1>8, <1>9, MayRunDtlsTransportCore DEF SameCredentials
<1> QED
  BY <1>3, <1>10 DEF Allowed, CredentialStep, SameCredentials

LEMMA StunRequestAllowed ==
    ASSUME IInv, NEW t \in Tuples, NEW key \in Credentials, NEW useCandidate \in BOOLEAN,
           StunRequest(t, key, useCandidate)
    PROVE  \E r : Allowed(r) /\ Become(r)
<1> DEFINE authenticated == Authenticate(ice, key)
           a == [World EXCEPT !.ice = authenticated]
           replied == SendOn(a, t)
           handled == HandleTuple(replied.ice, t, useCandidate)
           selected == IF handled.selected # replied.ice.selected
                       THEN handled.selected ELSE replied.iceSelectedTuple
           w == [replied EXCEPT !.ice = handled, !.iceSelectedTuple = selected]
           r == IF ~Accepts(ice, key) THEN replied
                ELSE IF handled.state # replied.ice.state
                THEN MayRunDtlsTransport(w) ELSE w
<1>1. /\ Core(World) /\ RoleOK(World) /\ World \in Worlds /\ World.ice = ice
      /\ Good(ice) /\ ice \in IceRecords
  BY WorldFields DEF IInv, Core, Shape, Worlds
<1>2. /\ Good(authenticated) /\ authenticated \in IceRecords
      /\ authenticated.state = ice.state /\ authenticated.selected = ice.selected
      /\ authenticated.credential = ice.credential
      /\ authenticated.oldCredential \in {ice.oldCredential, 0}
  <2>1. Good(authenticated)
    BY <1>1, AuthenticateGood
  <2> QED
    BY <1>1, <2>1 DEF Good, Authenticate, IceRecords
<1>3. Become(r)
  <2>1. w = [replied EXCEPT !.ice = handled,
                            !.iceSelectedTuple =
                               IF handled.selected # replied.ice.selected
                               THEN handled.selected ELSE @]
    BY SendOnShape, <1>1, <1>2
  <2> QED
    BY <2>1 DEF StunRequest
<1> HIDE DEF authenticated
<1>4. /\ a \in Worlds /\ a.dtls = World.dtls /\ a.ice = authenticated
      /\ a.iceSelectedTuple = World.iceSelectedTuple /\ a.consumers = World.consumers
      /\ a.dtlsRole = World.dtlsRole /\ a.connected = World.connected
      /\ a.open = World.open /\ a.broken = World.broken
      /\ a.sctp = World.sctp /\ a.toldSctp = World.toldSctp
  BY <1>1, <1>2 DEF Worlds
<1> HIDE DEF a
<1>5. Core(a) /\ RoleOK(a) /\ CredentialStep(World, a)
  BY <1>1, <1>2, <1>4
     DEF Core, Shape, SctpOK, Existing, RoleOK, IceUp, CredentialStep
<1>6. /\ Shape(replied) /\ Keeps(a, replied) /\ Core(replied) /\ RoleOK(replied)
  BY <1>5, SendOnShape, KeepsCore DEF Core
<1>7. CredentialStep(World, replied)
  BY <1>5, <1>6 DEF Keeps, SameCredentials, CredentialStep
<1> HIDE DEF replied
<1>8. /\ replied \in Worlds /\ Good(replied.ice) /\ replied.ice \in IceRecords
      /\ replied.iceSelectedTuple = replied.ice.selected
  BY <1>6 DEF Shape, Good
<1>9. /\ Good(handled) /\ handled \in IceRecords
      /\ handled.credential = replied.ice.credential
      /\ handled.oldCredential = replied.ice.oldCredential
  BY <1>8, HandleTupleGood, TuplesKeepCredentials DEF Good
<1>10. selected = handled.selected
  BY <1>8
<1> HIDE DEF handled, selected
<1>11. selected \in Tuples \cup {NoTuple}
  BY <1>9, <1>10 DEF IceRecords
<1>12. /\ w \in Worlds /\ w.dtls = replied.dtls /\ w.ice = handled
       /\ w.iceSelectedTuple = selected /\ w.consumers = replied.consumers
       /\ w.dtlsRole = replied.dtlsRole /\ w.connected = replied.connected
       /\ w.open = replied.open /\ w.broken = replied.broken
       /\ w.sctp = replied.sctp /\ w.toldSctp = replied.toldSctp
  BY <1>8, <1>9, <1>11 DEF Worlds
<1> HIDE DEF w
<1>13. Core(w) /\ SameCredentials(replied, w)
  BY <1>6, <1>9, <1>10, <1>12 DEF Core, Shape, SctpOK, Existing, SameCredentials
<1>14. handled.state = replied.ice.state => RoleOK(w)
  BY <1>6, <1>12 DEF RoleOK, IceUp
<1>15. Core(r) /\ RoleOK(r) /\ CredentialStep(World, r)
  <2>1. CASE ~Accepts(ice, key)
    BY <1>6, <1>7, <2>1
  <2>2. CASE Accepts(ice, key) /\ handled.state # replied.ice.state
    <3>1. r = MayRunDtlsTransport(w)
      BY <2>2
    <3> QED
      BY <1>7, <1>13, <3>1, MayRunDtlsTransportCore DEF CredentialStep, SameCredentials
  <2>3. CASE Accepts(ice, key) /\ handled.state = replied.ice.state
    BY <1>7, <1>13, <1>14, <2>3 DEF CredentialStep, SameCredentials
  <2> QED
    BY <2>1, <2>2, <2>3
<1> QED
  BY <1>3, <1>15 DEF Allowed

\* DTLS data selects its tuple, and the reply may lose it.
LEMMA DtlsReadCore ==
    ASSUME IInv, NEW t \in DtlsSources, NEW read \in DtlsRead(t)
    PROVE  /\ Core(read) /\ Continues(World, read)
           /\ read.dtls = dtls
           /\ read.connected = connected
<1> DEFINE selected == IF t # ice.selected THEN t ELSE iceSelectedTuple
           forced == ForceSelectedTuple(ice, t)
           w == DtlsInput(t)
<1>1. /\ Core(World) /\ World \in Worlds /\ World.ice = ice /\ World.dtls = dtls
      /\ Good(ice) /\ ice \in IceRecords /\ iceSelectedTuple = ice.selected
      /\ World.iceSelectedTuple = iceSelectedTuple /\ World.connected = connected
      /\ t \in Tuples /\ HasTuple(ice, t)
  BY WorldFields DEF IInv, Core, Shape, Worlds, DtlsSources
<1>2. selected = t
  BY <1>1
<1>3. /\ Good(forced) /\ forced \in IceRecords /\ forced.selected = t
      /\ forced.state = ice.state /\ forced.credential = ice.credential
      /\ forced.oldCredential = ice.oldCredential
  <2>1. Good(forced)
    BY <1>1, ForceSelectedTupleGood
  <2> QED
    BY <1>1, <2>1 DEF Good, ForceSelectedTuple, IceRecords
<1>4. w = [World EXCEPT !.ice = forced, !.iceSelectedTuple = selected]
  BY <1>1 DEF DtlsInput
<1> HIDE DEF forced, selected
<1>5. /\ w \in Worlds /\ w.dtls = World.dtls /\ w.ice = forced
      /\ w.iceSelectedTuple = t /\ w.consumers = World.consumers
      /\ w.dtlsRole = World.dtlsRole /\ w.connected = World.connected
      /\ w.open = World.open /\ w.broken = World.broken
      /\ w.sctp = World.sctp /\ w.toldSctp = World.toldSctp
  BY <1>1, <1>2, <1>3, <1>4 DEF Worlds
<1> HIDE DEF w
<1>6. Core(w) /\ Continues(World, w)
  BY <1>1, <1>3, <1>5
     DEF Core, Shape, SctpOK, Existing, Continues, SameCredentials, IceUp
<1>7. read = w \/ read = SendOnSelected(w)
  BY DEF DtlsRead, w
<1>8. /\ Core(SendOnSelected(w)) /\ Continues(w, SendOnSelected(w))
      /\ Keeps(w, SendOnSelected(w))
  BY <1>6, SendOnSelectedCore
<1>9. CASE read = SendOnSelected(w)
  BY <1>1, <1>5, <1>6, <1>8, <1>9, ContinuesFacts DEF Keeps
<1>10. CASE read = w
  BY <1>1, <1>5, <1>6, <1>10
<1> QED
  BY <1>7, <1>9, <1>10

LEMMA DtlsProgressAllowed ==
    ASSUME IInv, NEW t \in DtlsSources, NEW read \in DtlsRead(t), NEW timeout \in Timeouts,
           DtlsProgress(read, timeout)
    PROVE  \E r : Allowed(r) /\ Become(r)
<1> DEFINE w == read
           r == IF IsRunning(dtls) THEN SetTimeout(w, timeout) ELSE w
<1>1. Become(r)
  BY DEF DtlsProgress
<1>2. Core(w) /\ Continues(World, w)
  BY <1>1, DtlsReadCore
<1> HIDE DEF w
<1>3. Core(SetTimeout(w, timeout)) /\ Continues(w, SetTimeout(w, timeout))
  BY <1>2, SetTimeoutCore
<1>4. Core(r) /\ Continues(World, r)
  BY <1>2, <1>3, ContinuesFacts
<1> QED
  BY <1>1, <1>4, ContinuingIsAllowed

LEMMA DtlsHandshakeDoneAllowed ==
    ASSUME IInv, NEW t \in DtlsSources, NEW read \in DtlsRead(t), NEW verified \in BOOLEAN,
           NEW sctpOk \in BOOLEAN, NEW timeout \in Timeouts,
           DtlsHandshakeDone(read, verified, sctpOk, timeout)
    PROVE  \E r : Allowed(r) /\ Become(r)
<1> DEFINE u == read
           d == [u.dtls EXCEPT !.handshakeDone = TRUE, !.timer = FALSE]
           w == [u EXCEPT !.dtls = d]
           p == IF dtls.fingerprint THEN ProcessHandshake(w, verified, sctpOk) ELSE w
           r == IF dtls.fingerprint /\ ~verified THEN p ELSE SetTimeout(p, timeout)
<1>1. IsRunning(dtls)
  BY DEF DtlsHandshakeDone
<1>2. Core(u) /\ Continues(World, u) /\ u.dtls = dtls
  BY <1>1, DtlsReadCore
<1>3. /\ u \in Worlds /\ dtls \in DtlsRecords /\ DtlsOK(dtls)
      /\ (dtls.fingerprint => u.connected)
  BY <1>2 DEF Core, Shape, Worlds
<1>4. Become(r)
  <2>1. w = Handshaken(read)
    BY <1>3 DEF Worlds, Handshaken
  <2> QED
    BY <2>1 DEF DtlsHandshakeDone
<1> HIDE DEF u
<1>5. /\ d \in DtlsRecords /\ DtlsOK(d) /\ IsRunning(d) /\ d.handshakeDone
      /\ d.localRole = dtls.localRole /\ d.fingerprint = dtls.fingerprint
  BY <1>1, <1>2, <1>3 DEF DtlsRecords, DtlsOK, IsRunning
<1> HIDE DEF d
<1>6. Core(w) /\ w.dtls = d /\ Continues(u, w)
  <2>1. /\ Core(w) /\ w.dtls = d /\ w.dtlsRole = u.dtlsRole
        /\ w.ice = u.ice /\ SameCredentials(u, w)
    BY <1>2, <1>3, <1>5, DtlsSet
  <2> QED
    BY <1>1, <1>2, <1>5, <2>1 DEF Continues
<1> HIDE DEF w
<1>7. Core(p) /\ Continues(w, p)
  <2>1. CASE dtls.fingerprint
    BY <1>5, <1>6, <2>1, ProcessHandshakeCore
  <2>2. CASE ~dtls.fingerprint
    BY <1>6, <2>2 DEF Continues, SameCredentials
  <2> QED
    BY <2>1, <2>2
<1> HIDE DEF p
<1>8. Core(SetTimeout(p, timeout)) /\ Continues(p, SetTimeout(p, timeout))
  BY <1>7, SetTimeoutCore
<1>9. Core(r) /\ Continues(World, r)
  BY <1>2, <1>6, <1>7, <1>8, ContinuesFacts
<1> QED
  BY <1>4, <1>9, ContinuingIsAllowed

LEMMA DtlsShutdownAllowed ==
    ASSUME IInv, NEW t \in DtlsSources, NEW read \in DtlsRead(t), DtlsShutdown(read)
    PROVE  \E r : Allowed(r) /\ Become(r)
<1> DEFINE w == read
           r == IF dtls.state = "connected" THEN DtlsClosed(w) ELSE DtlsFailed(w)
<1>1. Become(r)
  BY DEF DtlsShutdown
<1>2. Core(w) /\ Continues(World, w)
  BY <1>1, DtlsReadCore
<1>3. Core(r) /\ Continues(w, r)
  BY <1>2, DtlsClosedCore, DtlsFailedCore
<1> QED
  BY <1>1, <1>2, <1>3, ContinuesFacts, ContinuingIsAllowed

LEMMA DtlsApplicationDataAllowed ==
    ASSUME IInv, NEW t \in DtlsSources, NEW read \in DtlsRead(t), NEW timeout \in Timeouts,
           NEW what \in {"up", "closed", "failed"},
           DtlsApplicationData(read, timeout, what)
    PROVE  \E r : Allowed(r) /\ Become(r)
<1> DEFINE u == read
           w == SetTimeout(u, timeout)
           r == IF IsRunning(w.dtls) THEN SctpNotified(w, what) ELSE w
<1>1. Become(r)
  BY DEF DtlsApplicationData
<1>2. Core(u) /\ Continues(World, u)
  BY <1>1, DtlsReadCore
<1> HIDE DEF u
<1>3. Core(w) /\ Continues(u, w)
  BY <1>2, SetTimeoutCore
<1> HIDE DEF w
<1>4. Core(SctpNotified(w, what)) /\ Continues(w, SctpNotified(w, what))
  BY <1>3, SctpNotifiedCore
<1>5. Core(r) /\ Continues(World, r)
  BY <1>2, <1>3, <1>4, ContinuesFacts
<1> QED
  BY <1>1, <1>5, ContinuingIsAllowed

LEMMA DtlsTimerAllowed ==
    ASSUME IInv, NEW timeout \in Timeouts, DtlsTimer(timeout)
    PROVE  \E r : Allowed(r) /\ Become(r)
<1> DEFINE d == [dtls EXCEPT !.timer = FALSE]
           w == [World EXCEPT !.dtls = d]
           u == SendOnSelected(w)
           r == IF dtls.handshakeDone THEN w ELSE SetTimeout(u, timeout)
<1>1. /\ Core(World) /\ World \in Worlds /\ World.dtls = dtls
      /\ dtls \in DtlsRecords /\ DtlsOK(dtls) /\ (dtls.fingerprint => World.connected)
  BY WorldFields DEF IInv, Core, Shape, Worlds
<1>2. Become(r) /\ dtls.timer
  <2>1. w = [World EXCEPT !.dtls.timer = FALSE]
    BY <1>1
  <2> QED
    BY <2>1 DEF DtlsTimer
<1>3. /\ d \in DtlsRecords /\ DtlsOK(d) /\ d.localRole = dtls.localRole
      /\ d.fingerprint = dtls.fingerprint /\ d.state = dtls.state
  BY <1>1, <1>2 DEF DtlsRecords, DtlsOK, IsRunning
<1> HIDE DEF d
<1>4. /\ Core(w) /\ w.dtls = d /\ w.dtlsRole = World.dtlsRole
      /\ w.ice = World.ice /\ SameCredentials(World, w)
  BY <1>1, <1>3, DtlsSet
<1>5. Continues(World, w)
  BY <1>1, <1>2, <1>3, <1>4 DEF Continues, DtlsOK, IsRunning
<1> HIDE DEF w
<1>6. Core(u) /\ Continues(w, u) /\ u.dtls = d
  BY <1>4, SendOnSelectedCore DEF Keeps
<1> HIDE DEF u
<1>7. Core(SetTimeout(u, timeout)) /\ Continues(u, SetTimeout(u, timeout))
  BY <1>6, SetTimeoutCore
<1>8. Core(r) /\ Continues(World, r)
  BY <1>4, <1>5, <1>6, <1>7, ContinuesFacts
<1> QED
  BY <1>2, <1>8, ContinuingIsAllowed

LEMMA SendMediaAllowed ==
    ASSUME IInv, SendMedia
    PROVE  \E r : Allowed(r) /\ Become(r)
<1>1. Core(World) /\ Become(SendOnSelected(World))
  BY DEF IInv, SendMedia
<1> QED
  BY <1>1, SendOnSelectedCore, ContinuingIsAllowed

LEMMA RtcpTimerAllowed ==
    ASSUME IInv, RtcpTimer
    PROVE  \E r : Allowed(r) /\ Become(r)
<1> DEFINE w == [World EXCEPT !.rtcpTimer = FALSE]
           u == IF IsConnected(World) THEN SendOnSelected(w) ELSE w
           r == [u EXCEPT !.rtcpTimer = TRUE]
<1>1. Core(World) /\ Become(r)
  BY DEF IInv, RtcpTimer
<1>2. Core(w) /\ Continues(World, w)
  BY <1>1, RtcpTimerSet
<1> HIDE DEF w
<1>3. Core(u) /\ Continues(World, u)
  BY <1>2, SendOnSelectedCore, ContinuesFacts
<1> HIDE DEF u
<1>4. Core(r) /\ Continues(u, r)
  BY <1>3, RtcpTimerSet
<1> QED
  BY <1>1, <1>3, <1>4, ContinuesFacts, ContinuingIsAllowed

LEMMA SctpTimerAllowed ==
    ASSUME IInv, NEW what \in {"closed", "failed"}, SctpTimer(what)
    PROVE  \E r : Allowed(r) /\ Become(r)
<1>1. Core(World) /\ Become(SctpNotified(World, what))
  BY DEF IInv, SctpTimer
<1>2. what \in {"up", "closed", "failed"}
  OBVIOUS
<1> QED
  BY <1>1, <1>2, SctpNotifiedCore, ContinuingIsAllowed

\* The TCP connections that exist, and those whose peer is gone.
LEMMA ConnectionsSet ==
    ASSUME NEW w, Core(w), NEW op \in SUBSET TcpTuples, NEW br \in SUBSET op
    PROVE  LET r == [w EXCEPT !.open = op, !.broken = br]
           IN  Core(r) /\ Continues(w, r)
<1> DEFINE r == [w EXCEPT !.open = op, !.broken = br]
<1>1. w \in Worlds
  BY DEF Core, Shape
<1>2. /\ r \in Worlds /\ r.dtls = w.dtls /\ r.ice = w.ice
      /\ r.iceSelectedTuple = w.iceSelectedTuple /\ r.consumers = w.consumers
      /\ r.dtlsRole = w.dtlsRole /\ r.connected = w.connected
      /\ r.open = op /\ r.broken = br /\ r.sctp = w.sctp /\ r.toldSctp = w.toldSctp
  BY <1>1 DEF Worlds
<1> HIDE DEF r
<1>3. Core(r) /\ Continues(w, r)
  BY <1>2 DEF Core, Shape, SctpOK, Existing, Continues, SameCredentials
<1> QED
  BY <1>3 DEF r

LEMMA TcpAllowed ==
    ASSUME IInv, NEW c \in TcpTuples, TcpAccept(c) \/ TcpPeerGone(c) \/ TcpReadClosed(c)
    PROVE  \E r : Allowed(r) /\ Become(r)
<1>1. /\ Core(World) /\ Shape(World) /\ World \in Worlds
      /\ open \subseteq TcpTuples /\ broken \subseteq open
      /\ World.open = open /\ World.broken = broken
  BY WorldFields DEF IInv, Core, Shape, Worlds
<1>2. CASE TcpAccept(c)
  <2> DEFINE op == open \cup {c}
             br == broken
             r == [World EXCEPT !.open = op, !.broken = br]
  <2>1. op \in SUBSET TcpTuples /\ br \in SUBSET op
    BY <1>1
  <2>2. r = [World EXCEPT !.open = @ \cup {c}]
    BY <1>1 DEF Worlds
  <2>3. Become(r)
    BY <1>2, <2>2 DEF TcpAccept
  <2> HIDE DEF op, br
  <2>4. Core(r) /\ Continues(World, r)
    BY <1>1, <2>1, ConnectionsSet
  <2> QED
    BY <2>3, <2>4, ContinuingIsAllowed
<1>3. CASE TcpPeerGone(c)
  <2> DEFINE op == open
             br == broken \cup {c}
             r == [World EXCEPT !.open = op, !.broken = br]
  <2>1. op \in SUBSET TcpTuples /\ br \in SUBSET op
    BY <1>1, <1>3 DEF TcpPeerGone
  <2>2. r = [World EXCEPT !.broken = @ \cup {c}]
    BY <1>1 DEF Worlds
  <2>3. Become(r)
    BY <1>3, <2>2 DEF TcpPeerGone
  <2> HIDE DEF op, br
  <2>4. Core(r) /\ Continues(World, r)
    BY <1>1, <2>1, ConnectionsSet
  <2> QED
    BY <2>3, <2>4, ContinuingIsAllowed
<1>4. CASE TcpReadClosed(c)
  <2>1. Become(ConnectionClosed(World, c))
    BY <1>4 DEF TcpReadClosed
  <2>2. Core(ConnectionClosed(World, c)) /\ Continues(World, ConnectionClosed(World, c))
    BY <1>1, ConnectionClosedShape, KeepsCore, ContinuesFacts
  <2> QED
    BY <2>1, <2>2, ContinuingIsAllowed
<1> QED
  BY <1>2, <1>3, <1>4

\* A consumer comes or goes, and with it what it was told of SCTP.
LEMMA ConsumersSet ==
    ASSUME NEW w, Core(w), NEW c \in Consumers,
           NEW told \in {"none", "disconnected", "connected"},
           NEW aware \in SUBSET DataConsumers,
           aware = IF w.sctp = "connected"
                   THEN {x \in Consumers :
                            IF x = c THEN told # "none" ELSE w.consumers[x] # "none"}
                        \cap DataConsumers
                   ELSE {}
    PROVE  LET r == [w EXCEPT !.consumers = [@ EXCEPT ![c] = told], !.toldSctp = aware]
           IN  Core(r) /\ Continues(w, r)
<1> DEFINE new == [w.consumers EXCEPT ![c] = told]
           r == [w EXCEPT !.consumers = new, !.toldSctp = aware]
<1>1. w \in Worlds /\ new \in [Consumers -> {"none", "disconnected", "connected"}]
  BY DEF Core, Shape, Worlds
<1>2. \A x \in Consumers : new[x] = IF x = c THEN told ELSE w.consumers[x]
  BY DEF Core, Shape, Worlds
<1>3. r = [w EXCEPT !.consumers = [@ EXCEPT ![c] = told], !.toldSctp = aware]
  OBVIOUS
<1> HIDE DEF new
<1>4. /\ r \in Worlds /\ r.dtls = w.dtls /\ r.ice = w.ice
      /\ r.iceSelectedTuple = w.iceSelectedTuple /\ r.consumers = new
      /\ r.dtlsRole = w.dtlsRole /\ r.connected = w.connected /\ r.open = w.open
      /\ r.broken = w.broken /\ r.sctp = w.sctp /\ r.toldSctp = aware
  BY <1>1 DEF Worlds
<1> HIDE DEF r
<1>5. Existing(r) = {x \in Consumers :
                        IF x = c THEN told # "none" ELSE w.consumers[x] # "none"}
  BY <1>2, <1>4 DEF Existing
<1>6. Core(r) /\ Continues(w, r)
  BY <1>4, <1>5 DEF Core, Shape, SctpOK, Continues, SameCredentials
<1> QED
  BY <1>3, <1>6

LEMMA ConsumeAllowed ==
    ASSUME IInv, NEW c \in Consumers, Consume(c) \/ CloseConsumer(c)
    PROVE  \E r : Allowed(r) /\ Become(r)
<1>1. /\ Core(World) /\ World \in Worlds
      /\ World.consumers = consumers /\ World.toldSctp = toldSctp /\ World.sctp = sctp
      /\ consumers \in [Consumers -> {"none", "disconnected", "connected"}]
      /\ toldSctp \subseteq DataConsumers
  BY WorldFields DEF IInv, Core, Shape, Worlds
<1>2. toldSctp = IF sctp = "connected"
                 THEN {x \in Consumers : consumers[x] # "none"} \cap DataConsumers
                 ELSE {}
  BY <1>1 DEF Core, SctpOK, Existing
<1>3. CASE Consume(c)
  <2> DEFINE told == IF IsConnected(World) THEN "connected" ELSE "disconnected"
             aware == IF c \in DataConsumers /\ sctp = "connected"
                      THEN toldSctp \cup {c} ELSE toldSctp
             r == [World EXCEPT !.consumers = [@ EXCEPT ![c] = told], !.toldSctp = aware]
  <2>1. Become(r)
    <3>1. r = [World EXCEPT !.consumers[c] = told,
                            !.toldSctp = IF c \in DataConsumers /\ sctp = "connected"
                                         THEN @ \cup {c} ELSE @]
      BY <1>1 DEF Worlds
    <3> QED
      BY <1>3, <3>1 DEF Consume
  <2>2. told \in {"none", "disconnected", "connected"} /\ told # "none"
    OBVIOUS
  <2>3. aware \in SUBSET DataConsumers
    BY <1>1
  <2> HIDE DEF told
  <2>4. aware = IF World.sctp = "connected"
                THEN {x \in Consumers :
                         IF x = c THEN told # "none" ELSE World.consumers[x] # "none"}
                     \cap DataConsumers
                ELSE {}
    BY <1>1, <1>2, <1>3, <2>2 DEF Consume
  <2> HIDE DEF aware
  <2>5. Core(r) /\ Continues(World, r)
    BY <1>1, <2>2, <2>3, <2>4, ConsumersSet
  <2> QED
    BY <2>1, <2>5, ContinuingIsAllowed
<1>4. CASE CloseConsumer(c)
  <2> DEFINE told == "none"
             aware == toldSctp \ {c}
             r == [World EXCEPT !.consumers = [@ EXCEPT ![c] = told], !.toldSctp = aware]
  <2>1. Become(r)
    <3>1. r = [World EXCEPT !.consumers[c] = "none", !.toldSctp = @ \ {c}]
      BY <1>1 DEF Worlds
    <3> QED
      BY <1>4, <3>1 DEF CloseConsumer
  <2>2. told \in {"none", "disconnected", "connected"} /\ told = "none"
    OBVIOUS
  <2>3. aware \in SUBSET DataConsumers
    BY <1>1
  <2> HIDE DEF told
  <2>4. aware = IF World.sctp = "connected"
                THEN {x \in Consumers :
                         IF x = c THEN told # "none" ELSE World.consumers[x] # "none"}
                     \cap DataConsumers
                ELSE {}
    BY <1>1, <1>2, <2>2
  <2> HIDE DEF aware
  <2>5. Core(r) /\ Continues(World, r)
    BY <1>1, <2>2, <2>3, <2>4, ConsumersSet
  <2> QED
    BY <2>1, <2>5, ContinuingIsAllowed
<1> QED
  BY <1>3, <1>4

LEMMA RestartIceAllowed ==
    ASSUME IInv, RestartIceRequest
    PROVE  \E r : Allowed(r) /\ Become(r)
<1> DEFINE restarted == RestartCredentials(ice)
           r == [World EXCEPT !.ice = restarted]
<1>1. /\ Core(World) /\ RoleOK(World) /\ World \in Worlds /\ World.ice = ice
      /\ Good(ice) /\ ice \in IceRecords
  BY WorldFields DEF IInv, Core, Shape, Worlds, Good
<1>2. Become(r) /\ ice.credential < MaxCredential
  BY DEF RestartIceRequest
<1>3. /\ Good(restarted) /\ restarted \in IceRecords
      /\ restarted.state = ice.state /\ restarted.selected = ice.selected
      /\ restarted.credential = ice.credential + 1
      /\ restarted.oldCredential = ice.credential
  <2>1. Good(restarted)
    BY <1>1, <1>2, RestartCredentialsGood
  <2> QED
    BY <1>1, <2>1 DEF Good, RestartCredentials, IceRecords
<1> HIDE DEF restarted
<1>4. /\ r \in Worlds /\ r.dtls = World.dtls /\ r.ice = restarted
      /\ r.iceSelectedTuple = World.iceSelectedTuple /\ r.consumers = World.consumers
      /\ r.dtlsRole = World.dtlsRole /\ r.connected = World.connected
      /\ r.open = World.open /\ r.broken = World.broken
      /\ r.sctp = World.sctp /\ r.toldSctp = World.toldSctp
  BY <1>1, <1>3 DEF Worlds
<1> HIDE DEF r
<1>5. Core(r) /\ RoleOK(r) /\ CredentialStep(World, r)
  BY <1>1, <1>3, <1>4
     DEF Core, Shape, SctpOK, Existing, RoleOK, IceUp, CredentialStep
<1> QED
  BY <1>2, <1>5 DEF Allowed
-----------------------------------------------------------------------------
(***************************************************************************)
(* The theorems.                                                           *)
(***************************************************************************)
LEMMA InitIInv == Init => IInv
<1> SUFFICES ASSUME Init PROVE IInv
  OBVIOUS
<1>1. /\ ice = [state |-> "new", tuples |-> <<>>, selected |-> NoTuple,
                credential |-> 1, oldCredential |-> 0]
      /\ open = {} /\ broken = {} /\ iceSelectedTuple = NoTuple
      /\ dtlsRole = "auto" /\ connected = FALSE
      /\ dtls = [state |-> "new", localRole |-> "none", handshakeDone |-> FALSE,
                 timer |-> FALSE, fingerprint |-> FALSE]
      /\ rtcpTimer = FALSE /\ consumers = [c \in Consumers |-> "none"]
      /\ sctp = "new" /\ toldSctp = {} /\ aborted = FALSE
  BY DEF Init, IceInit
<1>2. Good(ice)
  <2>1. DOMAIN <<>> = {} /\ <<>> \in Seq(Tuples)
    OBVIOUS
  <2>2. ice \in IceRecords
    BY <1>1, <2>1, MaxCredentialAssumption DEF IceRecords, IceStates, Credentials
  <2>3. StoredOnce(ice)
    BY <1>1, <2>1 DEF StoredOnce
  <2>4. TuplesConsistent(ice)
    BY <1>1 DEF TuplesConsistent, HandleTupleAsserts, IceUp
  <2> QED
    BY <1>1, <2>2, <2>3, <2>4 DEF Good
<1>3. dtls \in DtlsRecords /\ DtlsOK(dtls)
  BY <1>1 DEF DtlsRecords, DtlsStates, DtlsOK, IsRunning
<1>4. World \in Worlds
  <2>1. ice \in IceRecords
    BY <1>2 DEF Good
  <2>2. consumers \in [Consumers -> {"none", "disconnected", "connected"}]
    BY <1>1
  <2> QED
    BY <1>1, <1>3, <2>1, <2>2 DEF World, Worlds, SctpStates
<1>5. Core(World)
  BY <1>1, <1>2, <1>3, <1>4, WorldFields DEF Core, Shape, SctpOK
<1>6. RoleOK(World)
  BY <1>1, WorldFields DEF RoleOK, IsRunning
<1> QED
  BY <1>5, <1>6 DEF IInv

\* Every step is one of the compositions of calls above.
LEMMA NextAllowed ==
    ASSUME IInv, [Next]_vars
    PROVE  (\E r : Allowed(r) /\ Become(r)) \/ UNCHANGED vars
<1>1. ASSUME Gone PROVE UNCHANGED vars
  BY <1>1 DEF Gone
<1> QED
  BY <1>1, ConnectAllowed, RestartIceAllowed, ConsumeAllowed, StunRequestAllowed,
     DtlsProgressAllowed, DtlsHandshakeDoneAllowed, DtlsShutdownAllowed,
     DtlsApplicationDataAllowed, SendMediaAllowed, DtlsTimerAllowed,
     RtcpTimerAllowed, SctpTimerAllowed, TcpAllowed DEF Next

LEMMA NextIInv == IInv /\ [Next]_vars => IInv'
<1> SUFFICES ASSUME IInv, [Next]_vars PROVE IInv'
  OBVIOUS
<1>1. CASE UNCHANGED vars
  <2>1. World' = World
    BY <1>1 DEF vars, World
  <2> QED
    BY <2>1 DEF IInv
<1>2. ASSUME NEW r, Allowed(r), Become(r) PROVE IInv'
  <2>1. World' = r
    BY <1>2, BecomeWorld DEF Allowed, Core, Shape
  <2> QED
    BY <1>2, <2>1 DEF IInv, Allowed
<1> QED
  BY <1>1, <1>2, NextAllowed

\* What holds of a state whatever was called.
THEOREM TransportInvariant == Spec => []IInv
  BY InitIInv, NextIInv, PTL DEF Spec

\* The fields of the transport keep their types.
THEOREM TransportTypeCorrect == Spec => []TypeOK
<1>1. IInv => TypeOK
  <2> SUFFICES ASSUME IInv PROVE TypeOK
    OBVIOUS
  <2>1. World \in Worlds /\ Good(World.ice) /\ World.broken \subseteq World.open
    BY DEF IInv, Core, Shape
  <2> QED
    BY <2>1, WorldFields DEF Worlds, TypeOK, IceTypeOK, Good
<1> QED
  BY <1>1, TransportInvariant, PTL

\* The transport always sends on the tuple the ICE server selected.
THEOREM SelectedTupleAgreesAlways == Spec => []SelectedTupleAgrees
<1>1. IInv => SelectedTupleAgrees
  BY WorldFields DEF IInv, Core, Shape, SelectedTupleAgrees
<1> QED
  BY <1>1, TransportInvariant, PTL

\* No assertion of the ICE server fails, failed writes in its callbacks included.
THEOREM TuplesConsistentInTransport == Spec => []IceTuplesConsistent
<1>1. IInv => IceTuplesConsistent
  BY WorldFields DEF IInv, Core, Shape, Good, IceTuplesConsistent
<1> QED
  BY <1>1, TransportInvariant, PTL

\* DTLS is connected only after connect() and a handshake.
THEOREM ConnectedOnlyVerifiedAlways == Spec => []ConnectedOnlyVerified
<1>1. IInv => ConnectedOnlyVerified
  BY WorldFields DEF IInv, Core, DtlsOK, ConnectedOnlyVerified
<1> QED
  BY <1>1, TransportInvariant, PTL

\* A DTLS that runs over ICE has the role the transport wants.
THEOREM RunsInWantedRoleAlways == Spec => []RunsInWantedRole
<1>1. IInv => RunsInWantedRole
  BY WorldFields DEF IInv, RoleOK, RunsInWantedRole
<1> QED
  BY <1>1, TransportInvariant, PTL

\* The DTLS timer is active only while DTLS runs, however its handshake ended.
THEOREM DtlsTimerOfRunningAlways == Spec => []DtlsTimerOfRunning
<1>1. IInv => DtlsTimerOfRunning
  BY WorldFields DEF IInv, Core, DtlsOK, DtlsTimerOfRunning
<1> QED
  BY <1>1, TransportInvariant, PTL

\* The DataConsumers know whether SCTP is connected.
THEOREM SctpAwarenessAlways == Spec => []SctpAwareness
<1>1. IInv => SctpAwareness
  BY WorldFields DEF IInv, Core, SctpOK, SctpAwareness
<1> QED
  BY <1>1, TransportInvariant, PTL

\* Nothing the transport does brings retired credentials back.
THEOREM RetiredForGoodInTransport == Spec => IceRetiredForGood
<1>1. IInv /\ [Next]_vars
      => [\A key \in 1 .. ice.credential :
             ~Accepts(ice, key) => ~Accepts(ice', key)]_ice
  <2> SUFFICES ASSUME IInv, [Next]_vars, ice' # ice,
                      NEW key \in 1 .. ice.credential, ~Accepts(ice, key)
               PROVE  ~Accepts(ice', key)
    OBVIOUS
  <2>1. ~UNCHANGED vars
    BY DEF vars
  <2>2. PICK r : Allowed(r) /\ Become(r)
    BY <2>1, NextAllowed
  <2>3. ice' = r.ice /\ CredentialStep(World, r) /\ World.ice = ice
    BY <2>2, WorldFields DEF Become, Allowed
  <2>4. ice.credential \in Nat /\ key \in Nat
    BY WorldFields DEF IInv, Core, Shape, Good, IceRecords, Credentials
  <2> QED
    BY <2>3, <2>4 DEF Accepts, CredentialStep
<1> QED
  BY <1>1, TransportInvariant, PTL DEF Spec, IceRetiredForGood
=============================================================================
