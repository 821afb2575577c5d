------------------------- MODULE CupExchangeProofs -------------------------
(***************************************************************************)
(* CupExchange for any bodies, responses, number of keys and attempts: it  *)
(* is type correct, a response that the client accepts is the one that the *)
(* server gave to this very attempt, a stored signature verifies that and  *)
(* nothing else, and no change of keys makes the client reject an intact   *)
(* response.                                                               *)
(***************************************************************************)
EXTENDS CupExchange, TLAPS

\* What an ETag on its way was made over has been served: the invariant that
\* authenticity rests on, for it says what an accepted signature stands for.
Signed(s) ==
    [request |-> [body |-> s.over.body, key |-> s.over.key, nonce |-> s.over.nonce],
     response |-> s.over.response]

SignedIsServed ==
    \A r \in replies : r.etag # None => Signed(r.etag.signature) \in served

-----------------------------------------------------------------------------
(***************************************************************************)
(* Type correctness                                                        *)
(***************************************************************************)

\* decorate_request, make_etag and the rotation of keys keep their types.
LEMMA TypeInit == Init => TypeOK
  BY CupAssumption DEF Init, TypeOK, KeyRing

\* Keys that are kept, with the next one, are a key ring.
LEMMA RotationIsKeyRing ==
  ASSUME NEW ring \in KeyRing, NEW kept \in SUBSET ring.known, ring.latest < MaxKeys
  PROVE  [latest |-> ring.latest + 1, known |-> kept \cup {ring.latest + 1}] \in KeyRing
  <1> DEFINE next == ring.latest + 1
  <1>1. ring.latest \in 1..MaxKeys /\ ring.known \in SUBSET (1..MaxKeys)
    BY DEF KeyRing
  <1>2. next \in 1..MaxKeys
    BY <1>1, CupAssumption
  <1>3. kept \cup {next} \in SUBSET (1..MaxKeys)
    BY <1>1, <1>2
  <1>4. QED
    BY <1>2, <1>3 DEF KeyRing

\* make_etag makes a plain ETag, or none.
LEMMA EtagType ==
  ASSUME NEW t \in [request : Metadata, to : Metadata,
                    setting : Responses \cup {None}, server : KeyRing],
         t.setting # None
  PROVE  MakeEtag(t) \in Etag \cup {None}
  <1>1. t.setting \in Responses /\ t.request \in Metadata
    OBVIOUS
  <1>2. CASE t.request.key \notin t.server.known
    BY <1>2 DEF MakeEtag
  <1>3. CASE t.request.key \in t.server.known
    BY <1>1, <1>3 DEF MakeEtag, Etag, Signature, Transaction, Metadata
  <1>4. QED
    BY <1>2, <1>3

\* What arrives of an ETag carries the signature that was sent.
LEMMA ArrivingType ==
  ASSUME NEW e \in Etag \cup {None}, NEW a \in Arriving(e), a # None
  PROVE  /\ e \in Etag
         /\ a \in Etag
         /\ a.signature = e.signature
  <1>1. e # None /\ e \in Etag
    BY DEF Arriving
  <1>2. PICK f \in {"plain", "quoted", "weak", "malformed"} : a = [e EXCEPT !.form = f]
    BY <1>1 DEF Arriving
  <1>3. QED
    BY <1>1, <1>2 DEF Etag

\* No step of client, server or network leaves the types.
LEMMA TypeNext == TypeOK /\ [Next]_vars => TypeOK'
  <1> SUFFICES ASSUME TypeOK, [Next]_vars
               PROVE  TypeOK'
    OBVIOUS
  <1>1. ASSUME NEW body \in Bodies, Decorate(body)
        PROVE  TypeOK'
    <2>1. attempts + 1 \in 1..MaxAttempts /\ client.latest \in 1..MaxKeys
      BY <1>1, CupAssumption DEF TypeOK, Decorate, NewNonce, KeyRing
    <2>2. pending' \in Metadata
      BY <1>1, <2>1 DEF Decorate, NewNonce, Metadata
    <2>3. QED
      BY <1>1, <2>1, <2>2 DEF Decorate, NewNonce, TypeOK
  <1>2. ASSUME NEW r \in replies, Deliver(r)
        PROVE  TypeOK'
    <2>1. PICK etag \in Arriving(r.etag), response \in {r.response} \cup Responses :
            Accept(response, etag) \/ Reject(response, etag)
      BY <1>2 DEF Deliver
    <2>2. CASE Accept(response, etag)
      <3>1. r.etag \in Etag \cup {None} /\ r.response \in Responses \cup {None}
        BY DEF TypeOK
      <3>2. etag # None /\ response # None
        BY <2>2 DEF Accept, VerifyResponse
      <3>3. etag \in Etag
        BY <3>1, <3>2, ArrivingType
      <3>4. [meta |-> pending, response |-> response, signature |-> etag.signature] \in Accepted
        BY <2>2, <3>1, <3>2, <3>3 DEF Accept, TypeOK, Accepted, Etag
      <3>5. QED
        BY <2>2, <3>4 DEF Accept, TypeOK
    <2>3. CASE Reject(response, etag)
      BY <2>3 DEF Reject, TypeOK
    <2>4. QED
      BY <2>1, <2>2, <2>3
  <1>3. CASE GiveUp
    BY <1>3 DEF GiveUp, TypeOK
  <1>4. ASSUME NEW kept \in SUBSET client.known, RotateClient(kept)
        PROVE  TypeOK'
    <2>1. client' \in KeyRing
      BY <1>4, RotationIsKeyRing DEF RotateClient, TypeOK
    <2>2. QED
      BY <1>4, <2>1 DEF RotateClient, TypeOK
  <1>5. ASSUME NEW s \in Responses \cup {None}, SetResponses(s)
        PROVE  TypeOK'
    BY <1>5 DEF SetResponses, TypeOK
  <1>6. ASSUME NEW kept \in SUBSET server.known, RotateServer(kept)
        PROVE  TypeOK'
    <2>1. server' \in KeyRing
      BY <1>6, RotationIsKeyRing DEF RotateServer, TypeOK
    <2>2. QED
      BY <1>6, <2>1 DEF RotateServer, TypeOK
  <1>7. ASSUME NEW request \in sent, NEW body \in Bodies, Take(request, body)
        PROVE  TypeOK'
    <2>1. request \in Metadata /\ [request EXCEPT !.body = body] \in Metadata
      BY DEF TypeOK, Metadata
    <2>2. QED
      BY <1>7, <2>1 DEF Take, TypeOK
  <1>8. ASSUME NEW t \in taken, Respond(t)
        PROVE  TypeOK'
    <2>1. t \in [request : Metadata, to : Metadata,
                 setting : Responses \cup {None}, server : KeyRing]
      BY DEF TypeOK
    <2>2. replies' \subseteq [to : Metadata, response : Responses \cup {None},
                              etag : Etag \cup {None}]
      BY <1>8, <2>1, EtagType DEF Respond, TypeOK
    <2>3. served' \subseteq [request : Metadata, response : Responses]
      BY <1>8, <2>1 DEF Respond, TypeOK
    <2>4. QED
      BY <1>8, <2>2, <2>3 DEF Respond, TypeOK
  <1>9. CASE UNCHANGED vars
    BY <1>9 DEF vars, TypeOK
  <1>10. QED
    BY <1>1, <1>2, <1>3, <1>4, <1>5, <1>6, <1>7, <1>8, <1>9 DEF Next

-----------------------------------------------------------------------------
(***************************************************************************)
(* Authenticity                                                            *)
(***************************************************************************)

\* Nothing that was served is forgotten.
LEMMA ServedGrows == [Next]_vars => served \subseteq served'
  BY DEF Next, vars, Decorate, Deliver, Accept, Reject, GiveUp, RotateClient,
         SetResponses, RotateServer, Take, Respond

\* A reply whose ETag is signed is made in the step that serves it.
LEMMA SignedNext ==
  TypeOK /\ SignedIsServed /\ [Next]_vars => SignedIsServed'
  <1> SUFFICES ASSUME TypeOK, SignedIsServed, [Next]_vars
               PROVE  SignedIsServed'
    OBVIOUS
  <1>1. ASSUME NEW t \in taken, Respond(t)
        PROVE  SignedIsServed'
    <2> DEFINE new == [to |-> t.to, response |-> t.setting,
                       etag |-> IF t.setting = None THEN None ELSE MakeEtag(t)]
    <2>1. ASSUME new.etag # None
          PROVE  Signed(new.etag.signature) \in served'
      <3>1. t.setting # None /\ MakeEtag(t) # None /\ new.etag = MakeEtag(t)
        BY <2>1
      <3>2. t.request \in Metadata
        BY DEF TypeOK
      <3>3. Signed(MakeEtag(t).signature) = [request |-> t.request, response |-> t.setting]
        BY <3>1, <3>2 DEF MakeEtag, Signed, Transaction, Metadata
      <3>4. QED
        BY <1>1, <3>1, <3>3 DEF Respond
    <2>2. replies' = replies \cup {new}
      BY <1>1 DEF Respond
    <2>3. QED
      BY <2>1, <2>2, ServedGrows DEF SignedIsServed
  <1>2. CASE ~ \E t \in taken : Respond(t)
    <2>1. replies' = replies
      BY <1>2 DEF Next, vars, Decorate, Deliver, Accept, Reject, GiveUp,
                  RotateClient, SetResponses, RotateServer, Take
    <2>2. QED
      BY <2>1, ServedGrows DEF SignedIsServed
  <1>3. QED
    BY <1>1, <1>2

\* verify_response accepts only what was signed for the pending request.
LEMMA AuthenticNext ==
  TypeOK /\ SignedIsServed /\ AcceptedIsAuthentic /\ [Next]_vars => AcceptedIsAuthentic'
  <1> SUFFICES ASSUME TypeOK, SignedIsServed, AcceptedIsAuthentic, [Next]_vars
               PROVE  AcceptedIsAuthentic'
    OBVIOUS
  <1>1. ASSUME NEW r \in replies, Deliver(r)
        PROVE  AcceptedIsAuthentic'
    <2>1. PICK etag \in Arriving(r.etag), response \in {r.response} \cup Responses :
            Accept(response, etag) \/ Reject(response, etag)
      BY <1>1 DEF Deliver
    <2>2. CASE Accept(response, etag)
      <3>1. /\ pending # None /\ etag # None
            /\ etag.signature.over =
                 Transaction(pending.body, response, pending.key, pending.nonce)
        BY <2>2 DEF Accept, VerifyResponse, Verifies
      <3>2. pending \in Metadata /\ r.etag \in Etag \cup {None}
        BY <3>1 DEF TypeOK
      <3>3. r.etag \in Etag /\ etag.signature = r.etag.signature
        BY <3>1, <3>2, ArrivingType
      <3>4. r.etag # None
        BY <3>1, <3>3 DEF Arriving
      <3>5. Signed(etag.signature) = [request |-> pending, response |-> response]
        BY <3>1, <3>2 DEF Signed, Transaction, Metadata
      <3>6. [request |-> pending, response |-> response] \in served
        BY <3>3, <3>4, <3>5 DEF SignedIsServed
      <3>7. ASSUME NEW a \in stored'
            PROVE  [request |-> a.meta, response |-> a.response] \in served
        <4>1. CASE a \in stored
          BY <4>1 DEF AcceptedIsAuthentic
        <4>2. CASE a = [meta |-> pending, response |-> response,
                        signature |-> etag.signature]
          <5>1. a.meta = pending /\ a.response = response
            BY <4>2
          <5>2. QED
            BY <3>6, <5>1
        <4>3. QED
          BY <2>2, <4>1, <4>2 DEF Accept
      <3>8. served' = served
        BY <2>2 DEF Accept
      <3>9. QED
        BY <3>7, <3>8 DEF AcceptedIsAuthentic
    <2>3. CASE Reject(response, etag)
      BY <2>3 DEF Reject, AcceptedIsAuthentic
    <2>4. QED
      BY <2>1, <2>2, <2>3
  <1>2. CASE ~ \E r \in replies : Deliver(r)
    <2>1. stored' = stored
      BY <1>2 DEF Next, vars, Decorate, GiveUp, RotateClient, SetResponses,
                  RotateServer, Take, Respond
    <2>2. QED
      BY <2>1, ServedGrows DEF AcceptedIsAuthentic
  <1>3. QED
    BY <1>1, <1>2

\* CupExchange is type correct.
THEOREM TypeCorrect == Spec => []TypeOK
  BY TypeInit, TypeNext, PTL DEF Spec

\* Whatever is lost, late, damaged or repeated, and whoever changes keys when,
\* a response that verify_response accepts is the one that the server gave to
\* this attempt.
THEOREM Authentic == Spec => []AcceptedIsAuthentic
  <1>1. Init => SignedIsServed /\ AcceptedIsAuthentic
    BY DEF Init, SignedIsServed, AcceptedIsAuthentic
  <1>2. QED
    BY <1>1, TypeInit, TypeNext, SignedNext, AuthenticNext, PTL DEF Spec

-----------------------------------------------------------------------------
(***************************************************************************)
(* Stored signatures                                                       *)
(***************************************************************************)

\* What is stored was verified: its signature is that of its key, over it.
StoredIsSigned ==
    \A a \in stored :
      /\ a.signature.by = a.meta.key
      /\ a.signature.over = Transaction(a.meta.body, a.response, a.meta.key, a.meta.nonce)

\* Only verify_response adds to what is stored, and nothing takes from it.
LEMMA StoredNext == StoredIsSigned /\ [Next]_vars => StoredIsSigned'
  <1> SUFFICES ASSUME StoredIsSigned, [Next]_vars
               PROVE  StoredIsSigned'
    OBVIOUS
  <1>1. ASSUME NEW r \in replies, Deliver(r)
        PROVE  StoredIsSigned'
    <2>1. PICK etag \in Arriving(r.etag), response \in {r.response} \cup Responses :
            Accept(response, etag) \/ Reject(response, etag)
      BY <1>1 DEF Deliver
    <2>2. CASE Accept(response, etag)
      <3> DEFINE new == [meta |-> pending, response |-> response, signature |-> etag.signature]
      <3>1. /\ etag.signature.by = pending.key
            /\ etag.signature.over =
                 Transaction(pending.body, response, pending.key, pending.nonce)
        BY <2>2 DEF Accept, VerifyResponse, Verifies
      <3>2. stored' = stored \cup {new}
        BY <2>2 DEF Accept
      <3>3. new.meta = pending /\ new.response = response /\ new.signature = etag.signature
        OBVIOUS
      <3> HIDE DEF new
      <3>4. QED
        BY <3>1, <3>2, <3>3 DEF StoredIsSigned
    <2>3. CASE Reject(response, etag)
      BY <2>3 DEF Reject, StoredIsSigned
    <2>4. QED
      BY <2>1, <2>2, <2>3
  <1>2. CASE ~ \E r \in replies : Deliver(r)
    <2>1. stored' = stored
      BY <1>2 DEF Next, vars, Decorate, GiveUp, RotateClient, SetResponses,
                  RotateServer, Take, Respond
    <2>2. QED
      BY <2>1 DEF StoredIsSigned
  <1>3. QED
    BY <1>1, <1>2

\* A stored signature verifies the response it was stored with for as long as
\* its key is known, through every change of keys, and no other response and
\* no other request.
THEOREM StoredVerifies == Spec => []StoredStaysVerifiable
  <1>1. Init => StoredIsSigned
    BY DEF Init, StoredIsSigned
  <1>2. Spec => []StoredIsSigned
    BY <1>1, StoredNext, PTL DEF Spec
  <1>3. TypeOK /\ StoredIsSigned => StoredStaysVerifiable
    <2> SUFFICES ASSUME TypeOK, StoredIsSigned, NEW a \in stored
                 PROVE  /\ Verifies(client, a.signature, a.meta, a.response)
                             <=> a.meta.key \in client.known
                        /\ \A m \in Metadata, response \in Responses :
                             Verifies(client, a.signature, m, response)
                               => m = a.meta /\ response = a.response
      BY Zenon DEF StoredStaysVerifiable
    <2>1. a.meta \in Metadata
      BY DEF TypeOK, Accepted
    <2>2. /\ a.signature.by = a.meta.key
          /\ a.signature.over = Transaction(a.meta.body, a.response, a.meta.key, a.meta.nonce)
      BY DEF StoredIsSigned
    <2>3. Verifies(client, a.signature, a.meta, a.response) <=> a.meta.key \in client.known
      BY <2>2 DEF Verifies
    <2>4. ASSUME NEW m \in Metadata, NEW response \in Responses,
                 Verifies(client, a.signature, m, response)
          PROVE  m = a.meta /\ response = a.response
      <3>1. Transaction(a.meta.body, a.response, a.meta.key, a.meta.nonce)
              = Transaction(m.body, response, m.key, m.nonce)
        BY <2>2, <2>4 DEF Verifies
      <3>2. a.meta.body = m.body /\ a.response = response
              /\ a.meta.key = m.key /\ a.meta.nonce = m.nonce
        BY <3>1 DEF Transaction
      <3>3. QED
        BY <2>1, <3>2 DEF Metadata
    <2>5. QED
      BY <2>3, <2>4
  <1>4. QED
    BY <1>2, <1>3, TypeCorrect, PTL

-----------------------------------------------------------------------------
(***************************************************************************)
(* An intact response is accepted                                          *)
(***************************************************************************)

\* The requests that are known anywhere.
Requests ==
    sent \cup {t.to : t \in taken} \cup {r.to : r \in replies} \cup ({pending} \ {None})

\* Nonces tell requests apart, and none has been used that is still to come.
NoncesAreUnique ==
    /\ \A q \in Requests : q.nonce <= attempts
    /\ \A p, q \in Requests : p.nonce = q.nonce => p = q

\* A request is on its way, being handled or answered, and only once.
HandledOnce ==
    /\ \A t \in taken : t.to \notin sent
    /\ \A r \in replies : r.to \notin sent /\ \A t \in taken : t.to # r.to
    /\ \A t, u \in taken : t.to = u.to => t = u
    /\ \A r, q \in replies : r.to = q.to => r = q

\* What is damaged on the way to the server is the body.
TakenAsSent == \A t \in taken : t.request.nonce = t.to.nonce

\* What was served was answered, with the ETag that make_etag makes for it.
ServedIsAnswered ==
    \A s \in served : \E r \in replies :
      /\ s.request.nonce = r.to.nonce
      /\ s.response = r.response
      /\ r.etag = [form |-> "plain",
                   signature |-> [by |-> s.request.key,
                                  over |-> Transaction(s.request.body, s.response,
                                                       s.request.key, s.request.nonce)],
                   hash |-> s.request.body]

\* The key of the request in flight has not been dropped: new keys come with a
\* new client, which does not wait for it any more.
PendingKeyKnown == pending # None => pending.key \in client.known

Traced == NoncesAreUnique /\ HandledOnce /\ TakenAsSent /\ ServedIsAnswered /\ PendingKeyKnown

\* Decorating a request, losing, delivering and answering it keeps track of it.
LEMMA TracedNext == TypeOK /\ Traced /\ [Next]_vars => Traced'
  <1> SUFFICES ASSUME TypeOK, Traced, [Next]_vars
               PROVE  Traced'
    OBVIOUS
  <1> USE DEF Traced
  <1>1. ASSUME Requests' \subseteq Requests, attempts' = attempts
        PROVE  NoncesAreUnique'
    BY <1>1 DEF NoncesAreUnique
  \* A step of the client that ends the wait, or one that changes only keys or
  \* the setting.
  <1>2. ASSUME (pending' = pending /\ client' = client) \/ pending' = None,
               UNCHANGED <<attempts, sent, taken, replies, served>>
        PROVE  Traced'
    <2>1. Requests' \subseteq Requests
      BY <1>2 DEF Requests
    <2>2. QED
      BY <1>1, <1>2, <2>1
         DEF HandledOnce, TakenAsSent, ServedIsAnswered, PendingKeyKnown
  <1>3. ASSUME NEW body \in Bodies, Decorate(body)
        PROVE  Traced'
    <2> DEFINE new == [body |-> body, key |-> client.latest, nonce |-> attempts + 1]
    <2>1. /\ pending' = new /\ sent' = sent \cup {new} /\ attempts' = attempts + 1
          /\ UNCHANGED <<client, taken, replies, served>>
      BY <1>3 DEF Decorate, NewNonce
    <2>2. new.nonce = attempts + 1 /\ new.key = client.latest
      OBVIOUS
    <2>3. attempts \in Nat /\ client.latest \in client.known
      BY CupAssumption DEF TypeOK, KeyRing
    <2> HIDE DEF new
    <2>4. Requests' \subseteq Requests \cup {new}
      BY <2>1 DEF Requests
    <2>5. \A q \in Requests : q \in Metadata
      BY DEF Requests, TypeOK
    <2>6. \A q \in Requests : q.nonce \in Nat /\ q.nonce <= attempts /\ q.nonce # new.nonce
      BY <2>2, <2>3, <2>5 DEF Metadata, NoncesAreUnique
    <2>7. NoncesAreUnique'
      BY <2>1, <2>2, <2>3, <2>4, <2>6 DEF NoncesAreUnique
    <2>8. \A t \in taken : t.to \in Requests
      BY DEF Requests
    <2>9. \A r \in replies : r.to \in Requests
      BY DEF Requests
    <2>10. HandledOnce'
      BY <2>1, <2>6, <2>8, <2>9 DEF HandledOnce
    <2>11. PendingKeyKnown'
      BY <2>1, <2>2, <2>3 DEF PendingKeyKnown
    <2>12. QED
      BY <2>1, <2>7, <2>10, <2>11 DEF TakenAsSent, ServedIsAnswered
  <1>4. ASSUME NEW r \in replies, Deliver(r)
        PROVE  Traced'
    BY <1>2, <1>4 DEF Deliver, Accept, Reject
  <1>5. CASE GiveUp
    BY <1>2, <1>5 DEF GiveUp
  <1>6. ASSUME NEW kept \in SUBSET client.known, RotateClient(kept)
        PROVE  Traced'
    BY <1>2, <1>6 DEF RotateClient
  <1>7. ASSUME NEW s \in Responses \cup {None}, SetResponses(s)
        PROVE  Traced'
    BY <1>2, <1>7 DEF SetResponses
  <1>8. ASSUME NEW kept \in SUBSET server.known, RotateServer(kept)
        PROVE  Traced'
    BY <1>2, <1>8 DEF RotateServer
  <1>9. ASSUME NEW request \in sent, NEW body \in Bodies, Take(request, body)
        PROVE  Traced'
    <2> DEFINE new == [request |-> [request EXCEPT !.body = body], to |-> request,
                       setting |-> setting, server |-> server]
    <2>1. /\ sent' = sent \ {request} /\ taken' = taken \cup {new}
          /\ UNCHANGED <<client, attempts, pending, replies, served>>
      BY <1>9 DEF Take
    <2>2. new.to = request /\ new.request.nonce = request.nonce
      BY DEF TypeOK, Metadata
    <2> HIDE DEF new
    <2>3. Requests' \subseteq Requests
      BY <2>1, <2>2 DEF Requests
    <2>4. HandledOnce'
      BY <2>1, <2>2 DEF HandledOnce
    <2>5. TakenAsSent'
      BY <2>1, <2>2 DEF TakenAsSent
    <2>6. QED
      BY <1>1, <2>1, <2>3, <2>4, <2>5 DEF ServedIsAnswered, PendingKeyKnown
  <1>10. ASSUME NEW t \in taken, Respond(t)
         PROVE  Traced'
    <2> DEFINE new == [to |-> t.to, response |-> t.setting,
                       etag |-> IF t.setting = None THEN None ELSE MakeEtag(t)]
               made == [request |-> t.request, response |-> t.setting]
    <2>1. /\ taken' = taken \ {t} /\ replies' = replies \cup {new}
          /\ UNCHANGED <<client, attempts, pending, sent>>
      BY <1>10 DEF Respond
    <2>2. new.to = t.to /\ new.response = t.setting
      OBVIOUS
    <2>3. CASE t.setting = None \/ MakeEtag(t) = None
      <3>1. served' = served
        BY <1>10, <2>3 DEF Respond
      <3> HIDE DEF new
      <3>2. QED
        <4>1. Requests' \subseteq Requests
          BY <2>1, <2>2 DEF Requests
        <4>2. HandledOnce'
          BY <2>1, <2>2 DEF HandledOnce
        <4>3. QED
          BY <1>1, <2>1, <3>1, <4>1, <4>2 DEF TakenAsSent, ServedIsAnswered, PendingKeyKnown
    <2>4. CASE t.setting # None /\ MakeEtag(t) # None
      <3>1. served' = served \cup {made}
        BY <1>10, <2>4 DEF Respond
      <3>2. new.etag = [form |-> "plain",
                        signature |-> [by |-> t.request.key,
                                       over |-> Transaction(t.request.body, t.setting,
                                                            t.request.key, t.request.nonce)],
                        hash |-> t.request.body]
        BY <2>4 DEF MakeEtag
      <3>3. made.request = t.request /\ made.response = t.setting
        OBVIOUS
      <3>4. t.request.nonce = t.to.nonce
        BY DEF TakenAsSent
      <3> HIDE DEF new, made
      <3>5. Requests' \subseteq Requests
        BY <2>1, <2>2 DEF Requests
      <3>6. HandledOnce'
        BY <2>1, <2>2 DEF HandledOnce
      <3>7. ServedIsAnswered'
        <4> SUFFICES ASSUME NEW s \in served'
                     PROVE  \E r \in replies' :
                              /\ s.request.nonce = r.to.nonce
                              /\ s.response = r.response
                              /\ r.etag = [form |-> "plain",
                                           signature |-> [by |-> s.request.key,
                                              over |-> Transaction(s.request.body, s.response,
                                                         s.request.key, s.request.nonce)],
                                           hash |-> s.request.body]
          BY Zenon DEF ServedIsAnswered
        <4>1. CASE s \in served
          BY <2>1, <4>1 DEF ServedIsAnswered
        <4>2. CASE s = made
          <5>1. new \in replies'
            BY <2>1
          <5>2. QED
            BY <2>2, <3>2, <3>3, <3>4, <4>2, <5>1
        <4>3. QED
          BY <3>1, <4>1, <4>2
      <3>8. QED
        BY <1>1, <2>1, <3>5, <3>6, <3>7 DEF TakenAsSent, PendingKeyKnown
    <2>5. QED
      BY <2>3, <2>4
  <1>11. CASE UNCHANGED vars
    BY <1>2, <1>11 DEF vars
  <1>12. QED
    BY <1>3, <1>4, <1>5, <1>6, <1>7, <1>8, <1>9, <1>10, <1>11 DEF Next

\* Changing keys breaks nothing: verify_response accepts the response that a
\* server that knew the key made to the request in flight, in whatever form
\* its ETag arrives and whatever keys client and server have come to.
THEOREM IntactResponseIsAccepted == Spec => []IntactIsAccepted
  <1>1. Init => Traced
    BY DEF Init, Traced, Requests, NoncesAreUnique, HandledOnce, TakenAsSent,
           ServedIsAnswered, PendingKeyKnown
  <1>2. Spec => []Traced
    BY <1>1, TypeInit, TypeNext, TracedNext, PTL DEF Spec
  <1>3. TypeOK /\ Traced => IntactIsAccepted
    <2> SUFFICES ASSUME TypeOK, Traced, NEW r \in replies, pending # None, r.to = pending,
                        [request |-> pending, response |-> r.response] \in served,
                        NEW f \in {"plain", "quoted", "weak"}
                 PROVE  VerifyResponse(pending, r.response, [r.etag EXCEPT !.form = f])
      BY Zenon DEF IntactIsAccepted
    <2> DEFINE made == [request |-> pending, response |-> r.response]
    <2>1. made.request = pending /\ made.response = r.response /\ made \in served
      OBVIOUS
    <2> HIDE DEF made
    <2>2. PICK q \in replies :
            /\ pending.nonce = q.to.nonce
            /\ r.response = q.response
            /\ q.etag = [form |-> "plain",
                         signature |-> [by |-> pending.key,
                                        over |-> Transaction(pending.body, r.response,
                                                             pending.key, pending.nonce)],
                         hash |-> pending.body]
      BY <2>1 DEF Traced, ServedIsAnswered
    <2>3. q.to \in Requests /\ pending \in Requests
      BY DEF Requests
    <2>4. q = r
      BY <2>2, <2>3 DEF Traced, NoncesAreUnique, HandledOnce
    <2>5. r.response # None
      BY <2>1, CupAssumption DEF TypeOK
    <2> DEFINE e == [r.etag EXCEPT !.form = f]
    <2>6. e = [form |-> f,
               signature |-> [by |-> pending.key,
                              over |-> Transaction(pending.body, r.response,
                                                   pending.key, pending.nonce)],
               hash |-> pending.body]
      BY <2>2, <2>4
    <2> HIDE DEF e
    <2>7. e # None
      <3>1. e \in Etag
        BY <2>5, <2>6 DEF TypeOK, Etag, Signature, Transaction, Metadata
      <3>2. QED
        BY <3>1, NoneAssumption
    <2>8. QED
      BY <2>5, <2>6, <2>7 DEF e, VerifyResponse, Parses, Verifies, Traced, PendingKeyKnown
  <1>4. QED
    BY <1>2, <1>3, TypeCorrect, PTL
=============================================================================
