----------------------------- MODULE CupExchange -----------------------------
(***************************************************************************)
(* CUPv2: how a request is decorated and its response verified             *)
(* (cup_ecdsa.rs), against the server of mock-omaha-server.                *)
(*                                                                         *)
(* Between the two a message may be lost, delayed, answered again from a   *)
(* cache, or damaged; an ETag may come back in quotes or as a weak one.    *)
(* Client and server change their keys at different times and keep some of *)
(* the older ones. A signature is a record of the key that made it and of  *)
(* what it was made over; nobody else makes one.                           *)
(***************************************************************************)
EXTENDS Naturals

CONSTANTS
    None,           \* Option::None
    Bodies,         \* request bodies
    Responses,      \* what the server may be set to respond
    MaxKeys,        \* bound on the generations of keys; a key is its id
    MaxAttempts     \* bound on the requests sent; a nonce is a number not used before

ASSUME CupAssumption ==
    /\ None \notin Responses
    /\ MaxKeys \in Nat \ {0} /\ MaxAttempts \in Nat

\* PublicKeys and PrivateKeys: the latest key, and all that are known.
KeyRing == {r \in [latest : 1..MaxKeys, known : SUBSET (1..MaxKeys)] :
              r.latest \in r.known}

\* RequestMetadata
Metadata == [body : Bodies, key : 1..MaxKeys, nonce : 1..MaxAttempts]

\* make_transaction_hash: a hash is what it is a hash of.
Transaction(body, response, key, nonce) ==
    [body |-> body, response |-> response, key |-> key, nonce |-> nonce]

Signature == [by : 1..MaxKeys, over : [body : Bodies, response : Responses,
                                       key : 1..MaxKeys, nonce : 1..MaxAttempts]]

\* An ETag: how it is written, the signature and the hash of the request.
Etag == [form : {"plain", "quoted", "weak", "malformed"},
         signature : Signature, hash : Bodies]

ASSUME NoneAssumption == None \notin Etag

VARIABLES
    client,     \* the client's public keys
    server,     \* the server's private keys
    setting,    \* the server's responses_by_appid; None when empty
    attempts,   \* the number of requests decorated
    pending,    \* the metadata of the request the client waits for
    sent,       \* the requests that have left the client
    taken,      \* the requests being handled, with the server as it was cloned
    replies,    \* the responses that have left the server
    stored,     \* the responses accepted, with metadata and signature
    served      \* history: what the server has signed

vars == <<client, server, setting, attempts, pending, sent, taken, replies, stored, served>>

Accepted == [meta : Metadata, response : Responses, signature : Signature]

TypeOK ==
    /\ client \in KeyRing
    /\ server \in KeyRing
    /\ setting \in Responses \cup {None}
    /\ attempts \in 0..MaxAttempts
    /\ pending \in Metadata \cup {None}
    /\ sent \subseteq Metadata
    /\ taken \subseteq [request : Metadata, to : Metadata,
                        setting : Responses \cup {None}, server : KeyRing]
    /\ replies \subseteq [to : Metadata, response : Responses \cup {None},
                          etag : Etag \cup {None}]
    /\ stored \subseteq Accepted
    /\ served \subseteq [request : Metadata, response : Responses]

Init ==
    /\ client = [latest |-> 1, known |-> {1}]
    /\ server = [latest |-> 1, known |-> {1}]
    /\ setting = None
    /\ attempts = 0
    /\ pending = None
    /\ sent = {}
    /\ taken = {}
    /\ replies = {}
    /\ stored = {}
    /\ served = {}

-----------------------------------------------------------------------------
(***************************************************************************)
(* The client                                                              *)
(***************************************************************************)

\* Mutant: the nonce is left at zero.
DecorateZeroNonce(body) ==
    /\ pending = None
    /\ attempts < MaxAttempts
    /\ attempts' = attempts + 1
    /\ pending' = [body |-> body, key |-> client.latest, nonce |-> 0]
    /\ sent' = sent \cup {pending'}
    /\ UNCHANGED <<client, server, setting, taken, replies, stored, served>>

\* Nonce::new: one that was not used before.
NewNonce == attempts + 1

\* decorate_request, on every build of a request.
Decorate(body) ==
    /\ pending = None
    /\ attempts < MaxAttempts
    /\ attempts' = attempts + 1
    /\ pending' = [body |-> body, key |-> client.latest, nonce |-> NewNonce]
    /\ sent' = sent \cup {pending'}
    /\ UNCHANGED <<client, server, setting, taken, replies, stored, served>>

\* parse_etag: quotes and the mark of a weak ETag are taken off.
Parses(etag) == etag.form \in {"plain", "quoted", "weak"}

\* Mutants: key and nonce are left out of the hash; the key is the latest one.
VerifiesResponseOnly(keys, signature, meta, response) ==
    /\ meta.key \in keys.known
    /\ signature.by = meta.key
    /\ signature.over.response = response
    /\ signature.over.body = meta.body

VerifiesWithLatest(keys, signature, meta, response) ==
    /\ meta.key \in keys.known
    /\ signature.by = keys.latest
    /\ signature.over = Transaction(meta.body, response, meta.key, meta.nonce)

\* verify_response_with_signature
Verifies(keys, signature, meta, response) ==
    /\ meta.key \in keys.known
    /\ signature.by = meta.key
    /\ signature.over = Transaction(meta.body, response, meta.key, meta.nonce)

\* verify_response: an ETag, in a known form, of this request, whose signature
\* is that of the response.
VerifyResponse(meta, response, etag) ==
    /\ etag # None
    /\ Parses(etag)
    /\ etag.hash = meta.body
    /\ response # None
    /\ Verifies(client, etag.signature, meta, response)

\* The client gets a response, and accepts or rejects it.
Accept(response, etag) ==
    /\ pending # None
    /\ VerifyResponse(pending, response, etag)
    /\ stored' = stored \cup
         {[meta |-> pending, response |-> response, signature |-> etag.signature]}
    /\ pending' = None
    /\ UNCHANGED <<client, server, setting, attempts, sent, taken, replies, served>>

Reject(response, etag) ==
    /\ pending # None
    /\ ~VerifyResponse(pending, response, etag)
    /\ pending' = None
    /\ UNCHANGED <<client, server, setting, attempts, sent, taken, replies, stored, served>>

\* make_request fails.
GiveUp ==
    /\ pending # None
    /\ pending' = None
    /\ UNCHANGED <<client, server, setting, attempts, sent, taken, replies, stored, served>>

\* The client starts anew with the next generation of keys, of which it keeps
\* some as historical ones. What it stored stays.
RotateClient(kept) ==
    /\ client.latest < MaxKeys
    /\ client' = [latest |-> client.latest + 1,
                  known |-> kept \cup {client.latest + 1}]
    /\ pending' = None
    /\ UNCHANGED <<server, setting, attempts, sent, taken, replies, stored, served>>

-----------------------------------------------------------------------------
(***************************************************************************)
(* The server                                                              *)
(***************************************************************************)

\* handle_set_responses
SetResponses(s) ==
    /\ setting' = s
    /\ UNCHANGED <<client, server, attempts, pending, sent, taken, replies, stored, served>>

RotateServer(kept) ==
    /\ server.latest < MaxKeys
    /\ server' = [latest |-> server.latest + 1,
                  known |-> kept \cup {server.latest + 1}]
    /\ UNCHANGED <<client, setting, attempts, pending, sent, taken, replies, stored, served>>

\* handle_omaha_request begins: the server is cloned, and the body, which may
\* have been damaged, is read afterwards.
Take(request, body) ==
    /\ request \in sent
    /\ sent' = sent \ {request}
    /\ taken' = taken \cup
         {[request |-> [request EXCEPT !.body = body], to |-> request,
           setting |-> setting, server |-> server]}
    /\ UNCHANGED <<client, server, setting, attempts, pending, replies, stored, served>>

\* Mutant: the server signs with its latest key whatever key was asked for.
MakeEtagLatest(t) ==
    [form |-> "plain",
     signature |-> [by |-> t.server.latest,
                    over |-> Transaction(t.request.body, t.setting,
                                         t.request.key, t.request.nonce)],
     hash |-> t.request.body]

\* make_etag
MakeEtag(t) ==
    IF t.request.key \notin t.server.known THEN None
    ELSE [form |-> "plain",
          signature |-> [by |-> t.request.key,
                         over |-> Transaction(t.request.body, t.setting,
                                              t.request.key, t.request.nonce)],
          hash |-> t.request.body]

\* handle_omaha_request ends: without responses to give, the server answers
\* with status 500 and no ETag.
Respond(t) ==
    /\ t \in taken
    /\ taken' = taken \ {t}
    /\ replies' = replies \cup
         {[to |-> t.to, response |-> t.setting,
           etag |-> IF t.setting = None THEN None ELSE MakeEtag(t)]}
    /\ served' = IF t.setting = None \/ MakeEtag(t) = None THEN served
                 ELSE served \cup {[request |-> t.request, response |-> t.setting]}
    /\ UNCHANGED <<client, server, setting, attempts, pending, sent, stored>>

-----------------------------------------------------------------------------
(***************************************************************************)
(* What happens to a response on its way                                   *)
(***************************************************************************)

\* The ETags that may arrive for one that was sent.
Arriving(etag) ==
    {None} \cup
    (IF etag = None THEN {}
     ELSE {[etag EXCEPT !.form = f] : f \in {"plain", "quoted", "weak", "malformed"}})

\* A response arrives, whole or not, late or from a cache.
Deliver(r) ==
    /\ r \in replies
    /\ \E etag \in Arriving(r.etag), response \in {r.response} \cup Responses :
         Accept(response, etag) \/ Reject(response, etag)

Next ==
    \/ \E body \in Bodies : Decorate(body)
    \/ \E r \in replies : Deliver(r)
    \/ GiveUp
    \/ \E kept \in SUBSET client.known : RotateClient(kept)
    \/ \E s \in Responses \cup {None} : SetResponses(s)
    \/ \E kept \in SUBSET server.known : RotateServer(kept)
    \/ \E request \in sent, body \in Bodies : Take(request, body)
    \/ \E t \in taken : Respond(t)

Spec == Init /\ [][Next]_vars

-----------------------------------------------------------------------------
(***************************************************************************)
(* Properties                                                              *)
(***************************************************************************)

\* verify_response "Returns an error if the response is not authentic": a
\* response that is accepted is the one that the server gave to this very
\* attempt, with this body, key and nonce, however late or damaged messages
\* were and whoever changed keys in the meantime.
AcceptedIsAuthentic ==
    \A a \in stored : [request |-> a.meta, response |-> a.response] \in served

\* A stored signature goes on to verify what it was stored with, as long as
\* its key is the latest or a historical one, and verifies nothing else.
StoredStaysVerifiable ==
    \A a \in stored :
      /\ Verifies(client, a.signature, a.meta, a.response) <=> a.meta.key \in client.known
      /\ \A m \in Metadata, response \in Responses :
           Verifies(client, a.signature, m, response) => m = a.meta /\ response = a.response

\* Changing keys breaks nothing: the response to the request in flight, made
\* by a server that knew the key and delivered undamaged, is not rejected,
\* in whatever form its ETag arrives.
IntactIsAccepted ==
    \A r \in replies :
      /\ pending # None /\ r.to = pending
      /\ [request |-> pending, response |-> r.response] \in served
      => \A f \in {"plain", "quoted", "weak"} :
           VerifyResponse(pending, r.response, [r.etag EXCEPT !.form = f])
=============================================================================
