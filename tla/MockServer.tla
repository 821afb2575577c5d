----------------------------- MODULE MockServer -----------------------------
(***************************************************************************)
(* The exchange of requests and answers between a RequestBuilder and       *)
(* mock-omaha-server: what a request is on the wire, the assertions the    *)
(* server makes about it, the answer it makes up from its configuration,   *)
(* and what the client reads in that answer.                               *)
(*                                                                         *)
(* The server is configured, and serves each connection, concurrently: its *)
(* configuration may change while a request is handled, of which the       *)
(* handler knows only the copy that it made under the lock. A panic ends   *)
(* the connection. CupExchange is about the signatures of the answers.     *)
(***************************************************************************)
EXTENDS RequestBuilder

CONSTANTS
    Configurations,     \* the response maps that are posted to the server
    CohortAssertions,   \* the cohorts, or None, that tests assert
    MaxChanges          \* bound on the changes of the configuration

OmahaResponse == {"NoUpdate", "Update", "UrgentUpdate", "InvalidResponse", "InvalidURL"}

\* UpdateCheckAssertion
Assertions == {"UpdatesEnabled", "UpdatesDisabled"}

\* ResponseAndMetadata, of which strings are left open.
IsResponseAndMetadata(r) ==
    /\ DOMAIN r = {"response", "check_assertion", "version", "cohort_assertion",
                   "codebase", "package_name"}
    /\ r.response \in OmahaResponse
    /\ r.check_assertion \in Assertions

ASSUME ServerAssumption ==
    \A c \in Configurations : \A id \in DOMAIN c : IsResponseAndMetadata(c[id])

VARIABLES
    responses,      \* responses_by_appid
    stage,          \* of the request: "none" yet, "sent", "taken" by the server,
                    \* "answered", or "over"
    taken,          \* the copy of responses that its handler works with
    reply,          \* what the server answers
    outcome,        \* what the client makes of it
    changes,        \* the number of changes made
    since           \* history: the configurations in force since it was sent

server == <<responses, changes>>
wire == <<stage, taken, reply, outcome, since>>
vars == <<builder, server, wire>>

Init ==
    /\ \E p \in Params : New(p)
    /\ requestId = 0 /\ request = None
    /\ responses \in Configurations
    /\ stage = "none"
    /\ taken = None /\ reply = None /\ outcome = None
    /\ changes = 0
    /\ since = {}

-----------------------------------------------------------------------------
(***************************************************************************)
(* The wire                                                                *)
(***************************************************************************)

\* The fields that are serialized: not an absent option, and not an empty list
\* of events; of an updatecheck, which is an object also when it is empty, the
\* flags that are set.
SerializeEvent(e) == [f \in {g \in DOMAIN e : e[g] # None} |-> e[f]]

Serialize(app) ==
    LET present == {"appid", "version"}
                     \cup {f \in {"cohort", "updatecheck", "ping"} : app[f] # None}
                     \cup (IF app.event = <<>> THEN {} ELSE {"event"})
        flags(c) == {f \in DOMAIN c : c[f]}
    IN [f \in present |->
          CASE f = "updatecheck" -> flags(app[f])
            [] f = "event" -> [i \in 1..Len(app[f]) |-> SerializeEvent(app[f][i])]
            [] OTHER -> app[f]]

Apps == [i \in 1..Len(request.body.app) |-> Serialize(request.body.app[i])]

\* HttpRequest::request is called with what build() made.
Send ==
    /\ stage \in {"none", "over"}
    /\ stage = "over" => outcome.kind \in {"status", "transport", "timeout"}
    /\ calls # <<>>
    /\ Build
    /\ stage' = "sent"
    /\ since' = {responses}
    /\ taken' = None /\ reply' = None /\ outcome' = None
    /\ UNCHANGED server

\* Another request: of the same session, or of the next.
NewRequest(p) ==
    /\ stage = "over"
    /\ requestId < MaxBuilds
    /\ params' = p /\ entries' = <<>> /\ calls' = <<>>
    /\ UNCHANGED requestId
    /\ request' = None
    /\ stage' = "none"
    /\ since' = {}
    /\ taken' = None /\ reply' = None /\ outcome' = None
    /\ UNCHANGED server

-----------------------------------------------------------------------------
(***************************************************************************)
(* The server                                                              *)
(***************************************************************************)

\* A change while no request is under way is as good as another initial
\* configuration.
Configure(c) ==
    /\ stage \in {"sent", "taken"}
    /\ changes < MaxChanges
    /\ changes' = changes + 1
    /\ responses' = c
    /\ since' = since \cup {c}
    /\ UNCHANGED <<builder, stage, taken, reply, outcome>>

\* handle_set_responses
SetResponses(c) == c # responses /\ Configure(c)

SetAllUpdateCheckAssertions(value) ==
    Configure([id \in DOMAIN responses |->
                 [responses[id] EXCEPT !.check_assertion = value]])

SetAllCohortAssertions(value) ==
    Configure([id \in DOMAIN responses |->
                 [responses[id] EXCEPT !.cohort_assertion = value]])

\* handle_omaha_request copies the server; one that was never configured
\* answers with a 500.
Take ==
    /\ stage = "sent"
    /\ taken' = responses
    /\ IF responses = <<>>
         THEN stage' = "answered" /\ reply' = [kind |-> "status"]
         ELSE stage' = "taken" /\ UNCHANGED reply
    /\ UNCHANGED <<builder, server, outcome, since>>

\* The assertions about one app: its version; of an update check, whether
\* updates are disabled, and the cohort; and that there is an event otherwise.
Meets(app, c) ==
    /\ app.appid \in DOMAIN c
    /\ LET expected == c[app.appid]
       IN /\ expected.version # None => app.version = expected.version
          /\ IF "updatecheck" \in DOMAIN app
               THEN /\ ("updatedisabled" \in app.updatecheck)
                         = (expected.check_assertion = "UpdatesDisabled")
                    /\ expected.cohort_assertion # None =>
                         "cohort" \in DOMAIN app /\ app.cohort = expected.cohort_assertion
               ELSE "event" \in DOMAIN app

Checked(apps) == {i \in 1..Len(apps) : "updatecheck" \in DOMAIN apps[i]}

\* None of the handler's assertions fails.
Accepts(apps, c) ==
    /\ Cardinality(Checked(apps)) \in {0, Cardinality(DOMAIN c)}
    /\ \A i \in 1..Len(apps) : Meets(apps[i], c)

InvalidCodebase == "http://integration.test.fuchsia.com/"

\* The updatecheck object for each kind of OmahaResponse; one of an
\* InvalidResponse has no status.
UpdateCheckAnswer(expected) ==
    CASE expected.response = "NoUpdate" -> [status |-> "noupdate"]
      [] expected.response = "InvalidResponse" -> [invalid_status |-> "invalid"]
      [] expected.response \in {"Update", "UrgentUpdate", "InvalidURL"} ->
           [status |-> "ok",
            codebase |-> IF expected.response = "InvalidURL" THEN InvalidCodebase
                                                             ELSE expected.codebase,
            package |-> expected.package_name,
            urgent |-> expected.response = "UrgentUpdate"]

\* An app that is not asked about is answered without an updatecheck.
AppAnswer(app, c) ==
    IF "updatecheck" \in DOMAIN app
      THEN [appid |-> app.appid, updatecheck |-> UpdateCheckAnswer(c[app.appid])]
      ELSE [appid |-> app.appid]

Answer(apps, c) ==
    [kind |-> "ok", app |-> [i \in 1..Len(apps) |-> AppAnswer(apps[i], c)]]

\* Mutant: the answers are looked up in the server, not in its copy.
RespondLive ==
    /\ stage = "taken"
    /\ stage' = "answered"
    /\ reply' = IF Accepts(Apps, taken) /\ \A i \in 1..Len(Apps) :
                                             Apps[i].appid \in DOMAIN responses
                  THEN Answer(Apps, responses) ELSE [kind |-> "transport"]
    /\ UNCHANGED <<builder, server, taken, outcome, since>>

\* The rest of handle_omaha_request, when the body has arrived.
Respond ==
    /\ stage = "taken"
    /\ stage' = "answered"
    /\ reply' = IF Accepts(Apps, taken) THEN Answer(Apps, taken)
                                        ELSE [kind |-> "transport"]
    /\ UNCHANGED <<builder, server, taken, outcome, since>>

-----------------------------------------------------------------------------
(***************************************************************************)
(* The answer                                                              *)
(***************************************************************************)

\* get_all_full_urls: every codebase with every package.
FullUrls(check) ==
    IF "codebase" \in DOMAIN check THEN {<<check.codebase, check.package>>} ELSE {}

\* What the client reads about an app: no status if there is no updatecheck.
ParsedApp(app) ==
    IF "updatecheck" \in DOMAIN app
      THEN [id |-> app.appid, status |-> app.updatecheck.status,
            urls |-> FullUrls(app.updatecheck)]
      ELSE [id |-> app.appid, status |-> None, urls |-> {}]

\* parse_json_response: the whole answer, or nothing of it.
ParseJsonResponse(r) ==
    IF \E i \in 1..Len(r.app) :
         "updatecheck" \in DOMAIN r.app[i] /\ "status" \notin DOMAIN r.app[i].updatecheck
      THEN [kind |-> "unparsable"]
      ELSE [kind |-> "parsed", apps |-> [i \in 1..Len(r.app) |-> ParsedApp(r.app[i])]]

Receive ==
    /\ stage = "answered"
    /\ stage' = "over"
    /\ outcome' = IF reply.kind = "ok" THEN ParseJsonResponse(reply) ELSE reply
    /\ UNCHANGED <<builder, server, taken, reply, since>>

\* The client's timeout, or a failure of the network: whatever the server
\* still answers is lost.
Fail(kind) ==
    /\ stage \in {"sent", "taken", "answered"}
    /\ stage' = "over"
    /\ outcome' = [kind |-> kind]
    /\ taken' = None /\ reply' = None
    /\ UNCHANGED <<builder, server, since>>

Next ==
    \/ stage = "none" /\ \E call \in Call : Add(call) /\ UNCHANGED <<server, wire>>
    \/ Send
    \/ \E p \in Params : NewRequest(p)
    \/ \E c \in Configurations : SetResponses(c)
    \/ \E value \in Assertions : SetAllUpdateCheckAssertions(value)
    \/ \E value \in CohortAssertions : SetAllCohortAssertions(value)
    \/ Take \/ Respond \/ Receive
    \/ \E kind \in {"transport", "timeout"} : Fail(kind)

Spec == Init /\ [][Next]_vars

-----------------------------------------------------------------------------
(***************************************************************************)
(* Properties                                                              *)
(***************************************************************************)

\* What configuration c promises about an app that was asked for.
Promised(asked, c) ==
    IF asked.check = None
      THEN [id |-> asked.app.id, status |-> None, urls |-> {}]
      ELSE LET expected == c[asked.app.id]
           IN IF expected.response = "NoUpdate"
                THEN [id |-> asked.app.id, status |-> "noupdate", urls |-> {}]
                ELSE [id |-> asked.app.id, status |-> "ok",
                      urls |-> {<<IF expected.response = "InvalidURL" THEN InvalidCodebase
                                                               ELSE expected.codebase,
                                  expected.package_name>>}]

\* From end to end: the client reads an answer only if one configuration, in
\* force at one moment since the request was sent, has an app for every update
\* check and wants updates disabled as it was; and what it reads about every
\* app that was added, in the order of the add_* calls, is what that
\* configuration promises, however it was changed in the meantime.
OfferedIsConfigured ==
    stage = "over" /\ outcome.kind = "parsed" =>
      \E c \in since :
        LET asked == Asked(calls, params)
            checks == {n \in 1..Len(asked) : asked[n].check # None}
        IN /\ \A n \in 1..Len(asked) : asked[n].app.id \in DOMAIN c
           /\ checks # {} => Cardinality(checks) = Cardinality(DOMAIN c)
           /\ \A n \in checks :
                /\ c[asked[n].app.id].response # "InvalidResponse"
                /\ params.disable =
                     (c[asked[n].app.id].check_assertion = "UpdatesDisabled")
           /\ outcome.apps = [n \in 1..Len(asked) |-> Promised(asked[n], c)]
=============================================================================
