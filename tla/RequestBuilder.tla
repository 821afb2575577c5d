--------------------------- MODULE RequestBuilder ---------------------------
(***************************************************************************)
(* RequestBuilder: the accumulator of update checks, pings and events that *)
(* a request to Omaha is built from. An app is found by its app id; what   *)
(* is said of the app itself (cohort, version, user counting) is copied    *)
(* when its id is first added. build() does not consume the builder: a     *)
(* retry sets a new request id and builds again.                           *)
(*                                                                         *)
(* The calls made so far are a history variable, and what a request must   *)
(* contain is defined from it alone.                                       *)
(***************************************************************************)
EXTENDS Naturals, Sequences, FiniteSets

CONSTANTS
    None,       \* Option::None
    Ids,        \* app ids
    Data,       \* what else an App holds: version, cohort id, user counting
    Params,     \* the RequestParams of the requests
    Events,     \* events
    MaxCalls,   \* bound on the add_* calls
    MaxBuilds   \* bound on the requests built

EventType == {"UpdateComplete", "UpdateDownloadStarted", "UpdateDownloadFinished",
              "RebootedAfterUpdate"}

EventErrorCode == {"ParseResponse", "ConstructInstallPlan", "Installation", "DeniedByPolicy"}

\* Event::success and Event::error
Success(type) == [eventtype |-> type, eventresult |-> "Success", errorcode |-> None]
Error(code) == [eventtype |-> "UpdateComplete", eventresult |-> "Error", errorcode |-> code]

ASSUME BuilderAssumption ==
    /\ IsFiniteSet(Ids)
    /\ Events \subseteq {Success(type) : type \in EventType}
                           \cup {Error(code) : code \in EventErrorCode}
    /\ MaxCalls \in Nat /\ MaxBuilds \in Nat
    /\ \A p \in Params : p.disable \in BOOLEAN

VARIABLES
    params,     \* params
    entries,    \* app_entries
    requestId,  \* request_id: 0 is None, and a GUID is a number not used before
    request,    \* the last request built, or None
    calls       \* history: the calls of add_*, in order

builder == <<params, entries, requestId, request, calls>>

App == [id : Ids, data : Data]

\* A call of add_update_check, add_ping, or add_event with its event.
Call == [app : App, what : {"check", "ping"}, event : {None}]
          \cup [app : App, what : {"event"}, event : Events]

\* RequestBuilder::new, with params p.
New(p) ==
    /\ params = p
    /\ entries = <<>>
    /\ calls = <<>>

-----------------------------------------------------------------------------

\* The UpdateCheck object of a request with params p.
UpdateCheck(p) == [updatedisabled |-> p.disable, sameversionupdate |-> p.sameVersion]

ASSUME NoneAssumption == \A p \in Params : UpdateCheck(p) # None

\* AppEntry::new
NewEntry(app) == [app |-> app, check |-> None, ping |-> FALSE, events |-> <<>>]

\* What a call does to the entry of its app.
Modify(entry, call) ==
    CASE call.what = "check" -> [entry EXCEPT !.check = UpdateCheck(params)]
      [] call.what = "ping"  -> [entry EXCEPT !.ping = TRUE]
      [] call.what = "event" -> [entry EXCEPT !.events = Append(@, call.event)]

\* The places that hold the entry of an app id.
Places(es, id) == {i \in 1..Len(es) : es[i].app.id = id}

\* Mutant: an entry that is found takes the app of the latest call.
InsertAndModifyLatest(es, call) ==
    IF Places(es, call.app.id) # {}
      THEN [es EXCEPT ![CHOOSE i \in Places(es, call.app.id) : TRUE] =
              [Modify(@, call) EXCEPT !.app = call.app]]
      ELSE Append(es, Modify(NewEntry(call.app), call))

\* insert_and_modify_entry: the first entry with the app's id, or a new one.
InsertAndModify(es, call) ==
    IF Places(es, call.app.id) # {}
      THEN [es EXCEPT
              ![CHOOSE i \in Places(es, call.app.id) :
                  \A j \in Places(es, call.app.id) : i <= j] = Modify(@, call)]
      ELSE Append(es, Modify(NewEntry(call.app), call))

\* add_update_check, add_ping, add_event
Add(call) ==
    /\ Len(calls) < MaxCalls
    /\ entries' = InsertAndModify(entries, call)
    /\ calls' = Append(calls, call)
    /\ UNCHANGED <<params, requestId, request>>

\* Version: always four numbers, also when they are parsed or made from fewer.
Version(numbers) == [i \in 1..4 |-> IF i <= Len(numbers) THEN numbers[i] ELSE 0]

\* Ping: both of its dates are the app's.
Ping(app) == [ad |-> app.data.days, rd |-> app.data.days]

\* From<AppEntry> for ProtocolApp
ProtocolApp(entry) ==
    [appid |-> entry.app.id,
     version |-> Version(entry.app.data.version),
     cohort |-> entry.app.data.cohort,
     updatecheck |-> entry.check,
     event |-> entry.events,
     ping |-> IF entry.ping THEN Ping(entry.app) ELSE None]

\* The Request object; its other fields are the same in every request of a
\* session.
Request(id) ==
    [installsource |-> params.source, requestid |-> id,
     app |-> [i \in 1..Len(entries) |-> ProtocolApp(entries[i])]]

\* build_intermediate: the headers are about the source and the first app.
BuildIntermediate(id) ==
    [interactivity |-> IF params.source = "ondemand" THEN "fg" ELSE "bg",
     appIdHeader |-> IF entries = <<>> THEN None ELSE Head(entries).app.id,
     body |-> Request(id)]

\* GUID::new: one that was not used before.
NewGuid == requestId + 1

\* An attempt: a new request id, and build(), which clones the entries.
Build ==
    /\ requestId < MaxBuilds
    /\ requestId' = NewGuid
    /\ request' = BuildIntermediate(requestId')
    /\ UNCHANGED <<params, entries, calls>>

-----------------------------------------------------------------------------
(***************************************************************************)
(* Properties                                                              *)
(***************************************************************************)

\* The n-th least of a finite set of positions.
Position(S, i) == Cardinality({j \in S : j <= i})
Nth(S, n) == CHOOSE i \in S : Position(S, i) = n

\* The reference: what the calls cs ask a request with params p to contain. An
\* id is at the place of its first call, with the app of that call.
FirstCalls(cs) ==
    {i \in 1..Len(cs) : \A j \in 1..(i - 1) : cs[j].app.id # cs[i].app.id}

CallsFor(cs, id, what) == {i \in 1..Len(cs) : cs[i].app.id = id /\ cs[i].what = what}

EventsFor(cs, id) ==
    LET places == CallsFor(cs, id, "event")
    IN [n \in 1..Cardinality(places) |-> cs[Nth(places, n)].event]

AskedOf(cs, p, app) ==
    [app |-> app,
     check |-> IF CallsFor(cs, app.id, "check") # {} THEN UpdateCheck(p) ELSE None,
     ping |-> CallsFor(cs, app.id, "ping") # {},
     events |-> EventsFor(cs, app.id)]

Asked(cs, p) ==
    [n \in 1..Cardinality(FirstCalls(cs)) |-> AskedOf(cs, p, cs[Nth(FirstCalls(cs), n)].app)]

\* The add_* functions are "insensitive to order for a given App", apps keep
\* "the order that the Apps are added", and "the latter cohort is ignored"
\* (RequestBuilder): the entries are what the history of calls asks for.
EntriesAreWhatWasAdded == entries = Asked(calls, params)
=============================================================================
