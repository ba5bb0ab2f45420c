------------------------------ MODULE Listener ------------------------------
(***************************************************************************)
(* The listener of the WhatsApp events (apps/listener) and the page of a job *)
(* it keeps up to date (apps/ui: ResaEventsLive.tsx).                        *)
(*                                                                           *)
(* JetStream delivers the events in order, one at a time, and again those    *)
(* that have not been acknowledged.  An event of a poll, of a group on the    *)
(* allow-list, is stored, broadcast to the pages that are open, then relayed  *)
(* to the group of the organiser.  The allow-list and the kinds relayed are   *)
(* copies in memory, each read again every minute; reads may overlap.         *)
(***************************************************************************)
EXTENDS Naturals, FiniteSets, Sequences

CONSTANTS
  Groups,       \* groups of the rules
  VincentAll,   \* the group of the organiser, which may be the group of a rule too
  PageGroup,    \* the group of the rule whose job is on the page
  EventKinds,   \* kinds of events: "poll", "vote", "message", "garbled"
  Mishaps,      \* "db", "refuse", "lose", "ack", "crash", "cut"
  MaxEvents, MaxReads, MaxChanges, MaxMishaps

ASSUME GroupsOfTheSystem == VincentAll \in Groups /\ PageGroup \in Groups
ASSUME BoundsAreNumbers == MaxChanges \in Nat /\ MaxMishaps \in Nat

VARIABLES
  rules,      \* the rows: groups of the enabled rules, kinds relayed
  memory,     \* the copy of the listener
  reads,      \* reads of a copy under way, each with what it has read
  events,     \* events published, in order; external
  delivered,  \* how many have been delivered once; external
  acked,      \* those acknowledged; external
  handling,   \* the event being handled and the step, or Nothing
  stored,     \* events in the database
  relayed,    \* how many times each event has been relayed; external
  page,       \* the page: connected, a refresh is due, events it shows
  listening, changes, mishaps,
  skipped, missed, again   \* history: events of no group of the copy, events
                           \* broadcast without the page, events relayed without a trace

listenerVars ==
  <<rules, memory, reads, events, delivered, acked, handling, stored, relayed, page,
    listening, changes, mishaps, skipped, missed, again>>

Nothing == [id |-> 0, step |-> "none", relays |-> FALSE]
ResaKinds == {"poll", "vote"}
EventIds == DOMAIN events

\* Mutant: a group that was once on the list stays there.
AllowlistGrows(groups) == (groups \ {VincentAll}) \cup memory.allow

\* buildAllowlist: never the group of the organiser.
BuildAllowlist(groups) == groups \ {VincentAll}

CopyOf(r) == [allow |-> BuildAllowlist(r.enabled), relay |-> r.relay]

ListenerInit ==
  /\ rules = [enabled |-> {PageGroup}, relay |-> ResaKinds]
  /\ memory = [allow |-> {PageGroup} \ {VincentAll}, relay |-> ResaKinds]
  /\ reads = << >>
  /\ events = << >> /\ delivered = 0 /\ acked = {}
  /\ handling = Nothing
  /\ stored = {} /\ relayed = << >>
  /\ page = [connected |-> FALSE, due |-> FALSE, shows |-> {}]
  /\ listening = TRUE /\ changes = 0 /\ mishaps = 0
  /\ skipped = {} /\ missed = {} /\ again = {}

Stream == <<events, delivered>>
Copies == <<rules, memory, reads>>
Counts == <<listening, changes, mishaps>>
Past == <<skipped, missed, again>>

Mishap(kind) ==
  /\ kind \in Mishaps /\ mishaps < MaxMishaps
  /\ mishaps' = mishaps + 1 /\ UNCHANGED <<listening, changes>>
Fine == UNCHANGED Counts

-----------------------------------------------------------------------------
(* What happens around: events, changes of the rules and of the settings.    *)

Publish ==
  /\ Len(events) < MaxEvents
  /\ \E g \in Groups, k \in EventKinds : events' = Append(events, [chat |-> g, kind |-> k])
  /\ relayed' = Append(relayed, 0)
  /\ UNCHANGED <<Copies, delivered, acked, handling, stored, page, Counts, Past>>

Change ==
  /\ changes < MaxChanges /\ changes' = changes + 1
  /\ \/ \E g \in Groups : rules' = [rules EXCEPT !.enabled = (@ \ {g}) \cup ({g} \ @)]
     \/ \E k \in EventKinds \cap ResaKinds : rules' = [rules EXCEPT !.relay = (@ \ {k}) \cup ({k} \ @)]
  /\ UNCHANGED <<memory, reads, Stream, acked, handling, stored, relayed, page, listening, mishaps, Past>>

\* The timer of the refresh, for each of the two copies; the previous read may not have
\* come back.  A read of what the copy holds already is left out.
StartRead(copy) ==
  /\ listening /\ Len(reads) < MaxReads /\ memory[copy] # CopyOf(rules)[copy]
  /\ reads' = Append(reads, [of |-> copy, got |-> CopyOf(rules)[copy]])
  /\ UNCHANGED <<rules, memory, Stream, acked, handling, stored, relayed, page, Counts, Past>>

\* A read that fails leaves the copy as it is.
EndRead(n) ==
  /\ n \in DOMAIN reads
  /\ \/ memory' = [memory EXCEPT ![reads[n].of] = reads[n].got] /\ Fine
     \/ UNCHANGED memory /\ Mishap("db")
  /\ reads' = SubSeq(reads, 1, n - 1) \o SubSeq(reads, n + 1, Len(reads))
  /\ UNCHANGED <<rules, Stream, acked, handling, stored, relayed, page, Past>>

-----------------------------------------------------------------------------
(* One event (handleJsMessage, onResaEvent).                                 *)

ShouldRelay(e) == e.chat # VincentAll /\ e.chat \in memory.allow /\ e.kind \in ResaKinds

Acknowledge(id) ==
  /\ handling' = Nothing
  /\ \/ acked' = acked \cup {id} /\ Fine
     \/ UNCHANGED acked /\ Mishap("ack")

\* A new event, or one given back or not acknowledged; the kinds relayed are those of the
\* copy at this moment.
Deliver(id) ==
  /\ listening /\ handling = Nothing
  /\ id \in EventIds \ acked /\ id <= delivered + 1
  /\ delivered' = IF id > delivered THEN id ELSE delivered
  /\ IF ShouldRelay(events[id])
     THEN /\ handling' = [id |-> id, step |-> "persist", relays |-> events[id].kind \in memory.relay]
          /\ Fine /\ UNCHANGED <<acked, skipped>>
     ELSE Acknowledge(id) /\ skipped' = skipped \cup {id}
  /\ UNCHANGED <<Copies, events, stored, relayed, page, missed, again>>

\* Mutant: an event that could not be handled is acknowledged.
AckAnyway(id) == acked' = acked \cup {id}

\* A failure gives the event back, to be delivered again after a while.
Nak(id) == UNCHANGED acked

\* Mutant: the event is broadcast although it could not be stored.
PersistBestEffort(id) ==
  /\ (stored' = stored \cup {id} /\ Fine) \/ (UNCHANGED stored /\ Mishap("db"))
  /\ handling' = [handling EXCEPT !.step = "broadcast"] /\ UNCHANGED acked

\* persistResaEvent: an event already there is left as it is.
PersistEvent(id) ==
  \/ /\ stored' = stored \cup {id} /\ Fine
     /\ handling' = [handling EXCEPT !.step = "broadcast"] /\ UNCHANGED acked
  \/ UNCHANGED stored /\ Mishap("db") /\ Nak(id) /\ handling' = Nothing

Persist ==
  /\ handling.step = "persist" /\ PersistEvent(handling.id)
  /\ UNCHANGED <<Copies, Stream, relayed, page, Past>>

\* The hub writes to the pages connected; a page looks at the group.
Hears(e) == page.connected /\ e.chat = PageGroup

Broadcast ==
  LET id == handling.id
  IN /\ handling.step = "broadcast"
     /\ page' = [page EXCEPT !.due = @ \/ Hears(events[id])]
     /\ missed' = IF page.connected THEN missed ELSE missed \cup {id}
     /\ IF handling.relays
        THEN handling' = [handling EXCEPT !.step = "relay"] /\ Fine /\ UNCHANGED acked
        ELSE Acknowledge(id)
     /\ UNCHANGED <<Copies, Stream, stored, relayed, skipped, again>>

Relayed(id) == relayed' = [relayed EXCEPT ![id] = @ + 1]

Relay ==
  LET id == handling.id
  IN /\ handling.step = "relay"
     /\ \/ Relayed(id) /\ Acknowledge(id) /\ again' = IF id \in acked' THEN again ELSE again \cup {id}
        \/ /\ UNCHANGED relayed /\ Mishap("refuse")
           /\ Nak(id) /\ handling' = Nothing /\ UNCHANGED again
        \/ /\ Relayed(id) /\ Mishap("lose") /\ again' = again \cup {id}
           /\ Nak(id) /\ handling' = Nothing
     /\ UNCHANGED <<Copies, Stream, stored, page, skipped, missed>>

-----------------------------------------------------------------------------
(* The page (ResaEventsLive): a refresh, a while after the last event heard. *)

Connect ==
  /\ listening /\ ~page.connected
  /\ page' = [page EXCEPT !.connected = TRUE]
  /\ UNCHANGED <<Copies, Stream, acked, handling, stored, relayed, Counts, Past>>

Cut ==
  /\ page.connected /\ Mishap("cut")
  /\ page' = [page EXCEPT !.connected = FALSE]
  /\ UNCHANGED <<Copies, Stream, acked, handling, stored, relayed, Past>>

\* router.refresh: the votes are read again, all of them.
Refresh ==
  /\ page.due
  /\ page' = [page EXCEPT !.due = FALSE, !.shows = {id \in EventIds : events[id].chat = PageGroup}]
  /\ UNCHANGED <<Copies, Stream, acked, handling, stored, relayed, Counts, Past>>

-----------------------------------------------------------------------------

Crash ==
  /\ listening /\ listening' = FALSE
  /\ "crash" \in Mishaps /\ mishaps < MaxMishaps /\ mishaps' = mishaps + 1
  /\ handling' = Nothing /\ reads' = << >>
  /\ page' = [page EXCEPT !.connected = FALSE]
  /\ UNCHANGED <<rules, memory, Stream, acked, stored, relayed, changes, Past>>

\* The rows are read before the first event.
StartListener ==
  /\ ~listening /\ listening' = TRUE /\ memory' = CopyOf(rules)
  /\ UNCHANGED <<rules, reads, Stream, acked, handling, stored, relayed, page, changes, mishaps, Past>>

Deliveries == \E id \in EventIds : Deliver(id)
StartReads == \E copy \in DOMAIN memory : StartRead(copy)
EndReads == \E n \in DOMAIN reads : EndRead(n)

ListenerNext ==
  \/ Publish \/ Change \/ StartReads \/ EndReads
  \/ Deliveries \/ Persist \/ Broadcast \/ Relay
  \/ Connect \/ Cut \/ Refresh \/ Crash \/ StartListener

ListenerSpec == ListenerInit /\ [][ListenerNext]_listenerVars

\* JetStream delivers what is not acknowledged, the timer of the refresh ticks, calls end,
\* the pod is started again and the browser connects again.
FairListenerSpec ==
  /\ ListenerSpec
  /\ WF_listenerVars(StartReads) /\ WF_listenerVars(EndReads)
  /\ \A id \in 1 .. MaxEvents : SF_listenerVars(Deliver(id))
  /\ WF_listenerVars(Persist) /\ WF_listenerVars(Broadcast) /\ WF_listenerVars(Relay)
  /\ WF_listenerVars(Connect) /\ WF_listenerVars(Refresh) /\ WF_listenerVars(StartListener)

-----------------------------------------------------------------------------
(* Properties.                                                               *)

ListenerTypeOK ==
  /\ rules.enabled \subseteq Groups /\ memory.allow \subseteq Groups \ {VincentAll}
  /\ delivered \in 0 .. Len(events) /\ acked \subseteq 1 .. delivered
  /\ handling # Nothing => handling.id \in 1 .. delivered
  /\ stored \subseteq 1 .. delivered /\ DOMAIN relayed = EventIds
  /\ page.shows \subseteq EventIds /\ changes \in 0 .. MaxChanges /\ mishaps \in 0 .. MaxMishaps

\* What is said in the group of the organiser never comes back to it, a poll of a rule
\* that plays there included: the relay does not feed itself.
NoEcho == \A id \in EventIds : relayed[id] > 0 => events[id].chat # VincentAll

\* An event relayed or shown by the relay's group is in the history, whatever fails
\* between (ADR-021: stored, then relayed).
RelayedIsStored == {id \in EventIds : relayed[id] > 0} \subseteq stored

\* An event is relayed once, unless the answer of huddle-bot, the acknowledgement or the
\* listener is lost after the relay.
RelayedOnce == \A id \in EventIds : relayed[id] <= 1 \/ id \in again

\* An event of a poll that the listener has not left aside is stored in the end, across
\* failures and restarts: it is left aside only when its group is not on the copy of the
\* list at that moment.
EventuallyStored ==
  \A id \in 1 .. MaxEvents : id \in EventIds ~> (id \in stored \cup skipped)

\* The copy follows the rules: reads that overlap or fail only delay it.
CopyCatchesUp == \A g \in Groups \ {VincentAll} :
  /\ (g \in rules.enabled) ~> (g \in memory.allow \/ g \notin rules.enabled)
  /\ (g \notin rules.enabled) ~> (g \notin memory.allow \/ g \in rules.enabled)

\* The page shows an event of its group that is stored, without being asked to, across a
\* crash between the two, unless it was not connected when the event was broadcast, or the
\* rule was disabled before the event was delivered again.
PageFollows ==
  \A id \in 1 .. MaxEvents :
    (id \in stored /\ events[id].chat = PageGroup) ~> (id \in page.shows \cup missed \cup skipped)

\* The parts above, as they are checked.  The relay does not feed itself, relays what is
\* stored, and once.
RelaySound == ListenerTypeOK /\ NoEcho /\ RelayedIsStored /\ RelayedOnce

\* The copies follow the database: the list of the groups, and the page.
CopiesFollow == CopyCatchesUp /\ PageFollows
=============================================================================
