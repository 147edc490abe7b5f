------------------------------- MODULE WsView -------------------------------
(* WebSocket connections as the web UI shows them: the store that mirrors   *)
(* the backend (store/websocket.ts), the pane that connects and sends       *)
(* (WsPane), and the pane with the live transcript or a past session        *)
(* (WsTranscriptPane).  The backend is external: it runs one session at a   *)
(* time for a connection, saves what is exchanged and tells it in events,   *)
(* which a command's answer may overtake.                                   *)
EXTENDS Integers, Sequences, FiniteSets, FiniteSetsExt, SequencesExt

CONSTANTS Conns,        \* stored connections
          None,         \* no connection, no session, no answer yet
          MaxConnects,  \* connects of all connections
          MaxMessages,  \* messages of a session
          MaxEvents,    \* events on their way
          MaxHydrates   \* activations of a connection

VARIABLES
    active,      \* the selected connection
    up,          \* backend: the connection is live
    sessions,    \* backend: how many messages each session has, oldest first
    bus,         \* events on their way: [of, kind, what]
    status,      \* store: the status of each connection
    transcript,  \* store: the messages shown live, <<session, number>>
    hydrating,   \* hydrate's two answers, of the connections being loaded
    dialing,     \* connect commands without an answer
    committing,  \* the toggle waits for the edits of the pane to be saved
    selected,    \* the session picked in the history, or None
    historical,  \* the session it shows: [of, session], or None
    reads,       \* reads of a session without an answer
    hydrates, connects

wsVars == <<active, up, sessions, bus, status, transcript, hydrating, dialing,
            committing, selected, historical, reads, hydrates, connects>>
backend == <<up, sessions, bus>>
mirror == <<status, transcript, hydrating>>
past == <<selected, historical, reads>>
pane == <<committing>>

Init ==
    /\ active = None
    /\ up = [c \in Conns |-> FALSE] /\ sessions = [c \in Conns |-> <<>>] /\ bus = <<>>
    /\ status = [c \in Conns |-> "closed"] /\ transcript = [c \in Conns |-> <<>>]
    /\ hydrating = [c \in Conns |-> None]
    /\ dialing = {} /\ committing = FALSE
    /\ selected = None /\ historical = None /\ reads = {}
    /\ hydrates = 0 /\ connects = 0

Live(s) == s \in {"open", "connecting"}
MessagesOf(c, n) == [k \in 1..sessions[c][n] |-> <<n, k>>]
\* The newest session is what a connection's transcript is loaded from.
Newest(c) == IF sessions[c] = <<>> THEN <<>> ELSE MessagesOf(c, Len(sessions[c]))

----------------------------------------------------------------------------
(* The history of the transcript pane. *)

\* A status that goes live drops the selection; a selection or a connection
\* that is new is read; the session shown goes when none is selected.
Browse(c, s, sel) ==
    LET sel2 == IF s # status[active] /\ Live(s) THEN None ELSE sel IN
    /\ selected' = sel2
    /\ IF sel2 = None
       THEN historical' = None /\ UNCHANGED reads
       ELSE /\ reads' = IF <<c, sel2>> = <<active, selected>>
                        THEN reads ELSE reads \cup {[of |-> c, session |-> sel2]}
            /\ UNCHANGED historical

StatusNow(c, s) ==
    /\ status' = [status EXCEPT ![c] = s]
    /\ IF c = active THEN Browse(c, s, selected) ELSE UNCHANGED past

\* A pick of the newest session means the live view.
Pick(n) ==
    /\ active # None /\ n \in DOMAIN sessions[active]
    /\ Browse(active, status[active], IF n = Len(sessions[active]) THEN None ELSE n)
    /\ UNCHANGED <<active, backend, mirror, dialing, pane, hydrates, connects>>

\* The effect of the read was not run anew since.
StillWanted(r) == r = [of |-> active, session |-> selected]

SessionAnswer(r) ==
    /\ r \in reads /\ reads' = reads \ {r}
    /\ \E found \in BOOLEAN :
         /\ found => r.session \in DOMAIN sessions[r.of]
         /\ historical' = IF StillWanted(r) THEN IF found THEN r ELSE None ELSE historical
    /\ UNCHANGED <<active, backend, mirror, dialing, pane, selected, hydrates, connects>>

ClearHistory ==
    /\ active # None /\ sessions[active] # <<>> /\ ~up[active]
    /\ sessions' = [sessions EXCEPT ![active] = <<>>]
    /\ transcript' = [transcript EXCEPT ![active] = <<>>]
    /\ Browse(active, status[active], None)
    /\ UNCHANGED <<active, up, bus, status, hydrating, dialing, pane, hydrates, connects>>

----------------------------------------------------------------------------
(* The store. *)

\* The pane of a connection is mounted anew, and loads it.
Activate(c) ==
    /\ c # active /\ hydrates < MaxHydrates
    /\ active' = c /\ hydrates' = hydrates + 1 /\ UNCHANGED connects
    /\ hydrating' = [hydrating EXCEPT ![c] = [messages |-> None, up |-> None]]
    /\ committing' = FALSE
    /\ IF active = None THEN UNCHANGED past ELSE Browse(c, status[c], selected)
    /\ UNCHANGED <<backend, status, transcript, dialing>>

\* The two commands are answered in any order.
ReadMessages(c) ==
    /\ hydrating[c] # None /\ hydrating[c].messages = None
    /\ hydrating' = [hydrating EXCEPT ![c].messages = Newest(c)]
    /\ UNCHANGED <<active, backend, status, transcript, dialing, pane, past, hydrates, connects>>
ReadState(c) ==
    /\ hydrating[c] # None /\ hydrating[c].up = None
    /\ hydrating' = [hydrating EXCEPT ![c].up = up[c]]
    /\ UNCHANGED <<active, backend, status, transcript, dialing, pane, past, hydrates, connects>>
Hydrated(c) ==
    /\ hydrating[c] # None /\ None \notin {hydrating[c].messages, hydrating[c].up}
    /\ transcript' = [transcript EXCEPT ![c] = hydrating[c].messages]
    /\ StatusNow(c, IF hydrating[c].up THEN "open" ELSE "closed")
    /\ hydrating' = [hydrating EXCEPT ![c] = None]
    /\ UNCHANGED <<active, backend, dialing, pane, hydrates, connects>>

\* A seeded fault: a message is appended without a look at its id.
AppendedTwice(list, m) == Append(list, m)
\* "Dedup by id".
Appended(list, m) == IF m \in ToSet(list) THEN list ELSE Append(list, m)

OnStatus(e) ==
    /\ e.kind = "status" /\ StatusNow(e.of, e.what) /\ UNCHANGED transcript
OnMessage(e) ==
    /\ e.kind = "message"
    /\ transcript' = [transcript EXCEPT ![e.of] = Appended(@, e.what)]
    /\ UNCHANGED <<status, past>>
Listen ==
    /\ bus # <<>> /\ bus' = Tail(bus)
    /\ OnStatus(Head(bus)) \/ OnMessage(Head(bus))
    /\ UNCHANGED <<active, up, sessions, hydrating, dialing, pane, hydrates, connects>>

----------------------------------------------------------------------------
(* The pane. *)

\* Disconnect at once; connect when the edits are saved.
Toggle ==
    /\ active # None
    /\ IF Live(status[active])
       THEN /\ Len(bus) < MaxEvents
            /\ StatusNow(active, "closing")
            /\ up' = [up EXCEPT ![active] = FALSE]
            /\ bus' = Append(bus, [of |-> active, kind |-> "status", what |-> "closed"])
            /\ UNCHANGED committing
       ELSE committing' = TRUE /\ UNCHANGED <<up, bus, status, past>>
    /\ UNCHANGED <<active, sessions, transcript, hydrating, dialing, hydrates, connects>>

Connect ==
    /\ committing /\ committing' = FALSE
    /\ connects < MaxConnects /\ connects' = connects + 1
    /\ transcript' = [transcript EXCEPT ![active] = <<>>]
    /\ StatusNow(active, "connecting")
    /\ dialing' = dialing \cup {active}
    /\ UNCHANGED <<active, backend, hydrating, hydrates>>

\* A message of the composer, which stays; the row comes back as an event.
SendMessage ==
    /\ active # None /\ status[active] = "open" /\ up[active]
    /\ Len(bus) < MaxEvents /\ Last(sessions[active]) < MaxMessages
    /\ LET n == Len(sessions[active]) IN
       /\ sessions' = [sessions EXCEPT ![active][n] = @ + 1]
       /\ bus' = Append(bus, [of |-> active, kind |-> "message", what |-> <<n, sessions[active][n] + 1>>])
    /\ UNCHANGED <<active, up, mirror, dialing, pane, past, hydrates, connects>>

----------------------------------------------------------------------------
(* The backend, as the store sees it. *)

Dialed(c) ==
    /\ c \in dialing /\ dialing' = dialing \ {c}
    /\ \/ /\ Len(bus) < MaxEvents
          /\ up' = [up EXCEPT ![c] = TRUE]
          /\ sessions' = [sessions EXCEPT ![c] = Append(@, 0)]
          /\ bus' = Append(bus, [of |-> c, kind |-> "status", what |-> "open"])
          /\ UNCHANGED <<status, past>>
       \/ StatusNow(c, "error") /\ UNCHANGED backend
    /\ UNCHANGED <<active, transcript, hydrating, pane, hydrates, connects>>

PeerSends(c) ==
    /\ up[c] /\ Last(sessions[c]) < MaxMessages /\ Len(bus) < MaxEvents
    /\ LET n == Len(sessions[c]) IN
       /\ sessions' = [sessions EXCEPT ![c][n] = @ + 1]
       /\ bus' = Append(bus, [of |-> c, kind |-> "message", what |-> <<n, sessions[c][n] + 1>>])
    /\ UNCHANGED <<active, up, mirror, dialing, pane, past, hydrates, connects>>

PeerCloses(c) ==
    /\ up[c] /\ Len(bus) < MaxEvents
    /\ up' = [up EXCEPT ![c] = FALSE]
    /\ \E s \in {"closed", "error"} : bus' = Append(bus, [of |-> c, kind |-> "status", what |-> s])
    /\ UNCHANGED <<active, sessions, mirror, dialing, pane, past, hydrates, connects>>

Next ==
    \/ Listen \/ Toggle \/ Connect \/ SendMessage \/ ClearHistory
    \/ \E c \in Conns : \/ Activate(c) \/ ReadMessages(c) \/ ReadState(c) \/ Hydrated(c)
                        \/ Dialed(c) \/ PeerSends(c) \/ PeerCloses(c)
    \/ \E n \in 1..MaxConnects : Pick(n)
    \/ \E r \in reads : SessionAnswer(r)

Spec == Init /\ [][Next]_wsVars

----------------------------------------------------------------------------
\* "Dedup by id ... guard re-delivery" (store/websocket.ts): the transcript never
\* shows a message twice, also when its event arrives after hydrate has read it.
NoRepeats == \A c \in Conns : IsInjective(transcript[c])

----------------------------------------------------------------------------
(* What the comments of the code say and the code does not keep. *)

\* "Load the persisted transcript + current connection state for a connection"
\* (store/websocket.ts): with nothing on its way, a connection that is shown as
\* open is one the backend has.
SettledStatus ==
    \A c \in Conns :
        (bus = <<>> /\ hydrating[c] = None /\ status[c] = "open") => up[c]
=============================================================================
