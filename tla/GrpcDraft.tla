----------------------------- MODULE GrpcDraft ------------------------------
(* The pane that edits a gRPC request (GrpcPane): the method picked from    *)
(* the discovered services, its schema, which is asked for in the           *)
(* background, and the message, which is seeded from the schema when it is  *)
(* blank.  A pasted grpcurl command replaces all of it at once.             *)
EXTENDS Integers, FiniteSets

CONSTANTS Methods,    \* methods of the services
          Unary,      \* those of them that do not stream
          None,       \* no method, no schema, no edit
          MaxBuilds,  \* descriptor builds at a time
          MaxEdits    \* edits, picks and imports

VARIABLES
    saved,       \* the message of the stored request
    edited,      \* messageOverride: what the editor holds instead, or None
    method,      \* the method that is picked
    source,      \* where the schema comes from: "reflection", "files" or "no files" yet
    schema,      \* the method whose schema the form shows
    describing,  \* descriptions without an answer
    blank,       \* blankMessage: the next schema seeds the message
    building,    \* descriptor builds without an answer
    refreshing,  \* the spinner of the builds
    offered,     \* the methods the picker lists
    menu,        \* the method menu is open
    tab, mode,   \* the tab, and how its message is edited
    status,      \* the streaming call's status
    carried,     \* history: the message is the body of an imported command
    edits

draftVars == <<saved, edited, method, source, schema, describing, blank, building,
               refreshing, offered, menu, tab, mode, status, carried, edits>>
message == <<saved, edited, blank, carried>>
descriptors == <<building, refreshing, offered>>
look == <<menu, tab, mode>>

\* Messages: the empty one, one typed in, an import's body, a method's empty form.
Plain(kind) == [kind |-> kind, of |-> None]
Seed(m) == [kind |-> "seed", of |-> m]

Init ==
    /\ saved = Plain("empty") /\ edited = None /\ blank = TRUE /\ carried = FALSE
    /\ method = None /\ source = "reflection" /\ schema = None /\ describing = {}
    /\ building = 1 /\ refreshing = TRUE /\ offered = {}
    /\ menu = FALSE /\ tab = "message" /\ mode = "form"
    /\ status = "idle" /\ edits = 0

Live == status \in {"connecting", "streaming"}
Shown == IF edited = None THEN saved ELSE edited
Edit == edits < MaxEdits /\ edits' = edits + 1

\* A save writes the whole request; a message that changes in the store drops
\* the edit that hid it.
Save(m) ==
    /\ saved' = m
    /\ edited' = IF m = saved THEN edited ELSE None

\* Another method is described; no method has no schema.
Choose(m) ==
    /\ method' = m
    /\ schema' = IF m = None THEN None ELSE schema
    /\ describing' = IF m \in {None, method} THEN describing ELSE describing \cup {m}

\* What the pane shows below its tabs, and what the button of the URL bar does.
Body == CASE tab # "message" -> tab [] schema = None -> "hint" [] OTHER -> mode
Modes == IF Body \in {"form", "editor"} THEN {"form", "editor"} ELSE {mode}
CanSend == schema # None /\ method # None
Primary == CASE ~CanSend -> "none" [] schema \in Unary -> "send" [] Live -> "cancel" [] OTHER -> "start"

\* What the method menu lists, and what stands above the list.
Listed == IF source = "no files" THEN {} ELSE offered
Sources == CASE source = "reflection" -> {"no files"}
             [] source = "no files" -> {"files", "reflection"}
             [] OTHER -> {"files", "no files", "reflection"}
CanRefresh == source = "reflection" /\ ~refreshing

\* A build starts once the save is done.
Rebuild ==
    /\ building < MaxBuilds
    /\ building' = building + 1 /\ refreshing' = TRUE /\ UNCHANGED offered

----------------------------------------------------------------------------
OpenMenu == ~Live /\ ~menu /\ menu' = TRUE
            /\ UNCHANGED <<message, method, source, schema, describing, descriptors, tab, mode, status, edits>>
CloseMenu == menu /\ menu' = FALSE
            /\ UNCHANGED <<message, method, source, schema, describing, descriptors, tab, mode, status, edits>>

SelectMethod(m) ==
    /\ menu /\ m \in Listed /\ Edit
    /\ Save(Shown) /\ Choose(m)
    /\ blank' = TRUE /\ carried' = FALSE /\ menu' = FALSE
    /\ UNCHANGED <<source, descriptors, tab, mode, status>>

\* The schema is built anew, so the selection is dropped.
ChangeSource ==
    /\ menu /\ Edit
    /\ source' \in Sources
    /\ Save(Shown) /\ Choose(None) /\ Rebuild
    /\ UNCHANGED <<blank, carried, menu, tab, mode, status>>

\* The target or the transport changes.
ChangeTarget ==
    /\ ~Live /\ Edit /\ Save(Shown) /\ Rebuild
    /\ UNCHANGED <<blank, carried, method, source, schema, describing, look, status>>

Refresh ==
    /\ menu /\ CanRefresh /\ Rebuild
    /\ UNCHANGED <<message, method, source, schema, describing, look, status, edits>>

Typing ==
    /\ Body \in {"form", "editor"} /\ Edit
    /\ edited' = Plain("typed") /\ carried' = FALSE
    /\ UNCHANGED <<saved, blank, method, source, schema, describing, descriptors, look, status>>

\* A seeded fault: an import has the message seeded as a pick has.
AlwaysReseeds(body) == TRUE
\* An imported command carries its own body.
Reseeds(body) == body = Plain("empty")

Import(m, body) ==
    /\ ~Live /\ Edit
    /\ Save(body) /\ Choose(m)
    /\ blank' = IF m = None THEN blank ELSE Reseeds(body)
    /\ source' \in {"reflection", "files"}
    /\ carried' = (m # None /\ body # Plain("empty") /\ edited' = None)
    /\ UNCHANGED <<descriptors, look, status>>

ShowTab(t, md) ==
    /\ tab' = t /\ mode' = md /\ <<t, md>> # <<tab, mode>>
    /\ md # mode => t = tab /\ md \in Modes
    /\ UNCHANGED <<message, method, source, schema, describing, descriptors, menu, status, edits>>

----------------------------------------------------------------------------
(* Answers. *)

\* Only the description of the method that is picked by now counts.
Described(m) ==
    /\ m \in describing /\ describing' = describing \ {m}
    /\ \E known \in BOOLEAN :
         IF known /\ m = method
         THEN /\ schema' = m
              /\ edited' = IF blank THEN Seed(m) ELSE edited
              /\ blank' = FALSE
         ELSE UNCHANGED <<schema, edited, blank>>
    /\ UNCHANGED <<saved, carried, method, source, descriptors, look, status, edits>>

Built ==
    /\ building > 0 /\ building' = building - 1 /\ refreshing' = FALSE
    /\ offered' \in {offered} \cup SUBSET Methods
    /\ UNCHANGED <<message, method, source, schema, describing, look, status, edits>>

\* The primary action goes by the kind of the schema that is shown.
Start ==
    /\ Primary = "start"
    /\ Save(Shown)
    /\ status' = "connecting"
    /\ UNCHANGED <<blank, carried, method, source, schema, describing, descriptors, look, edits>>
StreamStatus ==
    /\ Live /\ status' \in {"streaming", "done", "error"} \ {status}
    /\ UNCHANGED <<message, method, source, schema, describing, descriptors, look, edits>>

Next ==
    \/ OpenMenu \/ CloseMenu \/ ChangeSource \/ ChangeTarget \/ Refresh \/ Typing
    \/ Built \/ Start \/ StreamStatus
    \/ \E m \in Methods : SelectMethod(m) \/ Described(m)
    \/ \E m \in Methods \cup {None}, body \in {Plain("empty"), Plain("body")} : Import(m, body)
    \/ \E t \in {"message", "metadata", "auth"}, md \in {"form", "editor"} : ShowTab(t, md)

Spec == Init /\ [][Next]_draftVars

----------------------------------------------------------------------------
\* Of a body that an import put into the message (see ImportReplacesMessage):
\* "an imported command carries its own body, which the schema-resolved empty
\* form would clobber" (useGrpcDraft.ts): until the message is edited or another
\* method is picked, no description that is still to come, of this method or of
\* an earlier one, puts an empty form in its place.
ImportedBodyKept == carried => Shown.kind # "seed"

----------------------------------------------------------------------------
(* What the comments of the code say and the code does not keep. *)

\* "Replace a gRPC request's whole connection from a pasted grpcurl command."
\* (applyGrpcImport.ts): the message that is shown is the command's.
ImportReplacesMessage ==
    [][\A m \in Methods, body \in {Plain("body")} : Import(m, body) => Shown' = body]_draftVars

\* "Descriptor (re)build in flight" (store/grpc/types.ts) drives the spinner.
SpinnerIsBuild == refreshing = (building > 0)
=============================================================================
