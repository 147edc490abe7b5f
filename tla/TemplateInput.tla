---------------------------- MODULE TemplateInput ---------------------------
(* The chip editor: a text with variable and function chips, shown in an    *)
(* editable element the code rewrites by hand. TemplateInput is the editor  *)
(* of a field, UrlInput the URL bar, one instance for whichever request is  *)
(* open. Both have an undo stack of their own, a completion menu, and a     *)
(* modal for the arguments of a function, whose encrypt() asks the backend. *)
EXTENDS Integers, Sequences

CONSTANTS Owners, Start, \* whose texts are edited; per owner its first text
          Secrets, None, \* what encrypt() is given; nothing
          MaxText, MaxEdits, MaxUndo \* atoms, edits, undo steps kept

VARIABLES
    editor,  \* "field" or "url"
    owner,   \* whose text is in the editor
    value,   \* per owner: its text, as the owner keeps it
    shown,   \* the element's text
    caret,   \* between two atoms
    skip,    \* the next change of the value is the editor's own
    undo, redo, \* the stacks of texts
    menu,    \* the completion menu, and where the partial expression begins
    end,     \* the caret when the URL bar's menu opened a modal
    modal,   \* the function modal
    dialog,  \* the dialog that turns encryption on
    enabled, \* the workspace encrypts
    reads,   \* plaintexts asked for
    running, \* an encryption under way
    edits

inputVars == <<editor, owner, value, shown, caret, skip, undo, redo, menu, end,
               modal, dialog, enabled, reads, running, edits>>

Char == <<"char", "">>
Var == <<"var", "">>
Cipher(s) == <<"cipher", s>>
Plain(s) == <<"plain", s>>
Chips == {Var} \cup {Cipher(s) : s \in Secrets} \cup {Plain(s) : s \in Secrets}
Atoms == {Char} \cup Chips
Texts == UNION {[1..n -> Atoms] : n \in 0..MaxText}
Positions == 0..MaxText

----------------------------------------------------------------------------
(* The text. *)

Least(a, b) == IF a < b THEN a ELSE b
Spliced(t, from, to, atom) == SubSeq(t, 1, Least(from, Len(t))) \o atom \o SubSeq(t, to + 1, Len(t))

\* Where the word before the caret begins; chips end a word.
PartialStart(t, c) == CHOOSE i \in 0..c : /\ \A j \in (i + 1)..c : t[j] = Char
                                          /\ i = 0 \/ t[i] # Char
Closed == [menu EXCEPT !.open = FALSE]
Completing(t, c) == LET i == PartialStart(t, c)
                    IN IF i = c THEN Closed ELSE [open |-> TRUE, start |-> i]

\* The editor rewrote its own text. The flag it raises is taken down by the
\* effect that a change of the value sets off; the same value sets off none.
Wrote(t, c) ==
    /\ Len(t) <= MaxText
    /\ shown' = t
    /\ caret' = Least(c, Len(t))
    /\ value' = [value EXCEPT ![owner] = t]
    /\ skip' = (t = value[owner])

\* The value changed from outside.
Synced(v, o) ==
    /\ value' = v
    /\ owner' = o
    /\ LET t == v[o] IN
       IF t = value[owner] THEN UNCHANGED <<shown, caret, skip>>
       ELSE /\ skip' = FALSE
            /\ shown' = IF skip THEN shown ELSE t
            /\ caret' = Least(caret, Len(shown'))

Edited == edits < MaxEdits /\ edits' = edits + 1
Untouched == UNCHANGED <<editor, owner, end, modal, dialog, enabled, reads, running>>

----------------------------------------------------------------------------
(* Keys. *)

\* The same text twice in a row is kept once; a new edit ends what can be redone.
Pushed(stack, entry) == LET s == Append(stack, entry)
                        IN IF Len(s) > MaxUndo THEN Tail(s) ELSE s
PushUndo ==
    IF undo # <<>> /\ undo[Len(undo)].text = shown THEN UNCHANGED <<undo, redo>>
    ELSE undo' = Pushed(undo, [text |-> shown, caret |-> caret]) /\ redo' = <<>>

Type ==
    /\ Edited /\ PushUndo
    /\ LET t == Spliced(shown, caret, caret, <<Char>>)
       IN Wrote(t, caret + 1) /\ menu' = Completing(t, caret + 1)
    /\ Untouched

\* What follows a question mark in the URL bar leaves for the params tab.
TypeQuestionMark ==
    /\ editor = "url"
    /\ Edited /\ PushUndo
    /\ Wrote(SubSeq(shown, 1, caret), caret)
    /\ UNCHANGED menu
    /\ Untouched

\* A chip goes whole.
Backspace ==
    /\ caret > 0
    /\ Edited /\ PushUndo
    /\ LET t == Spliced(shown, caret - 1, caret, <<>>)
       IN /\ Wrote(t, caret - 1)
          /\ menu' = IF shown[caret] \in Chips THEN Closed ELSE Completing(t, caret - 1)
    /\ Untouched

\* An arrow closes the menu and steps over a chip as over a letter.
MoveCaret(c) ==
    /\ c \in 0..Len(shown) /\ c # caret
    /\ caret' = c
    /\ menu' = Closed
    /\ UNCHANGED <<value, shown, skip, undo, redo, edits>> /\ Untouched

Undo ==
    /\ undo # <<>>
    /\ LET s == undo[Len(undo)] IN Wrote(s.text, s.caret)
    /\ undo' = SubSeq(undo, 1, Len(undo) - 1)
    /\ redo' = Append(redo, [text |-> shown, caret |-> caret])
    /\ menu' = Closed
    /\ UNCHANGED edits /\ Untouched
Redo ==
    /\ redo # <<>>
    /\ LET s == redo[Len(redo)] IN Wrote(s.text, s.caret)
    /\ redo' = SubSeq(redo, 1, Len(redo) - 1)
    /\ undo' = Append(undo, [text |-> shown, caret |-> caret])
    /\ menu' = Closed
    /\ UNCHANGED edits /\ Untouched

----------------------------------------------------------------------------
(* The completion menu and the modal. *)

\* The URL bar remembers the caret for a modal it opened, and for whatever is inserted next.
InsertEnd == IF editor = "url" /\ end # None THEN end ELSE caret
InsertToken(atom, from, to) ==
    /\ Wrote(Spliced(shown, from, to, <<atom>>), from + 1)
    /\ menu' = Closed
    /\ end' = None

\* A variable, or one of the constants a field offers, takes the place of what was typed.
PickItem(atom) ==
    /\ menu.open
    /\ atom = Var \/ editor = "field"
    /\ InsertToken(atom, menu.start, InsertEnd)
    /\ UNCHANGED <<editor, owner, undo, redo, modal, dialog, enabled, reads, running, edits>>

\* A namespace is spelled out and the menu offers what it holds.
PickNamespace ==
    /\ menu.open
    /\ Wrote(Spliced(shown, menu.start, caret, <<Char>>), menu.start + 1)
    /\ UNCHANGED <<undo, redo, menu, edits>> /\ Untouched

Blank == ""
NewModal(from, to) == [old |-> None, from |-> from, to |-> to, arg |-> Blank]

\* encrypt() first asks for encryption to be turned on; only a field remembers why.
PickFunc ==
    /\ menu.open
    /\ menu' = Closed
    /\ end' = IF editor = "url" THEN caret ELSE None
    /\ IF enabled THEN modal' = NewModal(menu.start, caret) /\ UNCHANGED dialog
       ELSE /\ dialog' = IF editor = "url" THEN <<>> ELSE <<menu.start, caret>>
            /\ UNCHANGED modal
    /\ UNCHANGED <<editor, owner, value, shown, caret, skip, undo, redo, enabled, reads, running, edits>>

TurnOn ==
    /\ dialog # None
    /\ enabled' = TRUE
    /\ dialog' = None
    /\ modal' = IF dialog = <<>> THEN modal ELSE NewModal(dialog[1], dialog[2])
    /\ UNCHANGED <<editor, owner, value, shown, caret, skip, undo, redo, menu, end, reads, running, edits>>

CancelDialog ==
    /\ dialog # None
    /\ dialog' = None
    /\ UNCHANGED <<editor, owner, value, shown, caret, skip, undo, redo, menu, end,
                   modal, enabled, reads, running, edits>>

\* A chip is edited from its plaintext, which the modal waits for. The URL bar
\* looks for the chip by the blank argument it shows meanwhile.
ClickChip(s) ==
    /\ modal = None /\ dialog = None
    /\ \E i \in 1..Len(shown) : shown[i] = Cipher(s)
    /\ IF enabled
       THEN /\ modal' = [old |-> Cipher(IF editor = "url" THEN Blank ELSE s),
                         from |-> 0, to |-> 0, arg |-> Blank]
            /\ reads' = reads \cup {s}
            /\ UNCHANGED dialog
       ELSE dialog' = <<>> /\ UNCHANGED <<modal, reads>>
    /\ UNCHANGED <<editor, owner, value, shown, caret, skip, undo, redo, menu, end, enabled, running, edits>>

\* The plaintext goes to the modal that is open by then, or the read failed.
Decrypted(s) ==
    /\ s \in reads
    /\ reads' = reads \ {s}
    /\ \/ modal # None /\ modal' = [modal EXCEPT !.arg = s]
       \/ UNCHANGED modal
    /\ UNCHANGED <<editor, owner, value, shown, caret, skip, undo, redo, menu, end,
                   dialog, enabled, running, edits>>

CloseModal ==
    /\ modal # None
    /\ modal' = None
    /\ UNCHANGED <<editor, owner, value, shown, caret, skip, undo, redo, menu, end,
                   dialog, enabled, reads, running, edits>>

Submit(s) ==
    /\ modal # None /\ running = None
    /\ Edited
    /\ s # Blank
    /\ running' = [modal EXCEPT !.arg = s]
    /\ modal' = None
    /\ UNCHANGED <<editor, owner, value, shown, caret, skip, undo, redo, menu, end,
                   dialog, enabled, reads>>

\* Where a token goes: the first chip like the one that was edited, the end of
\* the text when there is none, or the place the modal was opened at.
Place(token) ==
    LET at == {i \in 1..Len(shown) : shown[i] = running.old}
    IN IF running.old = None
       THEN InsertToken(token, IF editor = "url" THEN menu.start ELSE running.from,
                        IF editor = "url" THEN InsertEnd ELSE running.to)
       ELSE /\ UNCHANGED <<menu, end>>
            /\ IF at = {} THEN Wrote(Append(shown, token), caret)
               ELSE LET i == CHOOSE i \in at : \A j \in at : i <= j
                    IN Wrote([shown EXCEPT ![i] = token], caret)

\* A seeded fault: a failed encryption is inserted as it is.
FailedAnyway(s) == Place(Plain(s))
\* A failed encryption is dropped by a field and inserted as it is by the URL bar.
EncryptFailed(s) == IF editor = "url" THEN Place(Plain(s))
                    ELSE UNCHANGED <<value, shown, caret, skip, menu, end>>
Encrypted ==
    /\ running # None
    /\ running' = None
    /\ Place(Cipher(running.arg)) \/ EncryptFailed(running.arg)
    /\ UNCHANGED <<editor, owner, undo, redo, modal, dialog, enabled, reads, edits>>

----------------------------------------------------------------------------
(* The owner's side. *)

Outside == UNCHANGED <<editor, undo, redo, menu, end, modal, dialog, enabled, reads, running>>

\* The URL bar stays mounted when another request is opened.
Open(o) == editor = "url" /\ o # owner /\ Synced(value, o) /\ Outside /\ UNCHANGED edits

\* A reload brings another text.
Reload(t) ==
    /\ Edited
    /\ t # value[owner]
    /\ Synced([value EXCEPT ![owner] = t], owner)
    /\ Outside

----------------------------------------------------------------------------

Init ==
    /\ editor \in {"field", "url"}
    /\ owner \in Owners
    /\ value = Start
    /\ shown = Start[owner]
    /\ caret = Len(shown)
    /\ skip = FALSE
    /\ undo = <<>> /\ redo = <<>>
    /\ menu = [open |-> FALSE, start |-> 0]
    /\ end = None /\ modal = None /\ dialog = None
    /\ enabled \in BOOLEAN
    /\ reads = {} /\ running = None
    /\ edits = 0

Next ==
    \/ Type \/ TypeQuestionMark \/ Backspace \/ Undo \/ Redo
    \/ PickItem(Var) \/ PickItem(Char) \/ PickNamespace \/ PickFunc \/ TurnOn \/ CancelDialog \/ CloseModal \/ Encrypted
    \/ \E c \in Positions : MoveCaret(c)
    \/ \E s \in Secrets : ClickChip(s) \/ Decrypted(s) \/ Submit(s)
    \/ \E o \in Owners : Open(o) \/ Reload(Start[o])

Spec == Init /\ [][Next]_inputVars

----------------------------------------------------------------------------
\* A field never holds a secret in the clear: encrypt() is given its argument
\* by the user or by a decryption, and only a ciphertext goes into the text.
ChipsAreCiphertext ==
    editor = "field" =>
        \A o \in Owners : \A i \in DOMAIN value[o] : value[o][i][1] # "plain"

----------------------------------------------------------------------------
(* What the comments of the code say and the code does not keep. *)

\* The editor shows the text of its owner: an outside change is skipped only
\* when it is the echo of an edit.
ShownIsValue == shown = value[owner]

\* Editing a chip replaces it: no edit makes the text longer.
EditsInPlace == [][Encrypted /\ running.old # None => Len(shown') = Len(shown)]_inputVars
=============================================================================
