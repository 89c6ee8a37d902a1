----------------------------- MODULE ChatDrafts -----------------------------
(***************************************************************************)
(* The unsent message of one conversation: its row in workspace_drafts     *)
(* (drafts.ts), the windows that edit it (DraftRecovery of the window's    *)
(* draft-recovery.ts), the sending of it (Chat.tsx and the begin-turn      *)
(* transaction of conversations.ts) and the list of recovered drafts, from *)
(* which it can be discarded.                                              *)
(*                                                                         *)
(* A text stands for a draft with one client id: typing, and adding or     *)
(* removing a file, draws a new one.  The form of a draft stands for the   *)
(* rest of it: "frozen" once a send has fixed the conversation and model,  *)
(* "adjusted" after a change that keeps the client id (model, matters, a   *)
(* suggested question in place of the message).  The properties are about  *)
(* client ids.                                                             *)
(* The random revision of a row is named by the write or the sent message  *)
(* that gave it.                                                           *)
(*                                                                         *)
(* Each window awaits one call at a time.  A call can fail before or after *)
(* the workspace served it, and a write that its window gave up after five *)
(* seconds may still be served later.  Serving a call and hearing its      *)
(* answer are one step here: in between a window can at most edit its      *)
(* text, which neither the service nor the answer looks at.                *)
(***************************************************************************)
EXTENDS Naturals, FiniteSets

CONSTANTS
  Windows,      \* windows that show the conversation
  List,         \* the list of recovered drafts, an editor of its own
  Texts,        \* messages that are ever typed, each with its client id
  NoText, NoRevision, NoWrite, Never,
  MaxWrites,    \* bound: writes a window draws
  MaxDiscards,  \* bound: discards from the list
  MaxFailures   \* bound: calls that fail

ASSUME BoundsAssumption ==
  MaxWrites \in Nat /\ MaxDiscards \in Nat /\ MaxFailures \in Nat

VARIABLES
  row,       \* [revision, write, value]: the row of the draft's key
  turns,     \* messages accepted as turns
  view,      \* per window: "closed", "restoring" or "ready"
  text,      \* per window: what the composer holds
  revision,  \* per window: the revision its next write expects
  acked,     \* per window: the value it takes for saved
  pending,   \* per window: the write without an answer
  sending,   \* per window: how far its send is
  call,      \* per window: the call it awaits
  late,      \* writes given up by their windows, still to be served
  listed,    \* the row as the list of recovered drafts shows it
  made,      \* writes drawn, per editor
  failures,  \* calls that failed
  shown,     \* history: messages an editor has shown
  stored     \* history: messages the workspace has stored

window == <<view, text, revision, acked, pending, sending, call>>
vars == <<row, turns, window, late, listed, made, failures, shown, stored>>

Editors == Windows \cup {List}
Drafts == [id: Texts, form: {"typed", "adjusted", "frozen"}]
Values == Drafts \cup {NoText}
Bound(e) == IF e = List THEN MaxDiscards ELSE MaxWrites
Writes == {id \in Editors \X Nat : id[2] \in 1..Bound(id[1])}
Revisions == Writes \cup Texts \cup {NoRevision}
Rows == [revision: Revisions, write: Writes \cup {NoWrite}, value: Values]
Requests == [id: Writes, expected: Revisions, value: Values]

ASSUME SentinelsAssumption ==
  /\ List \notin Windows /\ NoText \notin Drafts /\ NoWrite \notin Requests
  /\ NoRevision \notin Writes /\ Texts \cap Writes = {}

Dirty(w) == text[w] # acked[w]
Clean(w) == ~Dirty(w) /\ pending[w] = NoWrite
NewWrite(e, expected, value) ==
  [id |-> <<e, made[e] + 1>>, expected |-> expected, value |-> value]

TypeOK ==
  /\ row \in Rows
  /\ turns \subseteq Texts
  /\ view \in [Windows -> {"closed", "restoring", "ready"}]
  /\ text \in [Windows -> Values]
  /\ revision \in [Windows -> Revisions]
  /\ acked \in [Windows -> Values \cup {Never}]
  /\ pending \in [Windows -> Requests \cup {NoWrite}]
  /\ sending \in [Windows -> {"no", "saving", "freezing"}]
  /\ call \in [Windows -> {"none", "open", "reload", "retry", "write", "send"}]
  /\ late \subseteq Requests
  /\ listed \in Rows
  /\ made \in [Editors -> Nat] /\ \A e \in Editors : made[e] <= Bound(e)
  /\ failures \in 0..MaxFailures
  /\ shown \in [Editors -> SUBSET Texts]
  /\ stored \subseteq Texts
  /\ \A w \in Windows :
       /\ sending[w] # "no" => view[w] = "ready" /\ text[w] # NoText
       /\ call[w] \in {"open", "reload", "retry"} => view[w] = "restoring"
       /\ call[w] = "write" => pending[w] # NoWrite
       /\ call[w] = "send" => sending[w] = "freezing" /\ Clean(w)

Unwritten == [revision |-> NoRevision, write |-> NoWrite, value |-> NoText]

Init ==
  /\ row = Unwritten /\ listed = Unwritten
  /\ turns = {} /\ late = {} /\ stored = {} /\ failures = 0
  /\ view = [w \in Windows |-> "closed"]
  /\ text = [w \in Windows |-> NoText]
  /\ revision = [w \in Windows |-> NoRevision]
  /\ acked = [w \in Windows |-> NoText]
  /\ pending = [w \in Windows |-> NoWrite]
  /\ sending = [w \in Windows |-> "no"]
  /\ call = [w \in Windows |-> "none"]
  /\ made = [e \in Editors |-> 0]
  /\ shown = [e \in Editors |-> {}]

-----------------------------------------------------------------------------
(* The workspace *)

\* DEFECT: save() stores whatever it is given.
StoredAsGiven(value) == value
\* A message that was sent is stored as no draft.
StoredValue(value) ==
  IF value # NoText /\ value.id \in turns THEN NoText ELSE value

\* DEFECT: save() trusts the window.
NeverOutdated(request) == FALSE
\* WorkspaceDrafts.save: a repeated write is answered with the row as it is, a
\* write for another revision is refused.
Repeated(request) == row.write = request.id
Outdated(request) == ~Repeated(request) /\ row.revision # request.expected

Save(request) ==
  IF Repeated(request) \/ Outdated(request)
  THEN UNCHANGED <<row, stored>>
  ELSE /\ row' = [revision |-> request.id, write |-> request.id,
                  value |-> StoredValue(request.value)]
       /\ stored' = stored \cup {d.id : d \in {StoredValue(request.value)} \ {NoText}}

\* consumeChat, in the transaction that begins the turn.
Consumed(t) ==
  IF row.value # NoText /\ row.value.id = t
  THEN [row EXCEPT !.value = NoText, !.revision = t]
  ELSE row

\* A write that its window gave up is served after all.
ServeLate(request) ==
  /\ request \in late
  /\ late' = late \ {request}
  /\ Save(request)
  /\ UNCHANGED <<turns, window, listed, made, failures, shown>>

-----------------------------------------------------------------------------
(* Opening and loading in a window *)

\* open(): the composer starts empty or with the text its tab kept or was
\* handed, and the saved draft is asked for.
Open(w) ==
  /\ view[w] = "closed"
  /\ view' = [view EXCEPT ![w] = "restoring"]
  /\ call' = [call EXCEPT ![w] = "open"]
  /\ UNCHANGED <<row, turns, text, revision, acked, pending, sending, late,
                 listed, made, failures, shown, stored>>

Unused == Texts \ UNION {shown[e] : e \in Editors}

\* The tab is opened with a prepared message.
Prepare(w, t) ==
  /\ view[w] = "closed" /\ text[w] = NoText /\ t \in Unused
  /\ text' = [text EXCEPT ![w] = [id |-> t, form |-> "typed"]]
  /\ shown' = [shown EXCEPT ![w] = @ \cup {t}]
  /\ UNCHANGED <<row, turns, view, revision, acked, pending, sending, call,
                 late, listed, made, failures, stored>>

\* load() from the notice: after "Load saved draft" the text is replaced even
\* by none, after a failed load "Retry draft save" keeps it where none is saved.
Load(w) ==
  /\ call[w] = "none" /\ sending[w] = "no" /\ view[w] # "closed"
  /\ call' = [call EXCEPT ![w] = IF view[w] = "ready" THEN "reload" ELSE "retry"]
  /\ view' = [view EXCEPT ![w] = "restoring"]
  /\ UNCHANGED <<row, turns, text, revision, acked, pending, sending, late,
                 listed, made, failures, shown, stored>>

Restored(w) ==
  IF row.value # NoText THEN row.value
  ELSE IF call[w] = "retry" \/ (call[w] = "open" /\ row.revision = NoRevision)
       THEN text[w] ELSE NoText

\* A text of the tab itself is scheduled for saving, if nothing was ever saved.
Migrates(w) ==
  call[w] = "open" /\ row.revision = NoRevision /\ Restored(w) # NoText

Restore(w) ==
  /\ call[w] \in {"open", "reload", "retry"}
  /\ text' = [text EXCEPT ![w] = Restored(w)]
  /\ acked' = [acked EXCEPT ![w] = IF Migrates(w) THEN Never ELSE Restored(w)]
  /\ revision' = [revision EXCEPT ![w] = row.revision]
  /\ pending' = [pending EXCEPT ![w] = NoWrite]
  /\ view' = [view EXCEPT ![w] = "ready"]
  /\ call' = [call EXCEPT ![w] = "none"]
  /\ shown' = [shown EXCEPT ![w] = @ \cup {d.id : d \in {Restored(w)} \ {NoText}}]
  /\ UNCHANGED <<row, turns, sending, late, listed, made, failures, stored>>

-----------------------------------------------------------------------------
(* Editing and saving in a window *)

\* Typing, adding or removing a file: a new client id, the rest as it was.  In
\* an empty composer also a suggestion, which takes the id drawn with it.
Type(w, t) ==
  /\ view[w] = "ready" /\ sending[w] = "no" /\ t \in Unused
  /\ text' = [text EXCEPT ![w] =
       [id |-> t, form |-> IF text[w] = NoText THEN "typed" ELSE text[w].form]]
  /\ shown' = [shown EXCEPT ![w] = @ \cup {t}]
  /\ UNCHANGED <<row, turns, view, revision, acked, pending, sending, call,
                 late, listed, made, failures, stored>>

\* Choosing another model or other matters, until a send fixed them.
Adjust(w) ==
  /\ view[w] = "ready" /\ sending[w] = "no"
  /\ text[w] # NoText /\ text[w].form = "typed"
  /\ text' = [text EXCEPT ![w].form = "adjusted"]
  /\ UNCHANGED <<row, turns, view, revision, acked, pending, sending, call,
                 late, listed, made, failures, shown, stored>>

\* A suggested question replaces the message and keeps the client id, even while
\* a send is saving the draft: what is sent is the message the send began with.
\* (Bound: not in a draft that a send has fixed.)
Suggest(w) ==
  /\ view[w] = "ready" /\ call[w] # "send"
  /\ text[w] # NoText /\ text[w].form = "typed"
  /\ text' = [text EXCEPT ![w].form = "adjusted"]
  /\ UNCHANGED <<row, turns, view, revision, acked, pending, sending, call,
                 late, listed, made, failures, shown, stored>>

\* write(), started by the timer, by "Retry draft save" or by a send: a write
\* without an answer is sent again as it is before newer text is.
Write(w) ==
  /\ view[w] = "ready" /\ call[w] = "none" /\ ~Clean(w)
  /\ IF pending[w] # NoWrite
     THEN UNCHANGED <<pending, made>>
     ELSE /\ made[w] < Bound(w)
          /\ pending' = [pending EXCEPT ![w] = NewWrite(w, revision[w], text[w])]
          /\ made' = [made EXCEPT ![w] = @ + 1]
  /\ call' = [call EXCEPT ![w] = "write"]
  /\ UNCHANGED <<row, turns, view, text, revision, acked, sending, late, listed,
                 failures, shown, stored>>

\* A call is over without a result: a send is given up, the text stays.
EndCall(w) ==
  /\ call' = [call EXCEPT ![w] = "none"]
  /\ sending' = [sending EXCEPT ![w] = "no"]

ServeWrite(w) ==
  /\ call[w] = "write"
  /\ Save(pending[w])
  /\ \/ /\ ~Outdated(pending[w])
        /\ revision' = [revision EXCEPT ![w] = row'.revision]
        /\ acked' = [acked EXCEPT ![w] = pending[w].value]
        /\ pending' = [pending EXCEPT ![w] = NoWrite]
        /\ call' = [call EXCEPT ![w] = "none"]
        /\ UNCHANGED <<sending, failures>>
     \/ /\ Outdated(pending[w])
        /\ EndCall(w)
        /\ UNCHANGED <<revision, acked, pending, failures>>
     \/ /\ ~Outdated(pending[w]) /\ failures < MaxFailures  \* the answer is lost
        /\ failures' = failures + 1
        /\ EndCall(w)
        /\ UNCHANGED <<revision, acked, pending>>
  /\ UNCHANGED <<turns, view, text, late, listed, made, shown>>

-----------------------------------------------------------------------------
(* Sending from a window *)

\* send(): the text is saved, the choice fixed in it and saved again, and only
\* then is the message sent.
Send(w) ==
  /\ view[w] = "ready" /\ text[w] # NoText /\ sending[w] = "no"
  /\ sending' = [sending EXCEPT ![w] = "saving"]
  /\ UNCHANGED <<row, turns, view, text, revision, acked, pending, call, late,
                 listed, made, failures, shown, stored>>

Freeze(w) ==
  /\ sending[w] = "saving" /\ call[w] = "none" /\ Clean(w)
  /\ sending' = [sending EXCEPT ![w] = "freezing"]
  /\ text' = [text EXCEPT ![w].form = "frozen"]
  /\ UNCHANGED <<row, turns, view, revision, acked, pending, call, late, listed,
                 made, failures, shown, stored>>

Submit(w) ==
  /\ sending[w] = "freezing" /\ call[w] = "none" /\ Clean(w)
  /\ call' = [call EXCEPT ![w] = "send"]
  /\ UNCHANGED <<row, turns, view, text, revision, acked, pending, sending,
                 late, listed, made, failures, shown, stored>>

\* A message sent before is answered with its turn; another begins a turn,
\* whose transaction consumes the draft.
Accept(t) ==
  /\ turns' = turns \cup {t}
  /\ row' = IF t \in turns THEN row ELSE Consumed(t)

EndSend(w) == sending' = [sending EXCEPT ![w] = "no"]

\* afterSend(): the composer is emptied and the saved draft asked for.
ServeSend(w) ==
  /\ call[w] = "send"
  /\ Accept(text[w].id)
  /\ text' = [text EXCEPT ![w] = NoText]
  /\ acked' = [acked EXCEPT ![w] = NoText]
  /\ view' = [view EXCEPT ![w] = "restoring"]
  /\ call' = [call EXCEPT ![w] = "reload"]
  /\ EndSend(w)
  /\ UNCHANGED <<revision, pending, late, listed, made, failures, shown, stored>>

\* The message is accepted, but the window does not hear of it.
LoseSent(w) ==
  /\ call[w] = "send" /\ failures < MaxFailures
  /\ Accept(text[w].id)
  /\ EndCall(w)
  /\ failures' = failures + 1
  /\ UNCHANGED <<view, text, revision, acked, pending, late, listed, made,
                 shown, stored>>

\* The conversation is busy, four responses run, or an attachment is gone.
RefuseSend(w) ==
  /\ call[w] = "send" /\ text[w].id \notin turns
  /\ EndCall(w)
  /\ UNCHANGED <<row, turns, view, text, revision, acked, pending, late, listed,
                 made, failures, shown, stored>>

-----------------------------------------------------------------------------
(* Failures of a window's calls *)

\* A write that its window no longer awaits may still be on its way.
Abandon(w) ==
  \/ late' = late
  \/ call[w] = "write" /\ late' = late \cup {pending[w]}

\* The connection breaks or five seconds pass.
Fail(w) ==
  /\ call[w] # "none" /\ failures < MaxFailures
  /\ failures' = failures + 1
  /\ Abandon(w)
  /\ EndCall(w)
  /\ UNCHANGED <<row, turns, view, text, revision, acked, pending, listed,
                 made, shown, stored>>

\* The window ends; its tab may keep the text for the next open().
Vanish(w) ==
  /\ view[w] # "closed" /\ failures < MaxFailures
  /\ failures' = failures + 1
  /\ Abandon(w)
  /\ EndCall(w)
  /\ view' = [view EXCEPT ![w] = "closed"]
  /\ revision' = [revision EXCEPT ![w] = NoRevision]
  /\ pending' = [pending EXCEPT ![w] = NoWrite]
  /\ \E kept \in {NoText, text[w]} :
       /\ text' = [text EXCEPT ![w] = kept]
       /\ acked' = [acked EXCEPT ![w] = kept]
  /\ UNCHANGED <<row, turns, listed, made, shown, stored>>

-----------------------------------------------------------------------------
(* The list of recovered drafts *)

Refresh ==
  /\ row.value # NoText /\ listed # row
  /\ listed' = row
  /\ shown' = [shown EXCEPT ![List] = @ \cup {row.value.id}]
  /\ UNCHANGED <<row, turns, window, late, made, failures, stored>>

\* Discard, by the revision listed; a refusal leaves everything as it is.
Discard ==
  /\ listed.value # NoText /\ made[List] < Bound(List)
  /\ made' = [made EXCEPT ![List] = @ + 1]
  /\ Save(NewWrite(List, listed.revision, NoText))
  /\ UNCHANGED <<turns, window, late, listed, failures, shown>>

-----------------------------------------------------------------------------
Window(w) ==
  \/ Open(w) \/ Load(w) \/ Restore(w) \/ Adjust(w) \/ Suggest(w)
  \/ \E t \in Texts : Prepare(w, t) \/ Type(w, t)
  \/ Write(w) \/ ServeWrite(w)
  \/ Send(w) \/ Freeze(w) \/ Submit(w)
  \/ ServeSend(w) \/ LoseSent(w) \/ RefuseSend(w)
  \/ Fail(w) \/ Vanish(w)

Next ==
  \/ \E w \in Windows : Window(w)
  \/ \E request \in late : ServeLate(request)
  \/ Refresh \/ Discard

Spec == Init /\ [][Next]_vars

-----------------------------------------------------------------------------
(* Properties *)

\* A message that was accepted is never again stored as an unsent draft,
\* whatever windows retry, reload or autosave afterwards (drafts.ts, save and
\* consumeChat).
SentMessagesStaySent == row.value # NoText => row.value.id \notin turns

\* A stored draft disappears only because its message was sent, or because an
\* editor that has shown this very message stored another one or none: repeated
\* and late writes never replace what their window did not know of.
StoredTextIsKept ==
  [][ row.value # NoText /\ (row'.value = NoText \/ row'.value.id # row.value.id)
        => \/ row.value.id \in turns'
           \/ row'.write # row.write /\ row.value.id \in shown[row'.write[1]] ]_vars

\* A window that is ready and has nothing left to save shows a draft that the
\* workspace has stored or sent (draft-recovery.ts: durability "is provided
\* only by an acknowledged workspace write").
CleanTextWasSaved ==
  \A w \in Windows :
    view[w] = "ready" /\ Clean(w) /\ text[w] # NoText
      => text[w].id \in stored \cup turns
=============================================================================
