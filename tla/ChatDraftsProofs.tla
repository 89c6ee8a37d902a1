--------------------------- MODULE ChatDraftsProofs ---------------------------
(***************************************************************************)
(* Proofs about ChatDrafts, for any windows, messages and bounds.          *)
(***************************************************************************)
EXTENDS ChatDrafts, TLAPS

\* The parts of TypeOK, so that a step is taken part by part.
WorkspaceType ==
  /\ row \in Rows /\ listed \in Rows
  /\ turns \subseteq Texts /\ stored \subseteq Texts
  /\ late \subseteq Requests
WindowType ==
  /\ view \in [Windows -> {"closed", "restoring", "ready"}]
  /\ text \in [Windows -> Values]
  /\ revision \in [Windows -> Revisions]
  /\ acked \in [Windows -> Values \cup {Never}]
  /\ pending \in [Windows -> Requests \cup {NoWrite}]
  /\ sending \in [Windows -> {"no", "saving", "freezing"}]
  /\ call \in [Windows -> {"none", "open", "reload", "retry", "write", "send"}]
CountType ==
  /\ made \in [Editors -> Nat] /\ \A e \in Editors : made[e] <= Bound(e)
  /\ failures \in 0..MaxFailures
  /\ shown \in [Editors -> SUBSET Texts]
\* What a window is doing fits what it holds.
Coherent ==
  \A w \in Windows :
    /\ sending[w] # "no" => view[w] = "ready" /\ text[w] # NoText
    /\ call[w] \in {"open", "reload", "retry"} => view[w] = "restoring"
    /\ call[w] = "write" => pending[w] # NoWrite
    /\ call[w] = "send" => sending[w] = "freezing" /\ Clean(w)

LEMMA Parts == TypeOK <=> WorkspaceType /\ WindowType /\ CountType /\ Coherent
BY Zenon DEF TypeOK, WorkspaceType, WindowType, CountType, Coherent

LEMMA WindowsAreEditors == Windows \subseteq Editors /\ List \in Editors
BY DEF Editors

\* A write drawn below its editor's bound is a request.
LEMMA NewWriteType ==
  ASSUME CountType, NEW e \in Editors, made[e] < Bound(e),
         NEW r \in Revisions, NEW v \in Values
  PROVE  NewWrite(e, r, v) \in Requests
<1>1. made[e] \in Nat /\ Bound(e) \in Nat BY BoundsAssumption DEF CountType, Bound
<1>2. made[e] + 1 \in Nat /\ made[e] + 1 \in 1..Bound(e) BY <1>1, SMT
<1>3. <<e, made[e] + 1>> \in Editors \X Nat BY <1>2
<1>4. <<e, made[e] + 1>>[1] = e /\ <<e, made[e] + 1>>[2] = made[e] + 1 OBVIOUS
<1>5. <<e, made[e] + 1>> \in Writes BY <1>2, <1>3, <1>4, Zenon DEF Writes
<1> QED BY <1>5 DEF NewWrite, Requests

\* What is stored of a value is a draft's value; a row's revision is one.
LEMMA SaveType ==
  ASSUME row \in Rows, stored \subseteq Texts, NEW r \in Requests, Save(r)
  PROVE  row' \in Rows /\ stored' \subseteq Texts
<1>1. r.id \in Writes /\ r.id \in Revisions /\ r.value \in Values
  BY DEF Requests, Revisions
<1>2. StoredValue(r.value) \in Values
  BY <1>1 DEF StoredValue, Values
<1>3. {d.id : d \in {StoredValue(r.value)} \ {NoText}} \subseteq Texts
  BY <1>2 DEF Values, Drafts
<1>4. CASE UNCHANGED <<row, stored>> BY <1>4
<1>5. CASE row' = [revision |-> r.id, write |-> r.id, value |-> StoredValue(r.value)]
  <2>1. row' \in Rows BY <1>1, <1>2, <1>5 DEF Rows
  <2>2. stored' = stored \/ stored' = stored \cup {d.id : d \in {StoredValue(r.value)} \ {NoText}}
    BY DEF Save
  <2> QED BY <2>1, <2>2, <1>3
<1> QED BY <1>4, <1>5 DEF Save

LEMMA ConsumedType ==
  ASSUME row \in Rows, NEW t \in Texts
  PROVE  Consumed(t) \in Rows
BY DEF Consumed, Rows, Values, Revisions

LEMMA InitType == Init => TypeOK
<1> SUFFICES ASSUME Init PROVE TypeOK OBVIOUS
<1>1. Unwritten \in Rows BY DEF Unwritten, Rows, Revisions, Values
<1>2. WorkspaceType BY <1>1 DEF Init, WorkspaceType
<1>3. WindowType BY SMT DEF Init, WindowType, Values, Revisions
<1>4. CountType
  <2>1. made \in [Editors -> Nat] /\ shown \in [Editors -> SUBSET Texts] BY SMT DEF Init
  <2>2. \A e \in Editors : made[e] <= Bound(e) BY BoundsAssumption, SMT DEF Init, Bound
  <2>3. failures \in 0..MaxFailures BY BoundsAssumption, SMT DEF Init
  <2> QED BY <2>1, <2>2, <2>3 DEF CountType
<1>5. Coherent BY DEF Init, Coherent
<1> QED BY <1>2, <1>3, <1>4, <1>5, Parts

\* Every action keeps the types of what the workspace holds.
LEMMA WorkspaceStep == ASSUME TypeOK, Next PROVE WorkspaceType'
<1>0. WorkspaceType /\ WindowType /\ CountType BY Parts
<1>1. ASSUME NEW w \in Windows, ServeWrite(w) PROVE WorkspaceType'
  <2>1. pending[w] \in Requests BY <1>0, <1>1, Parts DEF WindowType, Coherent, ServeWrite
  <2>2. row' \in Rows /\ stored' \subseteq Texts
    BY <1>0, <1>1, <2>1, SaveType DEF WorkspaceType, ServeWrite
  <2> QED BY <1>0, <1>1, <2>2 DEF WorkspaceType, ServeWrite
<1>2. ASSUME NEW w \in Windows, ServeSend(w) \/ LoseSent(w) PROVE WorkspaceType'
  <2>1. text[w].id \in Texts
    BY <1>0, <1>2, Parts DEF WindowType, Coherent, ServeSend, LoseSent, Values, Drafts
  <2>2. Accept(text[w].id) BY <1>2 DEF ServeSend, LoseSent
  <2>3. row' \in Rows /\ turns' \subseteq Texts
    BY <1>0, <2>1, <2>2, ConsumedType DEF WorkspaceType, Accept
  <2> QED BY <1>0, <1>2, <2>3 DEF WorkspaceType, ServeSend, LoseSent
<1>3. ASSUME NEW r \in late, ServeLate(r) PROVE WorkspaceType'
  <2>1. row' \in Rows /\ stored' \subseteq Texts
    BY <1>0, <1>3, SaveType DEF WorkspaceType, ServeLate
  <2> QED BY <1>0, <1>3, <2>1 DEF WorkspaceType, ServeLate
<1>4. CASE Discard
  <2>1. NewWrite(List, listed.revision, NoText) \in Requests
    BY <1>0, <1>4, NewWriteType, WindowsAreEditors DEF WorkspaceType, Rows, Values, Discard
  <2>2. row' \in Rows /\ stored' \subseteq Texts
    BY <1>0, <1>4, <2>1, SaveType DEF WorkspaceType, Discard
  <2> QED BY <1>0, <1>4, <2>2 DEF WorkspaceType, Discard
<1>5. CASE Refresh BY <1>0, <1>5 DEF WorkspaceType, Refresh
<1>6. ASSUME NEW w \in Windows, Fail(w) \/ Vanish(w) PROVE WorkspaceType'
  <2>1. late' \subseteq Requests
    BY <1>0, <1>6, Parts DEF WorkspaceType, WindowType, Coherent, Fail, Vanish, Abandon
  <2> QED BY <1>0, <1>6, <2>1 DEF WorkspaceType, Fail, Vanish
<1>7. ASSUME NEW w \in Windows, NEW t \in Texts,
             Prepare(w, t) \/ Type(w, t)
      PROVE WorkspaceType'
  BY <1>0, <1>7 DEF WorkspaceType, Prepare, Type
<1>8. ASSUME NEW w \in Windows, Open(w) \/ Load(w) \/ Restore(w) \/ Adjust(w) \/ Suggest(w)
             \/ Write(w) \/ Send(w) \/ Freeze(w) \/ Submit(w) \/ RefuseSend(w)
      PROVE WorkspaceType'
  BY <1>0, <1>8 DEF WorkspaceType, Open, Load, Restore, Adjust, Suggest, Write,
       Send, Freeze, Submit, RefuseSend
<1> QED BY <1>1, <1>2, <1>3, <1>4, <1>5, <1>6, <1>7, <1>8, Zenon DEF Next, Window

\* Every action keeps the types of what the windows hold.
LEMMA WindowStep == ASSUME TypeOK, Next PROVE WindowType'
<1>0. WorkspaceType /\ WindowType /\ CountType BY Parts
<1> USE DEF WindowType
<1>1. ASSUME NEW w \in Windows, Restore(w) PROVE WindowType'
  <2>1. row.value \in Values /\ row.revision \in Revisions BY <1>0 DEF WorkspaceType, Rows
  <2>2. Restored(w) \in Values BY <1>0, <2>1 DEF Restored, Values
  <2> QED BY <1>0, <1>1, <2>1, <2>2 DEF Restore
<1>2. ASSUME NEW w \in Windows, Write(w) PROVE WindowType'
  <2>1. pending' \in [Windows -> Requests \cup {NoWrite}]
    <3>1. CASE pending[w] # NoWrite BY <1>0, <1>2, <3>1 DEF Write
    <3>2. CASE pending[w] = NoWrite
      <4>1. NewWrite(w, revision[w], text[w]) \in Requests
        BY <1>0, <1>2, <3>2, NewWriteType, WindowsAreEditors DEF Write
      <4> QED BY <1>0, <1>2, <3>2, <4>1 DEF Write
    <3> QED BY <3>1, <3>2
  <2> QED BY <1>0, <1>2, <2>1 DEF Write
<1>3. ASSUME NEW w \in Windows, ServeWrite(w) PROVE WindowType'
  <2>1. pending[w] \in Requests BY <1>0, <1>3, Parts DEF Coherent, ServeWrite
  <2>2. row' \in Rows BY <1>0, <1>3, <2>1, SaveType DEF WorkspaceType, ServeWrite
  <2>3. row'.revision \in Revisions /\ pending[w].value \in Values
    BY <2>1, <2>2 DEF Rows, Requests
  <2> QED BY <1>0, <1>3, <2>3 DEF ServeWrite, EndCall
<1>4. ASSUME NEW w \in Windows, Freeze(w) \/ Adjust(w) \/ Suggest(w) PROVE WindowType'
  <2>1. text[w] \in Drafts BY <1>0, <1>4, Parts DEF Coherent, Freeze, Adjust, Suggest, Values
  <2>2. text' \in [Windows -> Values]
    BY <1>0, <1>4, <2>1 DEF Freeze, Adjust, Suggest, Values, Drafts
  <2> QED BY <1>0, <1>4, <2>2 DEF Freeze, Adjust, Suggest
<1>5. ASSUME NEW w \in Windows, NEW t \in Texts, Prepare(w, t) \/ Type(w, t) PROVE WindowType'
  <2>1. text' \in [Windows -> Values]
    BY <1>0, <1>5 DEF Prepare, Type, Values, Drafts
  <2> QED BY <1>0, <1>5, <2>1 DEF Prepare, Type
<1>6. ASSUME NEW w \in Windows, ServeSend(w) PROVE WindowType'
  BY <1>0, <1>6 DEF ServeSend, EndSend, Values
<1>7. ASSUME NEW w \in Windows, Vanish(w) PROVE WindowType'
  BY <1>0, <1>7 DEF Vanish, EndCall, Values, Revisions
<1>8. ASSUME NEW w \in Windows, Open(w) \/ Load(w) \/ Send(w) \/ Submit(w)
             \/ LoseSent(w) \/ RefuseSend(w) \/ Fail(w)
      PROVE WindowType'
  BY <1>0, <1>8 DEF Open, Load, Send, Submit, LoseSent, RefuseSend, Fail, EndCall
<1>9. ASSUME NEW r \in late, ServeLate(r) PROVE WindowType'
  BY <1>0, <1>9 DEF ServeLate, window
<1>10. CASE Refresh \/ Discard BY <1>0, <1>10 DEF Refresh, Discard, window
<1> QED BY <1>1, <1>2, <1>3, <1>4, <1>5, <1>6, <1>7, <1>8, <1>9, <1>10, Zenon
        DEF Next, Window

\* Every action keeps the types and bounds of the counters and histories.
LEMMA CountStep == ASSUME TypeOK, Next PROVE CountType'
<1>0. WorkspaceType /\ WindowType /\ CountType BY Parts
<1>1. ASSUME NEW e \in Editors, made[e] < Bound(e), made' = [made EXCEPT ![e] = @ + 1]
      PROVE made' \in [Editors -> Nat] /\ \A f \in Editors : made'[f] <= Bound(f)
  <2>1. \A f \in Editors : made[f] \in Nat /\ Bound(f) \in Nat /\ made[f] <= Bound(f)
    BY <1>0, BoundsAssumption DEF CountType, Bound
  <2> HIDE DEF Bound
  <2> QED BY <1>0, <1>1, <2>1 DEF CountType
<1>2. ASSUME NEW w \in Windows, Write(w) PROVE CountType'
  <2>1. w \in Editors BY WindowsAreEditors
  <2>2. CASE pending[w] # NoWrite BY <1>0, <1>2, <2>2 DEF Write, CountType, Bound
  <2>3. CASE pending[w] = NoWrite
    BY <1>0, <1>1, <1>2, <2>1, <2>3, Zenon DEF Write, CountType, Bound
  <2> QED BY <2>2, <2>3
<1>3. CASE Discard
  BY <1>0, <1>1, <1>3, WindowsAreEditors, Zenon DEF Discard, CountType, Bound
<1>4. CASE Refresh
  <2>1. row.value.id \in Texts BY <1>0, <1>4 DEF Refresh, WorkspaceType, Rows, Values, Drafts
  <2>2. shown' \in [Editors -> SUBSET Texts]
    BY <1>0, <1>4, <2>1 DEF Refresh, CountType
  <2> QED BY <1>0, <1>4, <2>2 DEF Refresh, CountType, Bound
<1>5. ASSUME NEW w \in Windows, Restore(w) PROVE CountType'
  <2>1. Restored(w) \in Values
    BY <1>0 DEF Restored, Values, WorkspaceType, WindowType, Rows
  <2>2. {d.id : d \in {Restored(w)} \ {NoText}} \subseteq Texts BY <2>1 DEF Values, Drafts
  <2>3. shown' \in [Editors -> SUBSET Texts]
    BY <1>0, <1>5, <2>2 DEF Restore, CountType
  <2> QED BY <1>0, <1>5, <2>3 DEF Restore, CountType, Bound
<1>6. ASSUME NEW w \in Windows, NEW t \in Texts, Prepare(w, t) \/ Type(w, t) PROVE CountType'
  BY <1>0, <1>6 DEF Prepare, Type, CountType, Bound
<1>7. ASSUME NEW w \in Windows, ServeWrite(w) \/ LoseSent(w) \/ Fail(w) \/ Vanish(w)
      PROVE CountType'
  <2>1. failures' \in 0..MaxFailures
    BY <1>0, <1>7, BoundsAssumption, SMT DEF CountType, ServeWrite, LoseSent, Fail, Vanish
  <2> QED BY <1>0, <1>7, <2>1 DEF CountType, Bound, ServeWrite, LoseSent, Fail, Vanish
<1>8. ASSUME NEW w \in Windows, Open(w) \/ Load(w) \/ Adjust(w) \/ Suggest(w) \/ Send(w)
             \/ Freeze(w) \/ Submit(w) \/ ServeSend(w) \/ RefuseSend(w)
      PROVE CountType'
  BY <1>0, <1>8 DEF CountType, Bound, Open, Load, Adjust, Suggest, Send, Freeze, Submit,
       ServeSend, RefuseSend
<1>9. ASSUME NEW r \in late, ServeLate(r) PROVE CountType'
  BY <1>0, <1>9 DEF CountType, Bound, ServeLate
<1> QED BY <1>2, <1>3, <1>4, <1>5, <1>6, <1>7, <1>8, <1>9, Zenon DEF Next, Window

\* Every action leaves each window doing what fits what it holds.  A send asks
\* only with a clean draft, and nothing but the send's end touches it then.
LEMMA CoherentStep == ASSUME TypeOK, Next PROVE Coherent'
<1>0. WindowType /\ WorkspaceType /\ CountType /\ Coherent BY Parts
<1> USE DEF WindowType, Coherent, Clean, Dirty
<1>1. ASSUME NEW w \in Windows, Restore(w) PROVE Coherent'
  BY <1>0, <1>1 DEF Restore
<1>2. ASSUME NEW w \in Windows, Write(w) PROVE Coherent'
  <2>1. pending'[w] # NoWrite
    <3>1. CASE pending[w] # NoWrite BY <1>2, <3>1 DEF Write
    <3>2. CASE pending[w] = NoWrite
      <4>1. NewWrite(w, revision[w], text[w]) \in Requests
        BY <1>0, <1>2, <3>2, NewWriteType, WindowsAreEditors DEF Write
      <4> QED BY <1>0, <1>2, <3>2, <4>1, SentinelsAssumption DEF Write
    <3> QED BY <3>1, <3>2
  <2>2. \A v \in Windows \ {w} : pending'[v] = pending[v] BY <1>0, <1>2 DEF Write
  <2> QED BY <1>0, <1>2, <2>1, <2>2 DEF Write
<1>3. ASSUME NEW w \in Windows, ServeWrite(w) PROVE Coherent'
  BY <1>0, <1>3 DEF ServeWrite, EndCall
<1>4. ASSUME NEW w \in Windows, Freeze(w) \/ Adjust(w) \/ Suggest(w) PROVE Coherent'
  <2>1. text[w] \in Drafts BY <1>0, <1>4 DEF Freeze, Adjust, Suggest, Values
  <2>2. text'[w] \in Drafts BY <1>0, <1>4, <2>1 DEF Freeze, Adjust, Suggest, Drafts
  <2>3. text'[w] # NoText BY <2>2, SentinelsAssumption
  <2> QED BY <1>0, <1>4, <2>3 DEF Freeze, Adjust, Suggest
<1>5. ASSUME NEW w \in Windows, NEW t \in Texts, Prepare(w, t) \/ Type(w, t) PROVE Coherent'
  BY <1>0, <1>5 DEF Prepare, Type
<1>6. ASSUME NEW w \in Windows, ServeSend(w) PROVE Coherent'
  BY <1>0, <1>6 DEF ServeSend, EndSend
<1>7. ASSUME NEW w \in Windows, Vanish(w) PROVE Coherent'
  BY <1>0, <1>7 DEF Vanish, EndCall
<1>8. ASSUME NEW w \in Windows, Open(w) \/ Load(w) \/ Send(w) \/ Submit(w)
             \/ LoseSent(w) \/ RefuseSend(w) \/ Fail(w)
      PROVE Coherent'
  BY <1>0, <1>8 DEF Open, Load, Send, Submit, LoseSent, RefuseSend, Fail, EndCall
<1>9. ASSUME NEW r \in late, ServeLate(r) PROVE Coherent'
  BY <1>0, <1>9 DEF ServeLate, window
<1>10. CASE Refresh \/ Discard BY <1>0, <1>10 DEF Refresh, Discard, window
<1> QED BY <1>1, <1>2, <1>3, <1>4, <1>5, <1>6, <1>7, <1>8, <1>9, <1>10, Zenon
        DEF Next, Window

\* Drafts keep their types, and what a window does always fits what it holds:
\* it sends only a text it has saved.
THEOREM DraftsTypeCorrect == Spec => []TypeOK
<1>1. ASSUME TypeOK, Next PROVE WorkspaceType' /\ WindowType' /\ CountType' /\ Coherent'
  BY <1>1, WorkspaceStep, WindowStep, CountStep, CoherentStep
<1>2. ASSUME TypeOK, UNCHANGED vars PROVE TypeOK'
  BY <1>2, Zenon DEF vars, window, TypeOK, Clean, Dirty
<1> QED BY InitType, Parts, <1>1, <1>2, PTL DEF Spec

\* save() stores no message that was sent.
LEMMA SaveKeepsSent ==
  ASSUME SentMessagesStaySent, NEW r, Save(r), turns' = turns
  PROVE  SentMessagesStaySent'
<1>1. CASE UNCHANGED row BY <1>1 DEF SentMessagesStaySent
<1>2. CASE row' = [revision |-> r.id, write |-> r.id, value |-> StoredValue(r.value)]
  <2>1. row'.value = StoredValue(r.value) BY <1>2
  <2> QED BY <2>1 DEF SentMessagesStaySent, StoredValue
<1> QED BY <1>1, <1>2 DEF Save

\* The transaction that begins a turn takes its message out of the drafts.
LEMMA AcceptKeepsSent ==
  ASSUME TypeOK, SentMessagesStaySent, NEW t \in Texts, Accept(t)
  PROVE  SentMessagesStaySent'
<1>1. CASE t \in turns
  BY <1>1 DEF Accept, SentMessagesStaySent
<1>2. CASE t \notin turns /\ row.value # NoText /\ row.value.id = t
  <2>1. row \in Rows BY DEF TypeOK
  <2>2. row'.value = NoText BY <1>2, <2>1 DEF Accept, Consumed, Rows
  <2> QED BY <2>2 DEF SentMessagesStaySent
<1>3. CASE t \notin turns /\ ~(row.value # NoText /\ row.value.id = t)
  <2>1. row' = row /\ turns' = turns \cup {t} BY <1>3 DEF Accept, Consumed
  <2> QED BY <1>3, <2>1 DEF SentMessagesStaySent
<1> QED BY <1>1, <1>2, <1>3

\* A message that was accepted is never again stored as an unsent draft: each
\* save looks for its turn, and each turn consumes its draft.
THEOREM SentStaysSent == Spec => []SentMessagesStaySent
<1>1. Init => SentMessagesStaySent BY DEF Init, Unwritten, SentMessagesStaySent
<1>2. TypeOK /\ SentMessagesStaySent /\ [Next]_vars => SentMessagesStaySent'
  <2> SUFFICES ASSUME TypeOK, SentMessagesStaySent, [Next]_vars PROVE SentMessagesStaySent'
    OBVIOUS
  <2>1. ASSUME NEW w \in Windows, ServeWrite(w) PROVE SentMessagesStaySent'
    BY <2>1, SaveKeepsSent DEF ServeWrite
  <2>2. ASSUME NEW w \in Windows, ServeSend(w) \/ LoseSent(w) PROVE SentMessagesStaySent'
    <3>1. text[w].id \in Texts /\ Accept(text[w].id)
      BY <2>2 DEF TypeOK, ServeSend, LoseSent, Values, Drafts
    <3> QED BY <3>1, AcceptKeepsSent
  <2>3. ASSUME NEW r \in late, ServeLate(r) PROVE SentMessagesStaySent'
    BY <2>3, SaveKeepsSent DEF ServeLate
  <2>4. CASE Discard BY <2>4, SaveKeepsSent DEF Discard
  <2>5. CASE Refresh \/ UNCHANGED vars BY <2>5 DEF Refresh, vars, SentMessagesStaySent
  <2>6. ASSUME NEW w \in Windows, NEW t \in Texts, Prepare(w, t) \/ Type(w, t)
        PROVE SentMessagesStaySent'
    BY <2>6 DEF Prepare, Type, SentMessagesStaySent
  <2>7. ASSUME NEW w \in Windows, Open(w) \/ Load(w) \/ Restore(w) \/ Adjust(w) \/ Suggest(w)
               \/ Write(w) \/ Send(w) \/ Freeze(w) \/ Submit(w) \/ RefuseSend(w) \/ Fail(w) \/ Vanish(w)
        PROVE SentMessagesStaySent'
    BY <2>7 DEF Open, Load, Restore, Adjust, Suggest, Write, Send, Freeze, Submit, RefuseSend,
         Fail, Vanish, SentMessagesStaySent
  <2> QED BY <2>1, <2>2, <2>3, <2>4, <2>5, <2>6, <2>7, Zenon DEF Next, Window
<1> QED BY DraftsTypeCorrect, <1>1, <1>2, PTL DEF Spec

\* The writes that may still be served.
Requested == ({pending[w] : w \in Windows} \ {NoWrite}) \cup late

\* An editor that holds revision v has shown the text that is, or will be,
\* stored under it, unless its message was sent.
Knows(e, v) ==
  /\ v \in Writes => v[2] <= made[v[1]]
  /\ row.revision = v /\ row.value # NoText => row.value.id \in shown[e]
  /\ \A q \in Requested : q.id = v /\ q.value # NoText
       => q.value.id \in shown[e] \/ q.value.id \in turns

\* What is stored came from the write, or the turn, that its revision names.
RowInv ==
  /\ row.revision \in Texts \cup {NoRevision} => row.value = NoText
  /\ row.revision \notin Texts \cup {NoRevision} => row.revision = row.write
  /\ row.revision \in Writes => row.revision[2] <= made[row.revision[1]]
  /\ \A q \in Requested : q.id = row.revision =>
       row.value = q.value \/ (row.value = NoText /\ q.value # NoText /\ q.value.id \in turns)
\* A write that may still be served was drawn by an editor that knew the
\* revision it expects.
RequestInv ==
  /\ \A q \in Requested : q.id[2] <= made[q.id[1]] /\ Knows(q.id[1], q.expected)
  /\ \A p, q \in Requested : p.id = q.id => p = q
\* Every editor knows the revision it holds and has shown what it holds.
HeldInv ==
  /\ Knows(List, listed.revision)
  /\ \A w \in Windows :
       /\ Knows(w, revision[w])
       /\ text[w] # NoText => text[w].id \in shown[w]
       /\ pending[w] # NoWrite => /\ pending[w].id[1] = w
                                  /\ pending[w].value # NoText => pending[w].value.id \in shown[w]
\* The inductive invariant behind StoredTextIsKept.
KeptInv == RowInv /\ RequestInv /\ HeldInv

\* They are requests.
LEMMA RequestedType == ASSUME TypeOK PROVE Requested \subseteq Requests
BY DEF Requested, TypeOK

\* Nothing an editor knows of is lost while the row stays, whatever else is
\* typed, drawn, sent or given up.
LEMMA KnowsKept ==
  ASSUME TypeOK, NEW e \in Editors, NEW v, Knows(e, v),
         \A x \in Editors : made[x] <= made'[x] /\ made'[x] \in Nat /\ shown[x] \subseteq shown'[x],
         turns \subseteq turns', row' = row, Requested' \subseteq Requested
  PROVE  Knows(e, v)'
<1>1. v \in Writes => v[2] <= made'[v[1]]
  <2> SUFFICES ASSUME v \in Writes PROVE v[2] <= made'[v[1]] OBVIOUS
  <2>1. v[1] \in Editors /\ v[2] \in Nat BY DEF Writes
  <2>2. v[2] <= made[v[1]] /\ made[v[1]] \in Nat BY <2>1 DEF Knows, TypeOK
  <2> QED BY <2>1, <2>2
<1>2. row.revision = v /\ row.value # NoText => row.value.id \in shown'[e] BY DEF Knows
<1>3. \A q \in Requested' : q.id = v /\ q.value # NoText
        => q.value.id \in shown'[e] \/ q.value.id \in turns'
  BY DEF Knows
<1> QED BY <1>1, <1>2, <1>3 DEF Knows

\* A served request changes the row to what the request brought.
LEMMA SaveRow ==
  ASSUME TypeOK, RowInv, RequestInv, NEW q \in Requested, Save(q)
  PROVE  \/ row' = row /\ (Repeated(q) \/ Outdated(q))
         \/ /\ ~Repeated(q) /\ ~Outdated(q)
            /\ row'.revision = q.id /\ row'.write = q.id /\ row'.value = StoredValue(q.value)
            /\ row.value # NoText => row.value.id \in shown[q.id[1]]
<1>1. CASE Repeated(q) \/ Outdated(q) BY <1>1 DEF Save
<1>2. CASE ~(Repeated(q) \/ Outdated(q))
  <2>1. row' = [revision |-> q.id, write |-> q.id, value |-> StoredValue(q.value)]
    BY <1>2 DEF Save
  <2>2. row.revision = q.expected BY <1>2 DEF Outdated
  <2>3. Knows(q.id[1], q.expected) BY DEF RequestInv
  <2> QED BY <1>2, <2>1, <2>2, <2>3 DEF Knows
<1> QED BY <1>1, <1>2

\* Serving it keeps what everyone knows.
LEMMA SaveKeeps ==
  ASSUME TypeOK, RowInv, RequestInv, NEW q \in Requested, Save(q),
         UNCHANGED <<turns, made, shown>>, Requested' \subseteq Requested
  PROVE  RowInv' /\ \A e \in Editors : \A v : Knows(e, v) => Knows(e, v)'
<1>0. q \in Requests /\ q.id \in Writes BY RequestedType DEF Requests
<1>1. CASE row' = row
  <2>1. RowInv' BY <1>1 DEF RowInv
  <2>2. \A e \in Editors : \A v : Knows(e, v) => Knows(e, v)' BY <1>1 DEF Knows
  <2> QED BY <2>1, <2>2
<1>2. CASE row' # row
  <2>1. row'.revision = q.id /\ row'.write = q.id /\ row'.value = StoredValue(q.value)
    BY <1>2, SaveRow
  <2>2. q.id \notin Texts \cup {NoRevision} BY <1>0, SentinelsAssumption
  <2>3. q.id[2] <= made[q.id[1]] BY DEF RequestInv
  <2>4. \A p \in Requested : p.id = q.id => p = q BY DEF RequestInv
  <2>5. StoredValue(q.value) = q.value
        \/ (StoredValue(q.value) = NoText /\ q.value # NoText /\ q.value.id \in turns)
    BY DEF StoredValue
  <2>6. RowInv' BY <2>1, <2>2, <2>3, <2>4, <2>5 DEF RowInv
  <2>7. ASSUME NEW e \in Editors, NEW v, Knows(e, v) PROVE Knows(e, v)'
    <3>1. ASSUME row'.revision = v, row'.value # NoText PROVE row'.value.id \in shown[e]
      <4>1. q.value # NoText /\ q.value.id \notin turns /\ row'.value = q.value
        BY <2>1, <3>1 DEF StoredValue
      <4> QED BY <2>1, <2>7, <3>1, <4>1 DEF Knows
    <3> QED BY <2>7, <3>1 DEF Knows
  <2> QED BY <2>6, <2>7
<1> QED BY <1>1, <1>2

\* So does the beginning of a turn: a draft that is consumed is none.
LEMMA AcceptKeeps ==
  ASSUME TypeOK, RowInv, NEW t \in Texts, Accept(t),
         UNCHANGED <<made, shown>>, Requested' \subseteq Requested
  PROVE  RowInv' /\ \A e \in Editors : \A v : Knows(e, v) => Knows(e, v)'
<1>1. turns \subseteq turns' BY DEF Accept
<1>2. CASE row' = row
  <2>1. RowInv' BY <1>1, <1>2 DEF RowInv
  <2>2. \A e \in Editors : \A v : Knows(e, v) => Knows(e, v)' BY <1>1, <1>2 DEF Knows
  <2> QED BY <2>1, <2>2
<1>3. CASE row' # row
  <2>1. row' = [row EXCEPT !.value = NoText, !.revision = t] BY <1>3 DEF Accept, Consumed
  <2>2. row'.value = NoText /\ row'.revision = t BY <2>1 DEF TypeOK, Rows
  <2>3. t \notin Writes BY SentinelsAssumption
  <2>4. \A q \in Requested : q.id \in Writes BY RequestedType DEF Requests
  <2>5. RowInv' BY <2>2, <2>3, <2>4 DEF RowInv
  <2>6. \A e \in Editors : \A v : Knows(e, v) => Knows(e, v)' BY <1>1, <2>2 DEF Knows
  <2> QED BY <2>5, <2>6
<1> QED BY <1>2, <1>3

\* What an editor shows of the row it knows from then on.
LEMMA KnowsRow ==
  ASSUME TypeOK, RowInv, NEW e \in Editors, row.value # NoText => row.value.id \in shown'[e],
         UNCHANGED <<row, turns, made>>, Requested' \subseteq Requested
  PROVE  \A v : v = row.revision => Knows(e, v)'
<1>1. ASSUME NEW q \in Requested, q.id = row.revision, q.value # NoText
      PROVE  q.value.id \in shown'[e] \/ q.value.id \in turns
  <2>1. row.value = q.value \/ q.value.id \in turns BY <1>1 DEF RowInv
  <2> QED BY <1>1, <2>1
<1> QED BY <1>1 DEF Knows, RowInv

\* Of a row never written there is nothing to know.
LEMMA KnowsNone == ASSUME TypeOK, RowInv, NEW e \in Editors PROVE Knows(e, NoRevision)
<1>1. \A q \in Requested : q.id # NoRevision
  BY RequestedType, SentinelsAssumption DEF Requests
<1> QED BY <1>1, SentinelsAssumption DEF Knows, RowInv

\* Requests are only taken away where no write is drawn.
LEMMA RequestedShrinks ==
  ASSUME \A w \in Windows : pending'[w] \in {pending[w], NoWrite},
         late' \subseteq Requested
  PROVE  Requested' \subseteq Requested
BY DEF Requested

\* The parts of the invariant that follow once everyone still knows his text.
LEMMA Others ==
  ASSUME TypeOK, RequestInv, HeldInv,
         \A e \in Editors : \A v : Knows(e, v) => Knows(e, v)',
         Requested' \subseteq Requested,
         \A x \in Editors : made[x] <= made'[x] /\ made'[x] \in Nat /\ shown[x] \subseteq shown'[x],
         Knows(List, listed.revision)',
         \A w \in Windows : Knows(w, revision[w])',
         \A w \in Windows : text'[w] # NoText => text'[w].id \in shown'[w],
         \A w \in Windows : pending'[w] \in {pending[w], NoWrite}
  PROVE  RequestInv' /\ HeldInv'
<1>1. \A q \in Requested' : q.id[1] \in Editors
  BY RequestedType DEF Requests, Writes
<1>2. \A q \in Requested' : Knows(q.id[1], q.expected)' BY <1>1 DEF RequestInv
<1>3. \A q \in Requested' : q.id[2] <= made'[q.id[1]]
  <2> TAKE q \in Requested'
  <2>1. q.id \in Writes /\ q.id[2] <= made[q.id[1]] BY RequestedType DEF Requests, RequestInv
  <2>2. q.id[2] \in Nat /\ made[q.id[1]] \in Nat BY <1>1, <2>1 DEF Writes, TypeOK
  <2> QED BY <1>1, <2>1, <2>2
<1>6. RequestInv' BY <1>2, <1>3 DEF RequestInv
<1>4. \A w \in Windows : pending'[w] # NoWrite =>
        pending'[w].id[1] = w /\ (pending'[w].value # NoText => pending'[w].value.id \in shown'[w])
  BY WindowsAreEditors DEF HeldInv
<1>5. HeldInv' BY <1>4 DEF HeldInv
<1> QED BY <1>5, <1>6

\* A step that leaves the workspace alone.
LEMMA Quiet ==
  ASSUME TypeOK, KeptInv, UNCHANGED <<row, turns, made, listed>>,
         \A x \in Editors : shown[x] \subseteq shown'[x],
         late' \subseteq Requested,
         \A w \in Windows : \/ revision'[w] \in {revision[w], NoRevision}
                            \/ /\ revision'[w] = row.revision
                               /\ row.value # NoText => row.value.id \in shown'[w],
         \A w \in Windows : text'[w] # NoText => text'[w].id \in shown'[w],
         \A w \in Windows : pending'[w] \in {pending[w], NoWrite}
  PROVE  KeptInv'
<1>0. RowInv /\ RequestInv /\ HeldInv BY DEF KeptInv
<1>1. Requested' \subseteq Requested BY RequestedShrinks
<1>2. \A x \in Editors : made[x] <= made'[x] /\ made'[x] \in Nat BY DEF TypeOK
<1>3. \A e \in Editors : \A v : Knows(e, v) => Knows(e, v)' BY <1>1, <1>2, KnowsKept
<1>4. RowInv' BY <1>0, <1>1 DEF RowInv
<1>5. Knows(List, listed.revision)'
  BY <1>0, <1>3, WindowsAreEditors DEF HeldInv, Knows
<1>6. ASSUME NEW w \in Windows PROVE Knows(w, revision[w])'
  <2>1. CASE revision'[w] = revision[w] BY <1>0, <1>3, <2>1, WindowsAreEditors DEF HeldInv, Knows
  <2>2. CASE revision'[w] = NoRevision
    BY <1>0, <1>3, <2>2, KnowsNone, WindowsAreEditors DEF Knows
  <2>3. CASE revision'[w] = row.revision /\ (row.value # NoText => row.value.id \in shown'[w])
    <3>1. \A v : v = row.revision => Knows(w, v)'
      BY <1>0, <1>1, <2>3, KnowsRow, WindowsAreEditors
    <3> QED BY <2>3, <3>1 DEF Knows
  <2> QED BY <2>1, <2>2, <2>3
<1>7. RequestInv' /\ HeldInv' BY <1>0, <1>1, <1>2, <1>3, <1>5, <1>6, Others
<1> QED BY <1>4, <1>7 DEF KeptInv

\* Every step of a window but its writes and the end of its send is one.
LEMMA QuietActions ==
  ASSUME TypeOK, KeptInv, NEW w \in Windows,
         \/ Open(w) \/ Load(w) \/ Adjust(w) \/ Suggest(w) \/ Send(w) \/ Freeze(w) \/ Submit(w)
         \/ RefuseSend(w) \/ Fail(w) \/ Vanish(w) \/ Restore(w)
         \/ \E t \in Texts : Prepare(w, t) \/ Type(w, t)
  PROVE  KeptInv'
<1>0. /\ text \in [Windows -> Values] /\ pending \in [Windows -> Requests \cup {NoWrite}]
      /\ shown \in [Editors -> SUBSET Texts] /\ w \in Editors /\ Windows \subseteq Editors
      /\ revision \in [Windows -> Revisions]
      /\ \A u \in Windows : text[u] # NoText => text[u].id \in shown[u]
      /\ \A u \in Windows : text[u] # NoText => text[u] \in Drafts
  BY WindowsAreEditors DEF TypeOK, KeptInv, HeldInv, Values
<1>1. late \subseteq Requested /\ (pending[w] # NoWrite => pending[w] \in Requested)
  BY DEF Requested
<1>2. CASE Open(w) \/ Load(w) \/ Send(w) \/ Submit(w) \/ RefuseSend(w)
  BY <1>0, <1>1, <1>2, Quiet DEF Open, Load, Send, Submit, RefuseSend
<1>3. CASE Adjust(w) \/ Suggest(w) \/ Freeze(w)
  <2>1. text[w] # NoText BY <1>3 DEF Adjust, Suggest, Freeze, TypeOK
  <2>2. PICK f : text' = [text EXCEPT ![w].form = f] BY <1>3 DEF Adjust, Suggest, Freeze
  <2>3. text'[w].id = text[w].id /\ \A u \in Windows \ {w} : text'[u] = text[u]
    BY <1>0, <2>1, <2>2 DEF Drafts
  <2>4. \A u \in Windows : text'[u] # NoText => text'[u].id \in shown[u]
    BY <1>0, <2>1, <2>3
  <2> QED BY <1>0, <1>1, <1>3, <2>4, Quiet DEF Adjust, Suggest, Freeze
<1>4. CASE Fail(w)
  <2>1. late' \subseteq Requested BY <1>1, <1>4 DEF Fail, Abandon, TypeOK
  <2> QED BY <1>0, <1>4, <2>1, Quiet DEF Fail
<1>5. CASE Vanish(w)
  <2>1. late' \subseteq Requested BY <1>1, <1>5 DEF Vanish, Abandon, TypeOK
  <2>2. \A u \in Windows : text'[u] # NoText => text'[u].id \in shown[u] BY <1>0, <1>5 DEF Vanish
  <2>3. \A u \in Windows : /\ revision'[u] \in {revision[u], NoRevision}
                           /\ pending'[u] \in {pending[u], NoWrite}
    BY <1>0, <1>5 DEF Vanish
  <2> QED BY <1>0, <1>5, <2>1, <2>2, <2>3, Quiet DEF Vanish
<1>6. CASE Restore(w)
  <2>1. shown' = [shown EXCEPT ![w] = @ \cup {d.id : d \in {Restored(w)} \ {NoText}}]
        /\ text' = [text EXCEPT ![w] = Restored(w)]
        /\ revision' = [revision EXCEPT ![w] = row.revision]
        /\ pending' = [pending EXCEPT ![w] = NoWrite]
        /\ UNCHANGED <<row, turns, late, listed, made>>
    BY <1>6 DEF Restore
  <2>2. row.value # NoText => Restored(w) = row.value BY DEF Restored
  <2> HIDE DEF Restored
  <2>3. \A u \in Editors : shown[u] \subseteq shown'[u] BY <1>0, <2>1
  <2>4. \A u \in Windows : text'[u] # NoText => text'[u].id \in shown'[u] BY <1>0, <2>1
  <2>5. row.value # NoText => row.value.id \in shown'[w] BY <1>0, <2>1, <2>2
  <2>6. \A u \in Windows : /\ u # w => revision'[u] = revision[u]
                           /\ pending'[u] \in {pending[u], NoWrite}
    BY <1>0, <2>1
  <2>7. revision'[w] = row.revision BY <1>0, <2>1
  <2> QED BY <1>1, <2>1, <2>3, <2>4, <2>5, <2>6, <2>7, Quiet
<1>7. ASSUME NEW t \in Texts, Prepare(w, t) \/ Type(w, t) PROVE KeptInv'
  <2>1. shown' = [shown EXCEPT ![w] = @ \cup {t}]
        /\ \E f : text' = [text EXCEPT ![w] = [id |-> t, form |-> f]]
    BY <1>7 DEF Prepare, Type
  <2>2. \A u \in Editors : shown[u] \subseteq shown'[u] BY <1>0, <2>1
  <2>3. \A u \in Windows : text'[u] # NoText => text'[u].id \in shown'[u] BY <1>0, <2>1
  <2> QED BY <1>1, <1>7, <2>2, <2>3, Quiet DEF Prepare, Type
<1> QED BY <1>2, <1>3, <1>4, <1>5, <1>6, <1>7

\* At the start nothing is stored and nothing may be served.
LEMMA InitKept == ASSUME Init PROVE KeptInv
<1>1. Requested = {} BY DEF Requested, Init
<1>2. row.value = NoText /\ row.revision = NoRevision BY DEF Init, Unwritten
<1>3. NoRevision \notin Writes BY SentinelsAssumption
<1>4. \A e : Knows(e, NoRevision) BY <1>1, <1>2, <1>3 DEF Knows
<1>5. RowInv BY <1>1, <1>2, <1>3 DEF RowInv
<1>6. RequestInv BY <1>1 DEF RequestInv
<1>7. HeldInv BY <1>4 DEF HeldInv, Init, Unwritten
<1> QED BY <1>5, <1>6, <1>7 DEF KeptInv

\* A write drawn now is none of those that may still be served, gave no row
\* its revision and is known to nobody.
LEMMA Fresh ==
  ASSUME TypeOK, RowInv, RequestInv, NEW e \in Editors, NEW id, id = <<e, made[e] + 1>>
  PROVE  /\ \A q \in Requested : q.id # id
         /\ row.revision \in Writes => row.revision # id
         /\ \A v : (v \in Writes => v[2] <= made[v[1]]) /\ id \in Writes => v # id
<1>1. made[e] \in Nat BY DEF TypeOK
<1>2. id[1] = e /\ id[2] = made[e] + 1 OBVIOUS
<1>3. ~(id[2] <= made[id[1]]) BY <1>1, <1>2
<1> QED BY <1>3 DEF RequestInv, RowInv

\* A request that is drawn keeps what everyone knows.
LEMMA WriteKeeps == ASSUME TypeOK, KeptInv, NEW w \in Windows, Write(w) PROVE KeptInv'
<1>0. /\ RowInv /\ RequestInv /\ HeldInv /\ w \in Editors /\ Windows \subseteq Editors
      /\ List \in Editors
  BY WindowsAreEditors DEF KeptInv
<1>1. CASE pending[w] # NoWrite
  <2>1. late' \subseteq Requested BY <1>1 DEF Write, Requested
  <2> QED BY <1>0, <1>1, <2>1, Quiet DEF Write, HeldInv
<1>2. CASE pending[w] = NoWrite
  <2> DEFINE q0 == NewWrite(w, revision[w], text[w])
  <2>0. /\ made[w] < Bound(w) /\ pending' = [pending EXCEPT ![w] = q0]
        /\ made' = [made EXCEPT ![w] = @ + 1]
        /\ UNCHANGED <<row, turns, text, revision, late, listed, shown>>
    BY <1>2 DEF Write
  <2>1. q0.id = <<w, made[w] + 1>> /\ q0.expected = revision[w] /\ q0.value = text[w]
    BY DEF NewWrite
  <2>2. q0.id \in Writes /\ q0 \in Requests
    BY <1>0, <2>0, NewWriteType, Parts DEF WindowType, Requests
  <2>3. /\ \A q \in Requested : q.id # q0.id
        /\ row.revision # q0.id
        /\ \A v : (v \in Writes => v[2] <= made[v[1]]) => v # q0.id
    BY <1>0, <2>1, <2>2, Fresh
  <2>4. pending \in [Windows -> Requests \cup {NoWrite}] BY DEF TypeOK
  <2>5. Requested' \subseteq Requested \cup {q0} BY <2>0, <2>4 DEF Requested
  <2>6. /\ \A x \in Editors : made[x] <= made'[x] /\ made'[x] \in Nat
        /\ q0.id[1] = w /\ q0.id[2] = made'[w]
    BY <1>0, <2>0, <2>1 DEF TypeOK
  <2> HIDE DEF q0
  <2>7. ASSUME NEW r \in Writes, r[2] <= made[r[1]] PROVE r[2] <= made'[r[1]]
    <3>1. r[1] \in Editors /\ r[2] \in Nat BY DEF Writes
    <3> QED BY <2>6, <2>7, <3>1 DEF TypeOK
  <2>8. ASSUME NEW e \in Editors, NEW v, Knows(e, v) PROVE Knows(e, v)'
    <3>1. v # q0.id BY <2>3, <2>8 DEF Knows
    <3>2. v \in Writes => v[2] <= made'[v[1]] BY <2>7, <2>8 DEF Knows
    <3>3. row'.revision = v /\ row'.value # NoText => row'.value.id \in shown'[e]
      BY <2>0, <2>8 DEF Knows
    <3>4. \A q \in Requested' : q.id = v /\ q.value # NoText
            => q.value.id \in shown'[e] \/ q.value.id \in turns'
      BY <2>0, <2>5, <2>8, <3>1 DEF Knows
    <3> QED BY <3>2, <3>3, <3>4 DEF Knows
  <2>9. RowInv'
    <3>1. row.revision \in Writes => row.revision[2] <= made'[row.revision[1]]
      BY <1>0, <2>7 DEF RowInv
    <3> QED BY <1>0, <2>0, <2>3, <2>5, <3>1 DEF RowInv
  <2>10. RequestInv'
    <3>1. \A q \in Requested : q.id[2] <= made'[q.id[1]] /\ q.id[1] \in Editors
      BY <1>0, <2>7, RequestedType DEF RequestInv, Requests, Writes
    <3>2. made'[w] \in Nat /\ made'[w] <= made'[w] BY <1>0, <2>6
    <3>3. \A q \in Requested' : q.id[2] <= made'[q.id[1]]
      BY <2>5, <2>6, <3>1, <3>2
    <3>4. \A q \in Requested : Knows(q.id[1], q.expected)'
      BY <1>0, <2>8, <3>1 DEF RequestInv
    <3>5. ASSUME NEW q, q = q0 PROVE Knows(q.id[1], q.expected)'
      <4>1. q.id[1] = w /\ q.expected = revision[w] BY <2>1, <2>6, <3>5
      <4>2. Knows(q.id[1], q.expected) BY <1>0, <4>1 DEF HeldInv
      <4> QED BY <1>0, <2>8, <4>1, <4>2
    <3>6. \A q \in Requested' : Knows(q.id[1], q.expected)'
      BY <2>5, <3>4, <3>5
    <3>7. \A p, q \in Requested' : p.id = q.id => p = q
      BY <1>0, <2>3, <2>5 DEF RequestInv
    <3> QED BY <3>3, <3>6, <3>7 DEF RequestInv
  <2>11. HeldInv'
    <3>1. Knows(List, listed.revision)' BY <1>0, <2>0, <2>8 DEF HeldInv, Knows
    <3>2. \A u \in Windows : Knows(u, revision[u])' BY <1>0, <2>0, <2>8 DEF HeldInv, Knows
    <3>3. \A u \in Windows : text'[u] # NoText => text'[u].id \in shown'[u]
      BY <1>0, <2>0 DEF HeldInv
    <3>4. \A u \in Windows \ {w} : pending'[u] = pending[u] BY <2>0, <2>4
    <3>5. pending'[w] = q0 BY <2>0, <2>4
    <3>6. \A u \in Windows : pending'[u] # NoWrite =>
            pending'[u].id[1] = u /\ (pending'[u].value # NoText => pending'[u].value.id \in shown'[u])
      BY <1>0, <2>0, <2>1, <2>6, <3>4, <3>5 DEF HeldInv
    <3> QED BY <3>1, <3>2, <3>3, <3>6 DEF HeldInv
  <2> QED BY <2>9, <2>10, <2>11 DEF KeptInv
<1> QED BY <1>1, <1>2

\* A window that hears of its write knows the revision it is answered with: the
\* write stored the text the window had drawn it for, or was served before.
LEMMA ServeKeeps == ASSUME TypeOK, KeptInv, NEW w \in Windows, ServeWrite(w) PROVE KeptInv'
<1> DEFINE q == pending[w]
<1>0. /\ RowInv /\ RequestInv /\ HeldInv /\ w \in Editors /\ Windows \subseteq Editors
      /\ List \in Editors
  BY WindowsAreEditors DEF KeptInv
<1>1. Save(q) /\ UNCHANGED <<turns, text, late, listed, made, shown>> BY DEF ServeWrite
<1>2. q # NoWrite BY DEF ServeWrite, TypeOK
<1>3. q \in Requested /\ late' \subseteq Requested BY <1>1, <1>2 DEF Requested
<1>4. \A u \in Windows : pending'[u] \in {pending[u], NoWrite} BY DEF ServeWrite, TypeOK
<1>5. Requested' \subseteq Requested BY <1>3, <1>4, RequestedShrinks
<1>6. RowInv' /\ \A e \in Editors : \A v : Knows(e, v) => Knows(e, v)'
  BY <1>0, <1>1, <1>3, <1>5, SaveKeeps
<1>7. q.id \in Writes /\ q.id[1] = w /\ (q.value # NoText => q.value.id \in shown[w])
  BY <1>0, <1>2, <1>3, RequestedType DEF HeldInv, Requests
<1> HIDE DEF q
<1>8. ASSUME ~Outdated(q), NEW v, v = row'.revision PROVE Knows(w, v)'
  <2>1. \/ row' = row /\ row.write = q.id
        \/ row'.revision = q.id /\ row'.write = q.id /\ row'.value = StoredValue(q.value)
    BY <1>0, <1>1, <1>3, <1>8, SaveRow DEF Repeated
  <2>2. row'.value # NoText => row'.value.id \in shown[w]
    <3>1. CASE row' = row /\ row.write = q.id
      <4>1. row.value # NoText => row.revision = q.id BY <1>0, <3>1 DEF RowInv
      <4> QED BY <1>0, <1>3, <1>7, <3>1, <4>1 DEF RowInv
    <3>2. CASE row'.value = StoredValue(q.value) BY <1>7, <3>2 DEF StoredValue
    <3> QED BY <2>1, <3>1, <3>2
  <2>3. row'.revision \in Writes => row'.revision = q.id
    BY <1>0, <2>1, SentinelsAssumption DEF RowInv
  <2>4. ASSUME NEW p \in Requested', p.id = row'.revision, p.value # NoText
        PROVE  p.value.id \in shown[w]
    <3>1. p \in Requested /\ p.id \in Writes BY <1>5, <2>4, RequestedType DEF Requests
    <3>2. p = q BY <1>0, <1>3, <2>3, <2>4, <3>1 DEF RequestInv
    <3> QED BY <1>7, <2>4, <3>2
  <2>5. row'.revision \in Writes => row'.revision[2] <= made'[row'.revision[1]]
    BY <1>6 DEF RowInv
  <2> QED BY <1>1, <1>8, <2>2, <2>4, <2>5 DEF Knows
<1>9. ASSUME NEW u \in Windows PROVE Knows(u, revision[u])'
  <2>1. CASE revision'[u] = revision[u] BY <1>0, <1>6, <2>1 DEF HeldInv, Knows
  <2>2. CASE revision'[u] # revision[u]
    <3>1. u = w /\ revision'[w] = row'.revision /\ ~Outdated(q)
      BY <2>2 DEF ServeWrite, TypeOK, q
    <3> QED BY <1>8, <3>1 DEF Knows
  <2> QED BY <2>1, <2>2
<1>10. \A x \in Editors : made[x] <= made'[x] /\ made'[x] \in Nat /\ shown[x] \subseteq shown'[x]
  BY <1>1 DEF TypeOK
<1>11. Knows(List, listed.revision)' BY <1>0, <1>1, <1>6 DEF HeldInv, Knows
<1>12. \A u \in Windows : text'[u] # NoText => text'[u].id \in shown'[u]
  BY <1>0, <1>1 DEF HeldInv
<1>13. RequestInv' /\ HeldInv'
  BY <1>0, <1>4, <1>5, <1>6, <1>9, <1>10, <1>11, <1>12, Others
<1> QED BY <1>6, <1>13 DEF KeptInv

\* A late write, like one in time, replaces only what its window knew of.
LEMMA LateKeeps == ASSUME TypeOK, KeptInv, NEW r \in late, ServeLate(r) PROVE KeptInv'
<1>0. RowInv /\ RequestInv /\ HeldInv BY DEF KeptInv
<1>1. Save(r) /\ late' = late \ {r} /\ UNCHANGED <<turns, text, revision, pending, listed, made, shown>>
  BY DEF ServeLate, window
<1>2. r \in Requested /\ Requested' \subseteq Requested BY <1>1 DEF Requested
<1>3. RowInv' /\ \A e \in Editors : \A v : Knows(e, v) => Knows(e, v)'
  BY <1>0, <1>1, <1>2, SaveKeeps
<1>4. \A x \in Editors : made[x] <= made'[x] /\ made'[x] \in Nat /\ shown[x] \subseteq shown'[x]
  BY <1>1 DEF TypeOK
<1>5. Knows(List, listed.revision)' /\ \A u \in Windows : Knows(u, revision[u])'
  BY <1>0, <1>1, <1>3, WindowsAreEditors DEF HeldInv, Knows
<1>6. \A u \in Windows : /\ text'[u] # NoText => text'[u].id \in shown'[u]
                         /\ pending'[u] \in {pending[u], NoWrite}
  BY <1>0, <1>1 DEF HeldInv
<1>7. RequestInv' /\ HeldInv' BY <1>0, <1>2, <1>3, <1>4, <1>5, <1>6, Others
<1> QED BY <1>3, <1>7 DEF KeptInv

\* The beginning of a turn empties at most the row.
LEMMA TurnKeeps ==
  ASSUME TypeOK, KeptInv, NEW w \in Windows, ServeSend(w) \/ LoseSent(w) PROVE KeptInv'
<1>0. RowInv /\ RequestInv /\ HeldInv BY DEF KeptInv
<1>1. /\ Accept(text[w].id) /\ UNCHANGED <<late, revision, pending, listed, made, shown>>
      /\ text[w].id \in Texts
  BY DEF ServeSend, LoseSent, TypeOK, Values, Drafts
<1>2. Requested' \subseteq Requested BY <1>1 DEF Requested
<1>3. RowInv' /\ \A e \in Editors : \A v : Knows(e, v) => Knows(e, v)'
  BY <1>0, <1>1, <1>2, AcceptKeeps
<1>4. \A x \in Editors : made[x] <= made'[x] /\ made'[x] \in Nat /\ shown[x] \subseteq shown'[x]
  BY <1>1 DEF TypeOK
<1>5. Knows(List, listed.revision)' /\ \A u \in Windows : Knows(u, revision[u])'
  BY <1>0, <1>1, <1>3, WindowsAreEditors DEF HeldInv, Knows
<1>6. \A u \in Windows : text'[u] \in {text[u], NoText} BY DEF ServeSend, LoseSent, TypeOK
<1>7. \A u \in Windows : /\ text'[u] # NoText => text'[u].id \in shown'[u]
                         /\ pending'[u] \in {pending[u], NoWrite}
  BY <1>0, <1>1, <1>6 DEF HeldInv
<1>8. RequestInv' /\ HeldInv' BY <1>0, <1>2, <1>3, <1>4, <1>5, <1>7, Others
<1> QED BY <1>3, <1>8 DEF KeptInv

\* The list shows the row, and so knows its revision.
LEMMA RefreshKeeps == ASSUME TypeOK, KeptInv, Refresh PROVE KeptInv'
<1>0. RowInv /\ RequestInv /\ HeldInv BY DEF KeptInv
<1>1. /\ listed' = row /\ shown' = [shown EXCEPT ![List] = @ \cup {row.value.id}]
      /\ UNCHANGED <<row, turns, text, revision, pending, late, made>>
  BY DEF Refresh, window
<1>2. Requested' \subseteq Requested BY <1>1 DEF Requested
<1>3. \A x \in Editors : made[x] <= made'[x] /\ made'[x] \in Nat /\ shown[x] \subseteq shown'[x]
  BY <1>1 DEF TypeOK
<1>4. \A e \in Editors : \A v : Knows(e, v) => Knows(e, v)' BY <1>1, <1>2, <1>3, KnowsKept
<1>5. RowInv' BY <1>0, <1>1, <1>2 DEF RowInv
<1>6. row.value.id \in shown'[List] BY <1>1, WindowsAreEditors DEF TypeOK
<1>7. \A v : v = row.revision => Knows(List, v)'
  BY <1>0, <1>1, <1>2, <1>6, KnowsRow, WindowsAreEditors
<1>8. Knows(List, listed.revision)' BY <1>1, <1>7 DEF Knows
<1>9. \A u \in Windows : Knows(u, revision[u])'
  BY <1>0, <1>1, <1>4, WindowsAreEditors DEF HeldInv, Knows
<1>10. \A u \in Windows : /\ text'[u] # NoText => text'[u].id \in shown'[u]
                          /\ pending'[u] \in {pending[u], NoWrite}
  BY <1>0, <1>1, <1>3, WindowsAreEditors DEF HeldInv
<1>11. RequestInv' /\ HeldInv' BY <1>0, <1>2, <1>3, <1>4, <1>8, <1>9, <1>10, Others
<1> QED BY <1>5, <1>11 DEF KeptInv

\* What a discard changes.
LEMMA DiscardRow ==
  ASSUME TypeOK, KeptInv, Discard, row' # row
  PROVE  \E id \in Writes :
           /\ id = <<List, made[List] + 1>> /\ id # row.write
           /\ row'.revision = id /\ row'.write = id /\ row'.value = NoText
           /\ row.value # NoText => row.value.id \in shown[List]
<1> DEFINE q == NewWrite(List, listed.revision, NoText)
<1>1. Save(q) /\ made[List] < Bound(List) BY DEF Discard
<1>2. listed.revision \in Revisions /\ NoText \in Values BY DEF TypeOK, Rows, Values
<1>3. q \in Requests BY <1>1, <1>2, NewWriteType, Parts, WindowsAreEditors
<1>4. q.id = <<List, made[List] + 1>> /\ q.value = NoText /\ q.expected = listed.revision
  BY DEF NewWrite
<1>5. q.id \in Writes BY <1>3 DEF Requests
<1> HIDE DEF q
<1>6. /\ row.write # q.id /\ row.revision = listed.revision
      /\ row' = [revision |-> q.id, write |-> q.id, value |-> StoredValue(q.value)]
  BY <1>1, <1>4 DEF Save, Repeated, Outdated
<1>7. row'.revision = q.id /\ row'.write = q.id /\ row'.value = NoText
  BY <1>4, <1>6 DEF StoredValue
<1>8. row.value # NoText => row.value.id \in shown[List]
  BY <1>6 DEF KeptInv, HeldInv, Knows
<1> QED BY <1>4, <1>5, <1>6, <1>7, <1>8

\* A discard draws a write of its own, which is served at once.
LEMMA DiscardKeeps == ASSUME TypeOK, KeptInv, Discard PROVE KeptInv'
<1>0. RowInv /\ RequestInv /\ HeldInv /\ List \in Editors BY WindowsAreEditors DEF KeptInv
<1>1. made' = [made EXCEPT ![List] = @ + 1]
      /\ UNCHANGED <<turns, text, revision, pending, late, listed, shown>>
  BY DEF Discard, window
<1>2. Requested' = Requested BY <1>1 DEF Requested
<1>3. \A x \in Editors : made[x] <= made'[x] /\ made'[x] \in Nat /\ shown[x] \subseteq shown'[x]
  BY <1>0, <1>1 DEF TypeOK
<1>4. ASSUME NEW v \in Writes, v[2] <= made[v[1]] PROVE v[2] <= made'[v[1]]
  <2>1. v[1] \in Editors /\ v[2] \in Nat BY DEF Writes
  <2> QED BY <1>3, <1>4, <2>1 DEF TypeOK
<1>5. RowInv' /\ \A e \in Editors : \A v : Knows(e, v) => Knows(e, v)'
  <2>1. CASE row' = row
    <3>1. RowInv' BY <1>0, <1>1, <1>2, <1>4, <2>1 DEF RowInv
    <3> QED BY <1>1, <1>2, <1>3, <2>1, <3>1, KnowsKept
  <2>2. CASE row' # row
    <3>1. PICK id \in Writes :
            /\ id = <<List, made[List] + 1>>
            /\ row'.revision = id /\ row'.write = id /\ row'.value = NoText
      BY <2>2, DiscardRow
    <3>2. id[2] <= made'[id[1]] BY <1>0, <1>1, <3>1 DEF TypeOK
    <3>3. \A q \in Requested : q.id # id BY <1>0, <3>1, Fresh
    <3>4. RowInv' BY <1>2, <3>1, <3>2, <3>3 DEF RowInv
    <3>5. \A e \in Editors : \A v : Knows(e, v) => Knows(e, v)'
      BY <1>1, <1>2, <1>4, <3>1 DEF Knows
    <3> QED BY <3>4, <3>5
  <2> QED BY <2>1, <2>2
<1>6. Knows(List, listed.revision)' /\ \A u \in Windows : Knows(u, revision[u])'
  BY <1>0, <1>1, <1>5, WindowsAreEditors DEF HeldInv, Knows
<1>7. \A u \in Windows : /\ text'[u] # NoText => text'[u].id \in shown'[u]
                         /\ pending'[u] \in {pending[u], NoWrite}
  BY <1>0, <1>1 DEF HeldInv
<1>8. RequestInv' /\ HeldInv' BY <1>0, <1>2, <1>3, <1>5, <1>6, <1>7, Others
<1> QED BY <1>5, <1>8 DEF KeptInv

\* The invariant is inductive.
LEMMA KeptStep == ASSUME TypeOK, KeptInv, [Next]_vars PROVE KeptInv'
<1>1. CASE UNCHANGED vars
  <2>1. UNCHANGED <<row, turns, made, listed, shown, late, revision, text, pending>>
    BY <1>1 DEF vars, window
  <2>2. late' \subseteq Requested BY <2>1 DEF Requested
  <2> QED BY <2>1, <2>2, Quiet DEF KeptInv, HeldInv
<1>2. ASSUME NEW w \in Windows, Window(w) PROVE KeptInv'
  BY <1>2, QuietActions, WriteKeeps, ServeKeeps, TurnKeeps, Zenon DEF Window
<1> QED BY <1>1, <1>2, LateKeeps, RefreshKeeps, DiscardKeeps, Zenon DEF Next

\* What one step may do to a stored draft.
Kept ==
  row.value # NoText /\ (row'.value = NoText \/ row'.value.id # row.value.id)
    => \/ row.value.id \in turns'
       \/ row'.write # row.write /\ row.value.id \in shown[row'.write[1]]

\* A served request replaces only a text its editor has shown.
LEMMA RequestKept ==
  ASSUME TypeOK, KeptInv, NEW q \in Requested, Save(q) PROVE Kept
BY SaveRow DEF KeptInv, Kept, Repeated

\* So does every step that stores or discards.
LEMMA KeptByStep == ASSUME TypeOK, KeptInv, [Next]_vars PROVE Kept
<1>1. ASSUME row' = row PROVE Kept BY <1>1 DEF Kept
<1>2. ASSUME NEW w \in Windows, ServeWrite(w) PROVE Kept
  <2>1. pending[w] \in Requested /\ Save(pending[w])
    BY <1>2 DEF ServeWrite, TypeOK, Requested
  <2> QED BY <2>1, RequestKept
<1>3. ASSUME NEW w \in Windows, ServeSend(w) \/ LoseSent(w) PROVE Kept
  <2>1. Accept(text[w].id) BY <1>3 DEF ServeSend, LoseSent
  <2> QED BY <1>1, <2>1 DEF Accept, Consumed, Kept
<1>4. ASSUME NEW r \in late, ServeLate(r) PROVE Kept
  BY <1>4, RequestKept DEF ServeLate, Requested
<1>5. CASE Discard
  <2>1. CASE row' # row
    <3>1. PICK id \in Writes : /\ id = <<List, made[List] + 1>> /\ id # row.write
                               /\ row'.write = id
                               /\ row.value # NoText => row.value.id \in shown[List]
      BY <1>5, <2>1, DiscardRow
    <3> QED BY <3>1 DEF Kept
  <2> QED BY <1>1, <2>1
<1>6. CASE Refresh BY <1>1, <1>6 DEF Refresh
<1>7. CASE UNCHANGED vars BY <1>1, <1>7 DEF vars
<1>8. ASSUME NEW w \in Windows,
             \/ Open(w) \/ Load(w) \/ Restore(w) \/ Adjust(w) \/ Suggest(w) \/ Write(w) \/ Send(w)
             \/ Freeze(w) \/ Submit(w) \/ RefuseSend(w) \/ Fail(w) \/ Vanish(w)
             \/ \E t \in Texts : Prepare(w, t) \/ Type(w, t)
      PROVE  Kept
  BY <1>1, <1>8 DEF Open, Load, Restore, Adjust, Suggest, Write, Send, Freeze, Submit, RefuseSend,
       Fail, Vanish, Prepare, Type
<1> QED BY <1>2, <1>3, <1>4, <1>5, <1>6, <1>7, <1>8, Zenon DEF Next, Window

\* A stored draft disappears only because its message was sent, or by the write
\* of an editor that has shown this very message: a write replaces only the
\* revision it expects, and whoever expects a revision knows its text.
THEOREM StoredKept == Spec => StoredTextIsKept
<1>1. Init => KeptInv BY InitKept
<1>2. TypeOK /\ KeptInv /\ [Next]_vars => KeptInv' BY KeptStep
<1>3. TypeOK /\ KeptInv /\ [Next]_vars => [Kept]_vars BY KeptByStep
<1>4. Spec => [][Kept]_vars BY DraftsTypeCorrect, <1>1, <1>2, <1>3, PTL DEF Spec
<1> QED BY <1>4 DEF StoredTextIsKept, Kept
=============================================================================
